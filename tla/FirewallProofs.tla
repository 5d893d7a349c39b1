--------------------------- MODULE FirewallProofs ---------------------------
(***************************************************************************)
(* Proofs about Firewall, for any set of interfaces and any number of      *)
(* failures, deaths and reboots: gated interfaces are gated, others pass,  *)
(* nothing is gated in excess, and a first boot has no window.             *)
(*                                                                         *)
(* The argument: the invariant says, for each position of the operation    *)
(* under way, what its commands have made of the kernel so far; the lemmas *)
(* about lists of rules say what a packet makes of that.                   *)
(***************************************************************************)
EXTENDS Firewall, FiniteSetTheorems, SequenceTheorems, WellFoundedInduction, TLAPS

-----------------------------------------------------------------------------
(* The inductive invariant                                                 *)

\* Values and their types; a daemon that is down has no operation and no record.
TypeInv ==
    /\ cfg \in [backend : {"nft", "ipset"}, works : BOOLEAN, hotspot : Iface \cup {None}]
    /\ sets \subseteq {"auth", "g4", "g6"}
    /\ chains \in [Place -> Seq(AnyRule) \cup {None}]
    /\ jumps \subseteq Place \X Iface
    /\ nft \in [Table -> Seq(AnyRule)] \cup {None}
    /\ up \in BOOLEAN /\ record \subseteq Iface /\ op \in AnyOp \cup {None}
    /\ ~up => op = None /\ record = {}
    /\ faults \in Nat
    /\ {first, stale, dirty} \subseteq BOOLEAN

\* The backend, and what the writer is at.
Ipset == cfg.backend = "ipset"
InBase  == op # None /\ op.kind = "base"
InScope == op # None /\ op.kind = "scope"

\* Each backend leaves the other's half of the kernel alone.
OneBackend ==
    /\ Ipset => nft = None
    /\ ~Ipset => jumps = {} /\ chains = [t \in Place |-> None]

\* The rules of a place's chain, the first k of them, and where among the commands of
\* the base rules for c interfaces the place's flush is.
Size(t) == IF t[2] = "nat" THEN 3 ELSE 4
Taken(t, k) == [n \in 1..k |-> ChainRules[t[2]][n]]
FlushAt(t, c) == (IF t[1] = "v4" THEN 0 ELSE 11 + 2 * c) + (IF t[2] = "nat" THEN 5 ELSE 10 + c)
Pos(t) == FlushAt(t, Cardinality(record))
Least2(a, b) == IF a < b THEN a ELSE b

\* A chain is always the beginning of what it is to be.
Begun == \A t \in Place : chains[t] = None \/ \E k \in 0..Size(t) : chains[t] = Taken(t, k)

\* While the base rules are made, a chain has the rules since its flush,
Filling ==
    Ipset /\ InBase =>
        \A t \in Place : op.at > Pos(t) => chains[t] = Taken(t, Least2(op.at - 1 - Pos(t), Size(t)))

\* and with the base rules made it is complete.
Filled == Ipset /\ up /\ ~InBase => \A t \in Place : chains[t] = ChainRules[t[2]]

\* The jumps that the first m commands make, or remove.
DoneOf(cs, m, verb) ==
    {<<cs[n].at, cs[n].iface>> : n \in {k \in 1..m : k <= Len(cs) /\ cs[k].do = verb}}
Done(verb) == DoneOf(Commands, op.at - 1, verb)

\* The record's jumps are there; those an operation has made so far, and during a change
\* of the scope those that stay.
JumpsMade ==
    Ipset /\ up /\ ~dirty =>
        /\ op = None => Place \X record \subseteq jumps
        /\ op # None => Done("jump") \subseteq jumps
        /\ InScope => Place \X (record \cap op.want) \subseteq jumps

\* No others are there, as long as every removal works: those that the change has removed
\* so far are gone.
NoOtherJumps ==
    Ipset /\ first /\ ~stale /\ ~dirty =>
        /\ ~InScope => jumps \subseteq Place \X record
        /\ InScope => jumps \subseteq Place \X (record \cup op.want) /\ jumps \cap Done("unjump") = {}

\* Before the first daemon the kernel is empty.
Fresh == first /\ ~up => sets = {} /\ chains = [t \in Place |-> None] /\ jumps = {} /\ nft = None

\* In the first daemon, while nothing fails: sets before chains, chains before jumps.
Ordered ==
    Ipset /\ first /\ faults = 0 /\ InBase =>
        /\ \A m \in 1..3 : m < op.at => <<"auth", "g4", "g6">>[m] \in sets
        /\ \A t \in Place : op.at >= Pos(t) => chains[t] # None
        /\ \A j \in jumps : op.at > Pos(j[1]) + Size(j[1])

\* The nft rules: what gates an interface, and the passes that come first.
GateRule(table, i) ==
    IF table = "nat" THEN Rule({<<"kind", "web">>, <<"iface", i>>}, "redirect")
    ELSE Rule({<<"iface", i>>}, "drop")
Opening == [nat    |-> <<Authed, ToGardenOf("v4"), ToGardenOf("v6")>>,
            filter |-> <<Established, Authed, ToGardenOf("v4"), ToGardenOf("v6")>>]

\* First the passes, and nothing but passes and gates.
Shape(rules, table) ==
    /\ Len(rules) >= Len(Opening[table])
    /\ \A n \in 1..Len(Opening[table]) : rules[n] = Opening[table][n]
    /\ \A n \in 1..Len(rules) :
           \/ \E m \in 1..Len(Opening[table]) : rules[n] = Opening[table][m]
           \/ \E i \in Iface : rules[n] = GateRule(table, i)

\* Every nft chain that is there has that shape.
Shaped == nft # None => \A table \in Table : Shape(nft[table], table)

\* The interfaces a list of rules gates; that it gates these, and no others.
Gates(rules, table) == {i \in Iface : \E n \in 1..Len(rules) : rules[n] = GateRule(table, i)}

Covers(ifaces) == nft # None /\ \A table \in Table : ifaces \subseteq Gates(nft[table], table)
Only(ifaces) == nft # None => \A table \in Table : Gates(nft[table], table) \subseteq ifaces

\* What the nft chains gate: the record, and once the document of a change is in, what
\* the change wants.
InForce == IF op = None THEN record
           ELSE IF op.kind = "scope" /\ op.at > 1 THEN op.want ELSE record

\* The nft chains gate what is in force once the first document is in, and nothing else in
\* the first daemon.
NftCovers == ~Ipset /\ up /\ (InBase => op.at > 1) => Covers(InForce)
NftOnly == ~Ipset /\ first => Only(InForce)

\* The invariant.
IInv == TypeInv /\ OneBackend /\ Begun /\ Filling /\ Filled /\ JumpsMade /\ NoOtherJumps
        /\ Fresh /\ Ordered /\ Shaped /\ NftCovers /\ NftOnly

-----------------------------------------------------------------------------
(* Lists of rules, sets as sequences                                       *)

\* A rule with one test.
LEMMA OneTest ==
    ASSUME NEW p, NEW field, NEW value, NEW do
    PROVE  /\ Applies(Rule({<<field, value>>}, do), p) <=> p[field] = value
           /\ Rule({<<field, value>>}, do).do = do
<1> DEFINE when == {<<field, value>>}
           rule == Rule(when, do)
<1>1. rule.when = when /\ rule.do = do
  BY DEF Rule
<1>2. (\A test \in when : p[test[1]] = test[2]) <=> p[field] = value
  OBVIOUS
<1> HIDE DEF when
<1>3. Applies(rule, p) <=> p[field] = value
  BY <1>1, <1>2 DEF Applies
<1> QED BY <1>1, <1>3, Zenon DEF when

\* A rule with several tests.
LEMMA Tests ==
    ASSUME NEW p, NEW when, NEW do
    PROVE  /\ Applies(Rule(when, do), p) <=> \A test \in when : p[test[1]] = test[2]
           /\ Rule(when, do).do = do
<1>1. Rule(when, do).when = when /\ Rule(when, do).do = do
  BY DEF Rule
<1> QED BY <1>1 DEF Applies

\* A rule with none.
LEMMA NoTest == ASSUME NEW p, NEW do PROVE Applies(Rule({}, do), p) /\ Rule({}, do).do = do
BY DEF Applies, Rule

\* The least element of a set of numbers.
LEMMA Least == ASSUME NEW S, S \subseteq Nat, S # {} PROVE Min(S) \in S /\ \A n \in S : Min(S) <= n
<1>1. PICK n \in S : \A m \in S : ~(<<m, n>> \in OpToRel(<, Nat))
  BY NatLessThanWellFounded, WFMin
<1>2. \A m \in S : ~(m < n)
  BY <1>1, Zenon DEF OpToRel
<1>3. \A m \in S : n <= m
  BY <1>2
<1> QED BY <1>3 DEF Min

\* The first rule that applies decides: a verdict is the list's if a rule that applies
\* has it, unless an earlier one applies too; "pass" may also come from no rule at all.
LEMMA DecisionIs ==
    ASSUME NEW rules, DOMAIN rules \subseteq Nat, NEW p, NEW v,
           v = "pass" \/ \E n \in DOMAIN rules : Applies(rules[n], p),
           \A n \in DOMAIN rules :
               Applies(rules[n], p) =>
                   rules[n].do = v \/ \E m \in DOMAIN rules : m < n /\ Applies(rules[m], p)
    PROVE  Decision(rules, p) = v
<1> DEFINE hits == {n \in DOMAIN rules : Applies(rules[n], p)}
<1>1. CASE hits = {}
  BY <1>1 DEF Decision
<1>2. CASE hits # {}
  <2>1. hits \subseteq Nat
    OBVIOUS
  <2>2. Min(hits) \in hits /\ \A n \in hits : Min(hits) <= n
    BY <1>2, <2>1, Least
  <2>3. \A m \in hits : ~(m < Min(hits))
    BY <2>1, <2>2
  <2>4. rules[Min(hits)].do = v
    BY <2>2, <2>3, Zenon
  <2> QED BY <1>2, <2>4 DEF Decision
<1> QED BY <1>1, <1>2

\* A set of interfaces as a sequence, each of them in it.
LEMMA IfaceSeq ==
    ASSUME NEW S, S \subseteq Iface
    PROVE  /\ Cardinality(S) \in Nat
           /\ SetToSeq(S) \in [1..Cardinality(S) -> S]
           /\ \A x \in S : \E n \in 1..Cardinality(S) : SetToSeq(S)[n] = x
<1>1. IsFiniteSet(S)
  BY FirewallAssumption, FS_Subset DEF FirewallAssumption
<1>2. Cardinality(S) \in Nat /\ ExistsBijection(1..Cardinality(S), S)
  BY <1>1, FS_CardinalityType
<1>3. \E f \in [1..Cardinality(S) -> S] : IsInjective(f)
  BY <1>2 DEF ExistsBijection, Bijection, Injection
<1>4. SetToSeq(S) \in [1..Cardinality(S) -> S] /\ IsInjective(SetToSeq(S))
  BY <1>3 DEF SetToSeq
<1>5. SetToSeq(S) \in Injection(1..Cardinality(S), S)
  BY <1>4 DEF Injection
<1>6. IsFiniteSet(1..Cardinality(S)) /\ Cardinality(1..Cardinality(S)) = Cardinality(S)
  BY <1>2, FS_Interval
<1>7. SetToSeq(S) \in Surjection(1..Cardinality(S), S)
  BY <1>1, <1>5, <1>6, FS_Injection
<1> QED BY <1>2, <1>4, <1>7 DEF Surjection

-----------------------------------------------------------------------------
(* The commands of the base rules                                          *)

\* Concatenation.
LEMMA Concat ==
    ASSUME NEW S, NEW s \in Seq(S), NEW t \in Seq(S)
    PROVE  /\ s \o t \in Seq(S) /\ Len(s \o t) = Len(s) + Len(t)
           /\ \A n \in 1..Len(s) : (s \o t)[n] = s[n]
           /\ \A n \in 1..Len(t) : (s \o t)[Len(s) + n] = t[n]
OBVIOUS

\* The commands of the base rules.
AnyCommand ==
    {Create(set) : set \in {"auth", "g4", "g6"}} \cup {NewChain(t) : t \in Place}
      \cup {Flush(t) : t \in Place} \cup {AddRule(t, rule) : t \in Place, rule \in AnyRule}
      \cup {Jump(t, i) : t \in Place, i \in Iface}

\* The commands of a base operation.
LEMMA CommandTypes ==
    /\ \A set \in {"auth", "g4", "g6"} : Create(set) \in AnyCommand
    /\ \A t \in Place : NewChain(t) \in AnyCommand /\ Flush(t) \in AnyCommand
    /\ \A t \in Place : \A rule \in AnyRule : AddRule(t, rule) \in AnyCommand
    /\ \A t \in Place : \A i \in Iface : Jump(t, i) \in AnyCommand
BY DEF AnyCommand

\* The rules of a chain.
LEMMA RulesAre ==
    ASSUME NEW t \in Place
    PROVE  /\ ChainRules[t[2]] \in Seq(AnyRule) /\ Len(ChainRules[t[2]]) = Size(t)
           /\ Size(t) \in Nat
<1>1. t[2] \in {"nat", "filter"}
  BY DEF Place, Table
<1>2. ChainRules["nat"] = <<Authed, ToGarden, Rule({<<"kind", "web">>}, "redirect")>>
  BY DEF ChainRules
<1>3. ChainRules["filter"] = <<Established, Authed, ToGarden, Rule({}, "drop")>>
  BY DEF ChainRules
<1>4. {Authed, ToGarden, Established, Rule({<<"kind", "web">>}, "redirect"), Rule({}, "drop")} \subseteq AnyRule
  BY Zenon DEF AnyRule
<1>5. ChainRules["nat"] \in Seq(AnyRule) /\ Len(ChainRules["nat"]) = 3
  BY <1>2, <1>4
<1>6. ChainRules["filter"] \in Seq(AnyRule) /\ Len(ChainRules["filter"]) = 4
  BY <1>3, <1>4
<1> QED BY <1>1, <1>5, <1>6 DEF Size

\* The commands for one chain, ensure_chain: make it, empty it, fill it, jump to it.
LEMMA ChainCommands ==
    ASSUME NEW t \in Place, NEW ifaces \in SUBSET Iface
    PROVE  /\ EnsureChain(t, ifaces) \in Seq(AnyCommand)
           /\ Len(EnsureChain(t, ifaces)) = 2 + Size(t) + Cardinality(ifaces)
           /\ EnsureChain(t, ifaces)[1] = NewChain(t)
           /\ EnsureChain(t, ifaces)[2] = Flush(t)
           /\ \A k \in 1..Size(t) : EnsureChain(t, ifaces)[2 + k] = AddRule(t, ChainRules[t[2]][k])
           /\ \A k \in 1..Cardinality(ifaces) :
                EnsureChain(t, ifaces)[2 + Size(t) + k] = Jump(t, SetToSeq(ifaces)[k])
<1> DEFINE start == <<NewChain(t), Flush(t)>>
           app == Appends(t)
           jmp == Jumps(t, ifaces)
           c == Cardinality(ifaces)
<1>1. start \in Seq(AnyCommand) /\ Len(start) = 2 /\ start[1] = NewChain(t) /\ start[2] = Flush(t)
  <2>1. NewChain(t) \in AnyCommand /\ Flush(t) \in AnyCommand
    BY CommandTypes
  <2> QED BY <2>1
<1>2. app \in Seq(AnyCommand) /\ Len(app) = Size(t)
      /\ \A k \in 1..Size(t) : app[k] = AddRule(t, ChainRules[t[2]][k])
  <2>1. DOMAIN ChainRules[t[2]] = 1..Size(t) /\ Size(t) \in Nat
    BY RulesAre
  <2>2. app = [k \in 1..Size(t) |-> AddRule(t, ChainRules[t[2]][k])]
    BY <2>1, Zenon DEF Appends
  <2>3. \A k \in 1..Size(t) : ChainRules[t[2]][k] \in AnyRule
    BY RulesAre
  <2>4. \A k \in 1..Size(t) : AddRule(t, ChainRules[t[2]][k]) \in AnyCommand
    BY <2>3, CommandTypes
  <2> HIDE DEF app
  <2> QED BY <2>1, <2>2, <2>4
<1>3. jmp \in Seq(AnyCommand) /\ Len(jmp) = c /\ c \in Nat
      /\ \A k \in 1..c : jmp[k] = Jump(t, SetToSeq(ifaces)[k])
  <2>1. c \in Nat /\ \A k \in 1..c : SetToSeq(ifaces)[k] \in Iface
    BY IfaceSeq
  <2>2. jmp = [k \in 1..c |-> Jump(t, SetToSeq(ifaces)[k])]
    BY DEF Jumps
  <2>4. \A k \in 1..c : Jump(t, SetToSeq(ifaces)[k]) \in AnyCommand
    BY <2>1, CommandTypes
  <2> HIDE DEF jmp
  <2> QED BY <2>1, <2>2, <2>4
<1>4. EnsureChain(t, ifaces) = (start \o app) \o jmp
  BY DEF EnsureChain
<1> HIDE DEF start, app, jmp, c
<1> DEFINE sa == start \o app
<1>5. /\ sa \in Seq(AnyCommand) /\ Len(sa) = 2 + Size(t)
      /\ sa[1] = NewChain(t) /\ sa[2] = Flush(t)
      /\ \A k \in 1..Size(t) : sa[2 + k] = AddRule(t, ChainRules[t[2]][k])
  <2>1. /\ sa \in Seq(AnyCommand) /\ Len(sa) = Len(start) + Len(app)
        /\ \A n \in 1..Len(start) : sa[n] = start[n]
        /\ \A n \in 1..Len(app) : sa[Len(start) + n] = app[n]
    <3>1. start \in Seq(AnyCommand) /\ app \in Seq(AnyCommand)
      BY <1>1, <1>2
    <3> QED BY <3>1, Concat
  <2> HIDE DEF sa
  <2> QED BY <2>1, <1>1, <1>2
<1>6. EnsureChain(t, ifaces) = sa \o jmp
  BY <1>4
<1> HIDE DEF sa
<1>7. Size(t) \in Nat
  BY RulesAre
<1> DEFINE all == sa \o jmp
<1>8. /\ all \in Seq(AnyCommand) /\ Len(all) = Len(sa) + Len(jmp)
      /\ \A n \in 1..Len(sa) : all[n] = sa[n]
      /\ \A n \in 1..Len(jmp) : all[Len(sa) + n] = jmp[n]
  <2>1. sa \in Seq(AnyCommand) /\ jmp \in Seq(AnyCommand)
    BY <1>3, <1>5
  <2> QED BY <2>1, Concat
<1> HIDE DEF all
<1>9. /\ all \in Seq(AnyCommand) /\ Len(all) = 2 + Size(t) + c
      /\ all[1] = NewChain(t) /\ all[2] = Flush(t)
      /\ \A k \in 1..Size(t) : all[2 + k] = AddRule(t, ChainRules[t[2]][k])
      /\ \A k \in 1..c : all[2 + Size(t) + k] = Jump(t, SetToSeq(ifaces)[k])
  <2>1. /\ all \in Seq(AnyCommand) /\ Len(all) = 2 + Size(t) + c
        /\ all[1] = NewChain(t) /\ all[2] = Flush(t)
    BY <1>3, <1>5, <1>7, <1>8
  <2>2. \A k \in 1..Size(t) : all[2 + k] = AddRule(t, ChainRules[t[2]][k])
    <3>1. \A k \in 1..Size(t) : 2 + k \in 1..Len(sa)
      BY <1>5, <1>7
    <3> QED BY <3>1, <1>5, <1>8, Zenon
  <2>3. \A k \in 1..c : all[2 + Size(t) + k] = Jump(t, SetToSeq(ifaces)[k])
    BY <1>3, <1>5, <1>8, Zenon
  <2> QED BY <2>1, <2>2, <2>3
<1> QED BY <1>6, <1>9, Zenon DEF c, all

\* Part is what s has after its first n elements.
HasAt(s, n, part) == \A m \in 1..Len(part) : s[n + m] = part[m]

\* What is part of a sequence is part of a longer one.
LEMMA Placed ==
    ASSUME NEW S, NEW s \in Seq(S), NEW t \in Seq(S)
    PROVE  /\ s \o t \in Seq(S) /\ Len(s \o t) = Len(s) + Len(t)
           /\ HasAt(s \o t, Len(s), t)
           /\ \A n \in Nat, part \in Seq(S) :
                HasAt(s, n, part) /\ n + Len(part) <= Len(s) => HasAt(s \o t, n, part)
<1> DEFINE st == s \o t
<1>1. /\ st \in Seq(S) /\ Len(st) = Len(s) + Len(t)
      /\ \A n \in 1..Len(s) : st[n] = s[n]
      /\ \A n \in 1..Len(t) : st[Len(s) + n] = t[n]
  BY Concat
<1> HIDE DEF st
<1>2. ASSUME NEW n \in Nat, NEW part \in Seq(S), HasAt(s, n, part), n + Len(part) <= Len(s)
      PROVE  HasAt(st, n, part)
  <2>1. \A m \in 1..Len(part) : n + m \in 1..Len(s)
    BY <1>2
  <2> QED BY <2>1, <1>1, <1>2, Zenon DEF HasAt
<1>3. HasAt(st, Len(s), t)
  BY <1>1, Zenon DEF HasAt
<1> QED BY <1>1, <1>2, <1>3 DEF st

\* ensure_base is three sets and then the commands of each place, one after the other.
LEMMA BaseBlocks ==
    ASSUME NEW ifaces \in SUBSET Iface
    PROVE  LET e == EnsureBase[ifaces]
               c == Cardinality(ifaces)
           IN  /\ e \in Seq(AnyCommand) /\ Len(e) = 25 + 4 * c /\ c \in Nat
               /\ e[1] = Create("auth") /\ e[2] = Create("g4") /\ e[3] = Create("g6")
               /\ \A t \in Place : HasAt(e, FlushAt(t, c) - 2, EnsureChain(t, ifaces))
<1> DEFINE e == EnsureBase[ifaces]
           c == Cardinality(ifaces)
           B(k) == EnsureChain(Tables[k], ifaces)
           h == <<Create("auth"), Create("g4"), Create("g6")>>
           s1 == h \o B(1)
           s2 == s1 \o B(2)
           s3 == s2 \o B(3)
           s4 == s3 \o B(4)
<1>1. e = s4
  BY DEF EnsureBase
<1>2. /\ Tables[1] = <<"v4", "nat">> /\ Tables[2] = <<"v4", "filter">>
      /\ Tables[3] = <<"v6", "nat">> /\ Tables[4] = <<"v6", "filter">>
  BY DEF Tables
<1>3. \A k \in 1..4 : Tables[k] \in Place
  BY <1>2 DEF Place, Family, Table
<1>4. c \in Nat
  BY IfaceSeq
<1>5. /\ Size(Tables[1]) = 3 /\ Size(Tables[2]) = 4 /\ Size(Tables[3]) = 3 /\ Size(Tables[4]) = 4
  BY <1>2 DEF Size
<1>6. /\ B(1) \in Seq(AnyCommand) /\ Len(B(1)) = 5 + c
      /\ B(2) \in Seq(AnyCommand) /\ Len(B(2)) = 6 + c
      /\ B(3) \in Seq(AnyCommand) /\ Len(B(3)) = 5 + c
      /\ B(4) \in Seq(AnyCommand) /\ Len(B(4)) = 6 + c
  BY <1>3, <1>5, ChainCommands
<1>7. h \in Seq(AnyCommand) /\ Len(h) = 3
  BY CommandTypes
<1>8. HasAt(h, 0, h)
  BY <1>7 DEF HasAt
<1> HIDE DEF e, c, B, h, s1, s2, s3, s4
<1>11. s1 \in Seq(AnyCommand) /\ Len(s1) = 8 + c /\ HasAt(s1, 3, B(1)) /\ HasAt(s1, 0, h)
  <2>1. h \in Seq(AnyCommand) /\ B(1) \in Seq(AnyCommand)
    BY <1>6, <1>7, <1>8
  <2>2. /\ s1 \in Seq(AnyCommand) /\ Len(s1) = Len(h) + Len(B(1))
        /\ HasAt(s1, Len(h), B(1))
        /\ \A n \in Nat, part \in Seq(AnyCommand) :
             HasAt(h, n, part) /\ n + Len(part) <= Len(h) => HasAt(s1, n, part)
    BY <2>1, Placed DEF s1
  <2>3. Len(h) = 3 /\ Len(s1) = 8 + c
    <3>1. Len(s1) = Len(h) + Len(B(1))
      BY <2>2, Zenon
    <3>2. Len(h) = 3 /\ Len(B(1)) = 5 + c
      BY <1>6, <1>7, Zenon
    <3> QED BY <3>1, <3>2, <1>4
  <2>4. HasAt(s1, 0, h)
    <3>1. 0 \in Nat /\ h \in Seq(AnyCommand) /\ 0 + Len(h) <= Len(h)
      BY <2>3, <1>4, <1>7
    <3> QED BY <3>1, <2>2, <1>8, Zenon
  <2> QED BY <2>2, <2>3, <2>4
<1>12. /\ s2 \in Seq(AnyCommand) /\ Len(s2) = 14 + 2 * c
       /\ HasAt(s2, 8 + c, B(2)) /\ HasAt(s2, 3, B(1)) /\ HasAt(s2, 0, h)
  <2>1. s1 \in Seq(AnyCommand) /\ B(2) \in Seq(AnyCommand)
    BY <1>6, <1>11
  <2>2. /\ s2 \in Seq(AnyCommand) /\ Len(s2) = Len(s1) + Len(B(2))
        /\ HasAt(s2, Len(s1), B(2))
        /\ \A n \in Nat, part \in Seq(AnyCommand) :
             HasAt(s1, n, part) /\ n + Len(part) <= Len(s1) => HasAt(s2, n, part)
    BY <2>1, Placed DEF s2
  <2>3. Len(s1) = 8 + c /\ Len(s2) = 14 + 2 * c
    <3>1. Len(s2) = Len(s1) + Len(B(2))
      BY <2>2, Zenon
    <3>2. Len(s1) = 8 + c /\ Len(B(2)) = 6 + c
      BY <1>6, <1>11, Zenon
    <3> QED BY <3>1, <3>2, <1>4
  <2>4. HasAt(s2, 3, B(1))
    <3>1. 3 \in Nat /\ B(1) \in Seq(AnyCommand) /\ 3 + Len(B(1)) <= Len(s1)
      BY <2>3, <1>4, <1>6
    <3> QED BY <3>1, <2>2, <1>11, Zenon
  <2>5. HasAt(s2, 0, h)
    <3>1. 0 \in Nat /\ h \in Seq(AnyCommand) /\ 0 + Len(h) <= Len(s1)
      BY <2>3, <1>4, <1>7
    <3> QED BY <3>1, <2>2, <1>11, Zenon
  <2> QED BY <2>2, <2>3, <2>4, <2>5
<1>13. /\ s3 \in Seq(AnyCommand) /\ Len(s3) = 19 + 3 * c
       /\ HasAt(s3, 14 + 2 * c, B(3)) /\ HasAt(s3, 8 + c, B(2)) /\ HasAt(s3, 3, B(1)) /\ HasAt(s3, 0, h)
  <2>1. s2 \in Seq(AnyCommand) /\ B(3) \in Seq(AnyCommand)
    BY <1>6, <1>12
  <2>2. /\ s3 \in Seq(AnyCommand) /\ Len(s3) = Len(s2) + Len(B(3))
        /\ HasAt(s3, Len(s2), B(3))
        /\ \A n \in Nat, part \in Seq(AnyCommand) :
             HasAt(s2, n, part) /\ n + Len(part) <= Len(s2) => HasAt(s3, n, part)
    BY <2>1, Placed DEF s3
  <2>3. Len(s2) = 14 + 2 * c /\ Len(s3) = 19 + 3 * c
    <3>1. Len(s3) = Len(s2) + Len(B(3))
      BY <2>2, Zenon
    <3>2. Len(s2) = 14 + 2 * c /\ Len(B(3)) = 5 + c
      BY <1>6, <1>12, Zenon
    <3> QED BY <3>1, <3>2, <1>4
  <2>4. HasAt(s3, 8 + c, B(2))
    <3>1. 8 + c \in Nat /\ B(2) \in Seq(AnyCommand) /\ 8 + c + Len(B(2)) <= Len(s2)
      BY <2>3, <1>4, <1>6
    <3> QED BY <3>1, <2>2, <1>12, Zenon
  <2>5. HasAt(s3, 3, B(1))
    <3>1. 3 \in Nat /\ B(1) \in Seq(AnyCommand) /\ 3 + Len(B(1)) <= Len(s2)
      BY <2>3, <1>4, <1>6
    <3> QED BY <3>1, <2>2, <1>12, Zenon
  <2>6. HasAt(s3, 0, h)
    <3>1. 0 \in Nat /\ h \in Seq(AnyCommand) /\ 0 + Len(h) <= Len(s2)
      BY <2>3, <1>4, <1>7
    <3> QED BY <3>1, <2>2, <1>12, Zenon
  <2> QED BY <2>2, <2>3, <2>4, <2>5, <2>6
<1>14. /\ s4 \in Seq(AnyCommand) /\ Len(s4) = 25 + 4 * c
       /\ HasAt(s4, 19 + 3 * c, B(4)) /\ HasAt(s4, 14 + 2 * c, B(3))
       /\ HasAt(s4, 8 + c, B(2)) /\ HasAt(s4, 3, B(1)) /\ HasAt(s4, 0, h)
  <2>1. s3 \in Seq(AnyCommand) /\ B(4) \in Seq(AnyCommand)
    BY <1>6, <1>13
  <2>2. /\ s4 \in Seq(AnyCommand) /\ Len(s4) = Len(s3) + Len(B(4))
        /\ HasAt(s4, Len(s3), B(4))
        /\ \A n \in Nat, part \in Seq(AnyCommand) :
             HasAt(s3, n, part) /\ n + Len(part) <= Len(s3) => HasAt(s4, n, part)
    BY <2>1, Placed DEF s4
  <2>3. Len(s3) = 19 + 3 * c /\ Len(s4) = 25 + 4 * c
    <3>1. Len(s4) = Len(s3) + Len(B(4))
      BY <2>2, Zenon
    <3>2. Len(s3) = 19 + 3 * c /\ Len(B(4)) = 6 + c
      BY <1>6, <1>13, Zenon
    <3> QED BY <3>1, <3>2, <1>4
  <2>4. HasAt(s4, 14 + 2 * c, B(3))
    <3>1. 14 + 2 * c \in Nat /\ B(3) \in Seq(AnyCommand) /\ 14 + 2 * c + Len(B(3)) <= Len(s3)
      BY <2>3, <1>4, <1>6
    <3> QED BY <3>1, <2>2, <1>13, Zenon
  <2>5. HasAt(s4, 8 + c, B(2))
    <3>1. 8 + c \in Nat /\ B(2) \in Seq(AnyCommand) /\ 8 + c + Len(B(2)) <= Len(s3)
      BY <2>3, <1>4, <1>6
    <3> QED BY <3>1, <2>2, <1>13, Zenon
  <2>6. HasAt(s4, 3, B(1))
    <3>1. 3 \in Nat /\ B(1) \in Seq(AnyCommand) /\ 3 + Len(B(1)) <= Len(s3)
      BY <2>3, <1>4, <1>6
    <3> QED BY <3>1, <2>2, <1>13, Zenon
  <2>7. HasAt(s4, 0, h)
    <3>1. 0 \in Nat /\ h \in Seq(AnyCommand) /\ 0 + Len(h) <= Len(s3)
      BY <2>3, <1>4, <1>7
    <3> QED BY <3>1, <2>2, <1>13, Zenon
  <2> QED BY <2>2, <2>3, <2>4, <2>5, <2>6, <2>7
<1>15. \A t \in Place : HasAt(s4, FlushAt(t, c) - 2, EnsureChain(t, ifaces))
  <2>1. /\ FlushAt(Tables[1], c) - 2 = 3 /\ FlushAt(Tables[2], c) - 2 = 8 + c
        /\ FlushAt(Tables[3], c) - 2 = 14 + 2 * c /\ FlushAt(Tables[4], c) - 2 = 19 + 3 * c
    BY <1>2, <1>4 DEF FlushAt
  <2>2. \A t \in Place : \E k \in 1..4 : t = Tables[k]
    BY <1>2 DEF Place, Family, Table
  <2>3. \A k \in 1..4 : HasAt(s4, FlushAt(Tables[k], c) - 2, EnsureChain(Tables[k], ifaces))
    BY <1>14, <2>1 DEF B
  <2> QED BY <2>2, <2>3, Zenon
<1>16. s4[1] = Create("auth") /\ s4[2] = Create("g4") /\ s4[3] = Create("g6")
  <2>1. \A m \in 1..3 : s4[0 + m] = h[m]
    BY <1>7, <1>14 DEF HasAt
  <2> QED BY <2>1 DEF h
<1> QED BY <1>1, <1>4, <1>14, <1>15, <1>16 DEF e, c

\* What the commands say.
LEMMA Fields ==
    /\ \A set : Create(set).do = "create" /\ Create(set).set = set
    /\ \A t : NewChain(t).do = "chain" /\ NewChain(t).at = t
    /\ \A t : Flush(t).do = "flush" /\ Flush(t).at = t
    /\ \A t, rule : AddRule(t, rule).do = "append" /\ AddRule(t, rule).at = t /\ AddRule(t, rule).rule = rule
    /\ \A t, i : Jump(t, i).do = "jump" /\ Jump(t, i).at = t /\ Jump(t, i).iface = i
    /\ \A flush, s : Apply(flush, s).do = "nft" /\ Apply(flush, s).flush = flush /\ Apply(flush, s).ifaces = s
BY DEF Create, NewChain, Flush, AddRule, Jump, Apply

\* Every position belongs to the sets or to one place, and the places do not overlap.
LEMMA BasePositions ==
    ASSUME NEW c \in Nat
    PROVE  /\ \A n \in 1..(25 + 4 * c) :
                n <= 3 \/ \E t \in Place : n \in (FlushAt(t, c) - 1)..(FlushAt(t, c) + Size(t) + c)
           /\ \A t, u \in Place :
                t = u \/ FlushAt(t, c) + Size(t) + c < FlushAt(u, c) - 1
                      \/ FlushAt(u, c) + Size(u) + c < FlushAt(t, c) - 1
           /\ \A t \in Place :
                /\ FlushAt(t, c) \in Nat /\ Size(t) \in Nat
                /\ FlushAt(t, c) > 4 /\ FlushAt(t, c) + Size(t) + c <= 25 + 4 * c
<1> DEFINE t1 == <<"v4", "nat">>
           t2 == <<"v4", "filter">>
           t3 == <<"v6", "nat">>
           t4 == <<"v6", "filter">>
<1>1. Place = {t1, t2, t3, t4}
  BY DEF Place, Family, Table
<1>2. /\ FlushAt(t1, c) = 5 /\ FlushAt(t2, c) = 10 + c
      /\ FlushAt(t3, c) = 16 + 2 * c /\ FlushAt(t4, c) = 21 + 3 * c
      /\ Size(t1) = 3 /\ Size(t2) = 4 /\ Size(t3) = 3 /\ Size(t4) = 4
  BY DEF FlushAt, Size
<1> HIDE DEF t1, t2, t3, t4
<1>3. \A n \in 1..(25 + 4 * c) :
        n <= 3 \/ \E t \in {t1, t2, t3, t4} : n \in (FlushAt(t, c) - 1)..(FlushAt(t, c) + Size(t) + c)
  BY <1>2
<1>4. \A t, u \in {t1, t2, t3, t4} :
        t = u \/ FlushAt(t, c) + Size(t) + c < FlushAt(u, c) - 1
              \/ FlushAt(u, c) + Size(u) + c < FlushAt(t, c) - 1
  BY <1>2
<1>5. \A t \in {t1, t2, t3, t4} :
        /\ FlushAt(t, c) \in Nat /\ Size(t) \in Nat
        /\ FlushAt(t, c) > 4 /\ FlushAt(t, c) + Size(t) + c <= 25 + 4 * c
  BY <1>2
<1> QED BY <1>1, <1>3, <1>4, <1>5

\* The part of a base operation that is about one place.
LEMMA BasePart ==
    ASSUME NEW ifaces \in SUBSET Iface, NEW t \in Place
    PROVE  LET e == EnsureBase[ifaces]
               c == Cardinality(ifaces)
               p == FlushAt(t, c)
           IN  /\ p \in Nat /\ p > 4 /\ p + Size(t) + c <= Len(e) /\ Size(t) \in Nat
               /\ e[p - 1] = NewChain(t) /\ e[p] = Flush(t)
               /\ \A k \in 1..Size(t) : e[p + k] = AddRule(t, ChainRules[t[2]][k])
               /\ \A k \in 1..c : e[p + Size(t) + k] = Jump(t, SetToSeq(ifaces)[k])
<1> DEFINE e == EnsureBase[ifaces]
           c == Cardinality(ifaces)
           p == FlushAt(t, c)
           b == EnsureChain(t, ifaces)
           sz == Size(t)
<1>1. e \in Seq(AnyCommand) /\ Len(e) = 25 + 4 * c /\ c \in Nat /\ HasAt(e, p - 2, b)
  BY BaseBlocks
<1>2. /\ b \in Seq(AnyCommand) /\ Len(b) = 2 + sz + c
      /\ b[1] = NewChain(t) /\ b[2] = Flush(t)
      /\ \A k \in 1..sz : b[2 + k] = AddRule(t, ChainRules[t[2]][k])
      /\ \A k \in 1..c : b[2 + sz + k] = Jump(t, SetToSeq(ifaces)[k])
  BY ChainCommands
<1>3. p \in Nat /\ p > 4 /\ p + sz + c <= 25 + 4 * c /\ sz \in Nat
  BY <1>1, BasePositions
<1> HIDE DEF e, c, p, b, sz
<1>4. c \in Nat /\ Len(b) = 2 + sz + c /\ \A m \in 1..Len(b) : e[p - 2 + m] = b[m]
  BY <1>1, <1>2, Zenon DEF HasAt
<1>5. \A m \in 1..(2 + sz + c) : e[p - 2 + m] = b[m]
  BY <1>4, Zenon
<1>6. e[p - 1] = b[1] /\ e[p] = b[2]
  <2>1. p - 2 + 1 = p - 1 /\ p - 2 + 2 = p /\ 1 \in 1..(2 + sz + c) /\ 2 \in 1..(2 + sz + c)
    BY <1>3, <1>4
  <2> QED BY <2>1, <1>5, Zenon
<1>7. \A k \in 1..sz : e[p + k] = b[2 + k]
  <2>1. \A k \in 1..sz : p - 2 + (2 + k) = p + k /\ 2 + k \in 1..(2 + sz + c)
    BY <1>3, <1>4
  <2> QED BY <2>1, <1>5, Zenon
<1>8. \A k \in 1..c : e[p + sz + k] = b[2 + sz + k]
  <2>1. \A k \in 1..c : p - 2 + (2 + sz + k) = p + sz + k /\ 2 + sz + k \in 1..(2 + sz + c)
    BY <1>3, <1>4
  <2> QED BY <2>1, <1>5, Zenon
<1>9. p + sz + c <= Len(e)
  <2>1. Len(e) = 25 + 4 * c
    BY <1>1, Zenon
  <2> QED BY <2>1, <1>3
<1>10. /\ e[p - 1] = NewChain(t) /\ e[p] = Flush(t)
       /\ \A k \in 1..sz : e[p + k] = AddRule(t, ChainRules[t[2]][k])
       /\ \A k \in 1..c : e[p + sz + k] = Jump(t, SetToSeq(ifaces)[k])
  BY <1>2, <1>6, <1>7, <1>8, Zenon
<1> QED BY <1>3, <1>9, <1>10 DEF e, c, p, sz

\* Each command of the base rules, by its position.
LEMMA BaseCommands ==
    ASSUME NEW ifaces \in SUBSET Iface
    PROVE  LET e == EnsureBase[ifaces]
               c == Cardinality(ifaces)
           IN  \A n \in 1..Len(e) :
                 \/ n <= 3 /\ e[n] = Create(<<"auth", "g4", "g6">>[n])
                 \/ \E t \in Place : n = FlushAt(t, c) - 1 /\ e[n] = NewChain(t)
                 \/ \E t \in Place : n = FlushAt(t, c) /\ e[n] = Flush(t)
                 \/ \E t \in Place : \E k \in 1..Size(t) :
                      n = FlushAt(t, c) + k /\ e[n] = AddRule(t, ChainRules[t[2]][k])
                 \/ \E t \in Place, i \in ifaces :
                      /\ n > FlushAt(t, c) + Size(t) /\ n <= FlushAt(t, c) + Size(t) + c
                      /\ e[n] = Jump(t, i)
<1> DEFINE e == EnsureBase[ifaces]
           c == Cardinality(ifaces)
           p(t) == FlushAt(t, c)
<1>1. Len(e) = 25 + 4 * c /\ c \in Nat /\ e[1] = Create("auth") /\ e[2] = Create("g4") /\ e[3] = Create("g6")
  BY BaseBlocks
<1>2. \A t \in Place :
        /\ e[p(t) - 1] = NewChain(t) /\ e[p(t)] = Flush(t)
        /\ \A k \in 1..Size(t) : e[p(t) + k] = AddRule(t, ChainRules[t[2]][k])
        /\ \A k \in 1..c : e[p(t) + Size(t) + k] = Jump(t, SetToSeq(ifaces)[k])
  BY BasePart
<1>3. \A n \in 1..(25 + 4 * c) : n <= 3 \/ \E t \in Place : n \in (p(t) - 1)..(p(t) + Size(t) + c)
  BY <1>1, BasePositions
<1>4. \A t \in Place : p(t) \in Nat /\ Size(t) \in Nat
  BY <1>1, BasePositions
<1>5. \A k \in 1..c : SetToSeq(ifaces)[k] \in ifaces
  BY IfaceSeq
<1> HIDE DEF e, c, p
<1>6. SUFFICES ASSUME NEW n \in 1..Len(e)
      PROVE  \/ n <= 3 /\ e[n] = Create(<<"auth", "g4", "g6">>[n])
             \/ \E t \in Place : n = p(t) - 1 /\ e[n] = NewChain(t)
             \/ \E t \in Place : n = p(t) /\ e[n] = Flush(t)
             \/ \E t \in Place : \E k \in 1..Size(t) : n = p(t) + k /\ e[n] = AddRule(t, ChainRules[t[2]][k])
             \/ \E t \in Place, i \in ifaces :
                  n > p(t) + Size(t) /\ n <= p(t) + Size(t) + c /\ e[n] = Jump(t, i)
  BY DEF e, c, p
<1>7. CASE n <= 3
  <2>1. n \in {1, 2, 3}
    BY <1>1, <1>7
  <2> QED BY <2>1, <1>1
<1>8. CASE ~(n <= 3)
  <2>1. PICK t \in Place : n \in (p(t) - 1)..(p(t) + Size(t) + c)
    BY <1>1, <1>3, <1>8
  <2>2. p(t) \in Nat /\ Size(t) \in Nat
    BY <1>4
  <2>3. CASE n = p(t) - 1
    BY <2>3, <1>2
  <2>4. CASE n = p(t)
    BY <2>4, <1>2
  <2>5. CASE \E k \in 1..Size(t) : n = p(t) + k
    BY <2>5, <1>2
  <2>6. CASE \E k \in 1..c : n = p(t) + Size(t) + k
    <3>1. PICK k \in 1..c : n = p(t) + Size(t) + k
      BY <2>6
    <3>2. e[n] = Jump(t, SetToSeq(ifaces)[k]) /\ SetToSeq(ifaces)[k] \in ifaces
      BY <3>1, <1>2, <1>5
    <3>3. n > p(t) + Size(t) /\ n <= p(t) + Size(t) + c
      BY <3>1, <2>2, <1>1
    <3> QED BY <3>2, <3>3
  <2>7. \/ n = p(t) - 1 \/ n = p(t) \/ (\E k \in 1..Size(t) : n = p(t) + k)
        \/ \E k \in 1..c : n = p(t) + Size(t) + k
    <3>0. n \in Int /\ p(t) \in Int /\ Size(t) \in Int /\ p(t) - 1 <= n
      BY <2>1, <2>2
    <3>1. CASE n > p(t) + Size(t)
      <4>1. n - p(t) - Size(t) \in 1..c /\ n = p(t) + Size(t) + (n - p(t) - Size(t))
        BY <3>1, <2>1, <2>2, <1>1
      <4> QED BY <4>1, Zenon
    <3>2. CASE n > p(t) /\ n <= p(t) + Size(t)
      <4>1. n - p(t) \in 1..Size(t) /\ n = p(t) + (n - p(t))
        BY <3>2, <2>1, <2>2, <1>1
      <4> QED BY <4>1, Zenon
    <3>3. CASE n <= p(t)
      <4>1. n = p(t) - 1 \/ n = p(t)
        BY <3>3, <3>0
      <4> QED BY <4>1, Zenon
    <3>4. n > p(t) + Size(t) \/ (n > p(t) /\ n <= p(t) + Size(t)) \/ n <= p(t)
      BY <3>0
    <3> QED BY <3>1, <3>2, <3>3, <3>4, Zenon
  <2> QED BY <2>3, <2>4, <2>5, <2>6, <2>7
<1> QED BY <1>7, <1>8

-----------------------------------------------------------------------------
(* The commands of a change of the scope                                   *)

\* One more command done.
LEMMA DoneNext ==
    ASSUME NEW cs, Len(cs) \in Nat, NEW m \in 1..Len(cs), NEW verb
    PROVE  /\ cs[m].do # verb => DoneOf(cs, m, verb) = DoneOf(cs, m - 1, verb)
           /\ cs[m].do = verb =>
                DoneOf(cs, m, verb) = DoneOf(cs, m - 1, verb) \cup {<<cs[m].at, cs[m].iface>>}
<1>1. {k \in 1..m : k <= Len(cs) /\ cs[k].do = verb}
        = {k \in 1..(m - 1) : k <= Len(cs) /\ cs[k].do = verb} \cup (IF cs[m].do = verb THEN {m} ELSE {})
  OBVIOUS
<1> QED BY <1>1 DEF DoneOf

\* Nothing done yet.
LEMMA DoneNone == ASSUME NEW cs, NEW verb PROVE DoneOf(cs, 0, verb) = {}
BY DEF DoneOf

\* A command about a jump.
Change(verb, t, i) == [do |-> verb, at |-> t, iface |-> i]

\* The commands about jumps: each is about a place and an interface that was given, and
\* every such pair has one.
LEMMA AtEachIs ==
    ASSUME NEW verb \in {"jump", "unjump"}, NEW ifaces \in SUBSET Iface
    PROVE  LET a == AtEach(verb, ifaces)
           IN  /\ a \in Seq([do : {"jump", "unjump"}, at : Place, iface : Iface])
               /\ \A n \in 1..Len(a) : \E t \in Place, i \in ifaces : a[n] = Change(verb, t, i)
               /\ \A t \in Place, i \in ifaces : \E n \in 1..Len(a) : a[n] = Change(verb, t, i)
<1> DEFINE c == Cardinality(ifaces)
           a == AtEach(verb, ifaces)
           s == SetToSeq(ifaces)
           t(n) == Tables[((n - 1) % 4) + 1]
           x(n) == s[((n - 1) \div 4) + 1]
<1>1. c \in Nat /\ s \in [1..c -> ifaces] /\ \A i \in ifaces : \E n \in 1..c : s[n] = i
  BY IfaceSeq
<1>2. a = [n \in 1..(4 * c) |-> Change(verb, t(n), x(n))]
  BY DEF AtEach, Change
<1>3. \A k \in 1..4 : Tables[k] \in Place
  BY DEF Tables, Place, Family, Table
<1>4. \A u \in Place : \E k \in 1..4 : u = Tables[k]
  BY DEF Tables, Place, Family, Table
<1>5. \A n \in 1..(4 * c) : ((n - 1) % 4) + 1 \in 1..4 /\ ((n - 1) \div 4) + 1 \in 1..c
  BY <1>1
<1>6. \A n \in 1..(4 * c) : t(n) \in Place /\ x(n) \in ifaces
  BY <1>1, <1>3, <1>5
<1>7. \A m \in 1..c, k \in 1..4 :
        /\ 4 * (m - 1) + k \in 1..(4 * c)
        /\ ((4 * (m - 1) + k - 1) % 4) + 1 = k /\ ((4 * (m - 1) + k - 1) \div 4) + 1 = m
  BY <1>1
<1>8. \A u \in Place, i \in ifaces : \E n \in 1..(4 * c) : u = t(n) /\ i = x(n)
  <2> SUFFICES ASSUME NEW u \in Place, NEW i \in ifaces PROVE \E n \in 1..(4 * c) : u = t(n) /\ i = x(n)
    OBVIOUS
  <2>1. PICK k \in 1..4 : u = Tables[k]
    BY <1>4
  <2>2. PICK m \in 1..c : s[m] = i
    BY <1>1
  <2> DEFINE n == 4 * (m - 1) + k
  <2>3. n \in 1..(4 * c) /\ u = t(n) /\ i = x(n)
    BY <2>1, <2>2, <1>7
  <2> QED BY <2>3
<1> HIDE DEF a, c, s, t, x
<1>9. \A n \in 1..(4 * c) : a[n] = Change(verb, t(n), x(n))
  BY <1>2
<1>10. \A n \in 1..(4 * c) : Change(verb, t(n), x(n)) \in [do : {"jump", "unjump"}, at : Place, iface : Iface]
  BY <1>6 DEF Change
<1>11. a \in Seq([do : {"jump", "unjump"}, at : Place, iface : Iface]) /\ Len(a) = 4 * c
  BY <1>1, <1>2, <1>10
<1>12. \A n \in 1..(4 * c) : \E u \in Place, i \in ifaces : a[n] = Change(verb, u, i)
  BY <1>6, <1>9, ZenonT(60)
<1>13. \A u \in Place, i \in ifaces : \E n \in 1..(4 * c) : a[n] = Change(verb, u, i)
  BY <1>8, <1>9, ZenonT(60)
<1> QED BY <1>11, <1>12, <1>13 DEF a

\* set_gated_ifaces removes the jumps of the interfaces that leave, at every place, and
\* makes those of the interfaces that come: these and no others.
LEMMA ScopeCommands ==
    ASSUME NEW old \in SUBSET Iface, NEW new \in SUBSET Iface
    PROVE  LET d == SetGatedIfaces[<<old, new>>]
           IN  /\ Len(d) \in Nat
               /\ \A n \in 1..Len(d) :
                    \/ \E t \in Place, i \in old \ new : d[n] = Change("unjump", t, i)
                    \/ \E t \in Place, i \in new \ old : d[n] = Change("jump", t, i)
               /\ Place \X (old \ new) \subseteq DoneOf(d, Len(d), "unjump")
               /\ Place \X (new \ old) \subseteq DoneOf(d, Len(d), "jump")
<1> DEFINE S == [do : {"jump", "unjump"}, at : Place, iface : Iface]
           a == AtEach("unjump", old \ new)
           b == AtEach("jump", new \ old)
           d == a \o b
<1>1. SetGatedIfaces[<<old, new>>] = d
  BY DEF SetGatedIfaces
<1>2. /\ a \in Seq(S)
      /\ \A n \in 1..Len(a) : \E t \in Place, i \in old \ new : a[n] = Change("unjump", t, i)
      /\ \A t \in Place, i \in old \ new : \E n \in 1..Len(a) : a[n] = Change("unjump", t, i)
  <2>1. old \ new \in SUBSET Iface
    OBVIOUS
  <2> QED BY <2>1, AtEachIs, Zenon DEF S, a
<1>3. /\ b \in Seq(S)
      /\ \A n \in 1..Len(b) : \E t \in Place, i \in new \ old : b[n] = Change("jump", t, i)
      /\ \A t \in Place, i \in new \ old : \E n \in 1..Len(b) : b[n] = Change("jump", t, i)
  <2>1. new \ old \in SUBSET Iface
    OBVIOUS
  <2> QED BY <2>1, AtEachIs, Zenon DEF S, b
<1> HIDE DEF S, a, b
<1>4. /\ d \in Seq(S) /\ Len(d) = Len(a) + Len(b)
      /\ \A n \in 1..Len(a) : d[n] = a[n]
      /\ \A n \in 1..Len(b) : d[Len(a) + n] = b[n]
  <2>1. a \in Seq(S) /\ b \in Seq(S)
    BY <1>2, <1>3
  <2> QED BY <2>1, Concat
<1>5. Len(a) \in Nat /\ Len(b) \in Nat
  BY <1>2, <1>3
<1> HIDE DEF d
<1>6. ASSUME NEW n \in 1..Len(d)
      PROVE  \/ \E t \in Place, i \in old \ new : d[n] = Change("unjump", t, i)
             \/ \E t \in Place, i \in new \ old : d[n] = Change("jump", t, i)
  <2>1. CASE n \in 1..Len(a)
    BY <2>1, <1>2, <1>4, Zenon
  <2>2. CASE ~(n \in 1..Len(a))
    <3>1. n - Len(a) \in 1..Len(b) /\ n = Len(a) + (n - Len(a))
      <4>1. Len(d) = Len(a) + Len(b)
        BY <1>4, Zenon
      <4> QED BY <4>1, <2>2, <1>5
    <3>2. d[n] = b[n - Len(a)]
      BY <3>1, <1>4, Zenon
    <3> QED BY <3>1, <3>2, <1>3, Zenon
  <2> QED BY <2>1, <2>2
<1>7. Len(d) \in Nat
  BY <1>4
<1>8. ASSUME NEW t \in Place, NEW i \in old \ new PROVE <<t, i>> \in DoneOf(d, Len(d), "unjump")
  <2>1. PICK n \in 1..Len(a) : a[n] = Change("unjump", t, i)
    BY <1>2
  <2>2. d[n] = Change("unjump", t, i)
    BY <2>1, <1>4, Zenon
  <2>3. n \in 1..Len(d) /\ n <= Len(d)
    <3>1. Len(d) = Len(a) + Len(b)
      BY <1>4, Zenon
    <3> QED BY <3>1, <1>5
  <2>4. d[n].do = "unjump" /\ d[n].at = t /\ d[n].iface = i
    BY <2>2 DEF Change
  <2> QED BY <2>3, <2>4, Zenon DEF DoneOf
<1>9. ASSUME NEW t \in Place, NEW i \in new \ old PROVE <<t, i>> \in DoneOf(d, Len(d), "jump")
  <2>1. PICK n \in 1..Len(b) : b[n] = Change("jump", t, i)
    BY <1>3
  <2>2. d[Len(a) + n] = Change("jump", t, i)
    BY <2>1, <1>4, Zenon
  <2>3. Len(a) + n \in 1..Len(d) /\ Len(a) + n <= Len(d)
    <3>1. Len(d) = Len(a) + Len(b)
      BY <1>4, Zenon
    <3> QED BY <3>1, <1>5
  <2>4. d[Len(a) + n].do = "jump" /\ d[Len(a) + n].at = t /\ d[Len(a) + n].iface = i
    BY <2>2 DEF Change
  <2> QED BY <2>3, <2>4, Zenon DEF DoneOf
<1> QED BY <1>1, <1>6, <1>7, <1>8, <1>9

\* Any one of its commands.
LEMMA ScopeStep ==
    ASSUME NEW old \in SUBSET Iface, NEW new \in SUBSET Iface,
           NEW d, d = SetGatedIfaces[<<old, new>>], NEW n \in 1..Len(d)
    PROVE  \/ \E t \in Place, i \in old \ new : d[n] = Change("unjump", t, i)
           \/ \E t \in Place, i \in new \ old : d[n] = Change("jump", t, i)
<1>1. \A m \in 1..Len(SetGatedIfaces[<<old, new>>]) :
        \/ \E t \in Place, i \in old \ new : SetGatedIfaces[<<old, new>>][m] = Change("unjump", t, i)
        \/ \E t \in Place, i \in new \ old : SetGatedIfaces[<<old, new>>][m] = Change("jump", t, i)
  BY ScopeCommands
<1> QED BY <1>1

\* ensure_base makes the jumps of every interface it was given.
LEMMA BaseDone ==
    ASSUME NEW ifaces \in SUBSET Iface
    PROVE  Place \X ifaces \subseteq DoneOf(EnsureBase[ifaces], Len(EnsureBase[ifaces]), "jump")
<1> DEFINE e == EnsureBase[ifaces]
           c == Cardinality(ifaces)
<1> SUFFICES ASSUME NEW t \in Place, NEW i \in ifaces PROVE <<t, i>> \in DoneOf(e, Len(e), "jump")
  OBVIOUS
<1> DEFINE p == FlushAt(t, c)
<1>1. PICK k \in 1..c : SetToSeq(ifaces)[k] = i
  BY IfaceSeq
<1>2. /\ p \in Nat /\ p + Size(t) + c <= Len(e) /\ Size(t) \in Nat
      /\ e[p + Size(t) + k] = Jump(t, i)
  BY <1>1, BasePart
<1>3. Len(e) \in Nat /\ c \in Nat
  BY BaseBlocks
<1> HIDE DEF e, c, p
<1> DEFINE n == p + Size(t) + k
<1>4. n \in 1..Len(e) /\ n <= Len(e)
  BY <1>2, <1>3
<1>5. e[n].do = "jump" /\ e[n].at = t /\ e[n].iface = i
  BY <1>2, Fields
<1> QED BY <1>4, <1>5, Zenon DEF DoneOf

-----------------------------------------------------------------------------
(* What the rules do with a packet                                         *)

\* Which packets the rules of the chains are about.
LEMMA RuleMeans ==
    ASSUME NEW i, NEW p \in PacketsOf(i)
    PROVE  /\ p.iface = i
           /\ (Applies(Authed, p) <=> p.from = "authed") /\ Authed.do = "pass"
           /\ (Applies(ToGarden, p) <=> p.to = "garden") /\ ToGarden.do = "pass"
           /\ (Applies(Established, p) <=> p.flow = "known") /\ Established.do = "pass"
           /\ (Applies(ChainRules["nat"][3], p) <=> p.kind = "web") /\ ChainRules["nat"][3].do = "redirect"
           /\ Applies(ChainRules["filter"][4], p) /\ ChainRules["filter"][4].do = "drop"
<1>1. /\ p["iface"] = p.iface /\ p["family"] = p.family /\ p["from"] = p.from
      /\ p["to"] = p.to /\ p["kind"] = p.kind /\ p["flow"] = p.flow /\ p.iface = i
  BY DEF PacketsOf
<1>2. (Applies(Authed, p) <=> p.from = "authed") /\ Authed.do = "pass"
  BY <1>1, OneTest, ZenonT(60) DEF Authed
<1>3. (Applies(ToGarden, p) <=> p.to = "garden") /\ ToGarden.do = "pass"
  BY <1>1, OneTest, ZenonT(60) DEF ToGarden
<1>4. (Applies(Established, p) <=> p.flow = "known") /\ Established.do = "pass"
  BY <1>1, OneTest, ZenonT(60) DEF Established
<1>6. (Applies(ChainRules["nat"][3], p) <=> p.kind = "web") /\ ChainRules["nat"][3].do = "redirect"
  <2>1. ChainRules["nat"][3] = Rule({<<"kind", "web">>}, "redirect")
    BY DEF ChainRules
  <2>2. LET rule == Rule({<<"kind", "web">>}, "redirect")
        IN  (Applies(rule, p) <=> p["kind"] = "web") /\ rule.do = "redirect"
    BY OneTest, ZenonT(60)
  <2> QED BY <1>1, <2>1, <2>2
<1>7. Applies(ChainRules["filter"][4], p) /\ ChainRules["filter"][4].do = "drop"
  <2>1. ChainRules["filter"][4] = Rule({}, "drop")
    BY DEF ChainRules
  <2> QED BY <2>1, NoTest, Zenon
<1> QED BY <1>1, <1>2, <1>3, <1>4, <1>6, <1>7

\* Which packets the rules of the nft document are about.
LEMMA GateMeans ==
    ASSUME NEW i, NEW p \in PacketsOf(i), NEW x
    PROVE  /\ (Applies(ToGardenOf(x), p) <=> p.family = x /\ p.to = "garden") /\ ToGardenOf(x).do = "pass"
           /\ (Applies(GateRule("nat", x), p) <=> i = x /\ p.kind = "web") /\ GateRule("nat", x).do = "redirect"
           /\ (Applies(GateRule("filter", x), p) <=> i = x) /\ GateRule("filter", x).do = "drop"
<1>1. /\ p["iface"] = p.iface /\ p["family"] = p.family /\ p["from"] = p.from
      /\ p["to"] = p.to /\ p["kind"] = p.kind /\ p["flow"] = p.flow /\ p.iface = i
  BY DEF PacketsOf
<1>5. (Applies(ToGardenOf(x), p) <=> p.family = x /\ p.to = "garden") /\ ToGardenOf(x).do = "pass"
  <2> DEFINE when == {<<"family", x>>, <<"to", "garden">>}
             rule == Rule(when, "pass")
  <2>3. (\A test \in when : p[test[1]] = test[2]) <=> p["family"] = x /\ p["to"] = "garden"
    OBVIOUS
  <2> HIDE DEF when
  <2>1. (Applies(rule, p) <=> p["family"] = x /\ p["to"] = "garden") /\ rule.do = "pass"
    BY <2>3, Tests
  <2> USE DEF when
  <2>2. ToGardenOf(x) = rule
    BY DEF ToGardenOf
  <2> HIDE DEF rule
  <2> QED BY <1>1, <2>1, <2>2
<1>8. (Applies(GateRule("nat", x), p) <=> i = x /\ p.kind = "web") /\ GateRule("nat", x).do = "redirect"
  <2> DEFINE when == {<<"kind", "web">>, <<"iface", x>>}
             rule == Rule(when, "redirect")
  <2>3. (\A test \in when : p[test[1]] = test[2]) <=> p["kind"] = "web" /\ p["iface"] = x
    OBVIOUS
  <2> HIDE DEF when
  <2>1. (Applies(rule, p) <=> p["kind"] = "web" /\ p["iface"] = x) /\ rule.do = "redirect"
    BY <2>3, Tests
  <2> USE DEF when
  <2>2. GateRule("nat", x) = rule
    BY DEF GateRule
  <2> HIDE DEF rule
  <2> QED BY <1>1, <2>1, <2>2
<1>9. (Applies(GateRule("filter", x), p) <=> i = x) /\ GateRule("filter", x).do = "drop"
  <2> DEFINE rule == Rule({<<"iface", x>>}, "drop")
  <2>1. (Applies(rule, p) <=> p["iface"] = x) /\ rule.do = "drop"
    BY OneTest
  <2>2. GateRule("filter", x) = rule
    BY DEF GateRule
  <2> HIDE DEF rule
  <2> QED BY <1>1, <2>1, <2>2
<1> QED BY <1>1, <1>5, <1>8, <1>9

\* The chains, rule by rule.
LEMMA ChainIs ==
    /\ Len(ChainRules["nat"]) = 3 /\ DOMAIN ChainRules["nat"] = 1..3
    /\ ChainRules["nat"][1] = Authed /\ ChainRules["nat"][2] = ToGarden
    /\ Len(ChainRules["filter"]) = 4 /\ DOMAIN ChainRules["filter"] = 1..4
    /\ ChainRules["filter"][1] = Established /\ ChainRules["filter"][2] = Authed
    /\ ChainRules["filter"][3] = ToGarden
BY DEF ChainRules

\* What a complete chain is documented to do with a packet.
Judgement(table, p) ==
    IF p.from = "authed" \/ p.to = "garden" THEN "pass"
    ELSE IF table = "nat" THEN IF p.kind = "web" THEN "redirect" ELSE "pass"
    ELSE IF p.flow = "known" THEN "pass" ELSE "drop"

\* A complete chain judges as documented.
LEMMA ChainDecides ==
    ASSUME NEW i, NEW p \in PacketsOf(i), NEW table \in Table
    PROVE  Decision(ChainRules[table], p) = Judgement(table, p)
<1> DEFINE rules == ChainRules[table]
<1>1. DOMAIN rules \subseteq Nat
  BY ChainIs DEF Table
<1>2. CASE table = "nat"
  <2> DEFINE v == Judgement("nat", p)
  <2>1. DOMAIN rules = {1, 2, 3}
    BY <1>2, ChainIs
  <2>2. /\ (Applies(rules[1], p) <=> p.from = "authed") /\ rules[1].do = "pass"
        /\ (Applies(rules[2], p) <=> p.to = "garden") /\ rules[2].do = "pass"
        /\ (Applies(rules[3], p) <=> p.kind = "web") /\ rules[3].do = "redirect"
    <3>1. /\ rules[1] = Authed /\ rules[2] = ToGarden /\ rules[3] = ChainRules["nat"][3]
      BY <1>2, ChainIs
    <3> HIDE DEF rules
    <3>2. /\ (Applies(Established, p) <=> p.flow = "known") /\ Established.do = "pass"
          /\ (Applies(Authed, p) <=> p.from = "authed") /\ Authed.do = "pass"
          /\ (Applies(ToGarden, p) <=> p.to = "garden") /\ ToGarden.do = "pass"
          /\ (Applies(ChainRules["nat"][3], p) <=> p.kind = "web") /\ ChainRules["nat"][3].do = "redirect"
          /\ Applies(ChainRules["filter"][4], p) /\ ChainRules["filter"][4].do = "drop"
      BY RuleMeans
    <3> QED BY <3>1, <3>2
  <2> HIDE DEF rules
  <2>3. v = "pass" \/ \E n \in DOMAIN rules : Applies(rules[n], p)
    BY <2>1, <2>2 DEF Judgement
  <2>4. \A n \in DOMAIN rules :
          Applies(rules[n], p) => rules[n].do = v \/ \E m \in DOMAIN rules : m < n /\ Applies(rules[m], p)
    BY <2>1, <2>2 DEF Judgement
  <2>5. Decision(rules, p) = v
    BY <1>1, <2>3, <2>4, DecisionIs
  <2> QED BY <2>5, <1>2 DEF rules
<1>3. CASE table = "filter"
  <2> DEFINE v == Judgement("filter", p)
  <2>1. DOMAIN rules = {1, 2, 3, 4}
    BY <1>3, ChainIs
  <2>2. /\ (Applies(rules[1], p) <=> p.flow = "known") /\ rules[1].do = "pass"
        /\ (Applies(rules[2], p) <=> p.from = "authed") /\ rules[2].do = "pass"
        /\ (Applies(rules[3], p) <=> p.to = "garden") /\ rules[3].do = "pass"
        /\ Applies(rules[4], p) /\ rules[4].do = "drop"
    <3>1. /\ rules[1] = Established /\ rules[2] = Authed /\ rules[3] = ToGarden
          /\ rules[4] = ChainRules["filter"][4]
      BY <1>3, ChainIs
    <3> HIDE DEF rules
    <3>2. /\ (Applies(Established, p) <=> p.flow = "known") /\ Established.do = "pass"
          /\ (Applies(Authed, p) <=> p.from = "authed") /\ Authed.do = "pass"
          /\ (Applies(ToGarden, p) <=> p.to = "garden") /\ ToGarden.do = "pass"
          /\ (Applies(ChainRules["nat"][3], p) <=> p.kind = "web") /\ ChainRules["nat"][3].do = "redirect"
          /\ Applies(ChainRules["filter"][4], p) /\ ChainRules["filter"][4].do = "drop"
      BY RuleMeans
    <3> QED BY <3>1, <3>2
  <2> HIDE DEF rules
  <2>3. v = "pass" \/ \E n \in DOMAIN rules : Applies(rules[n], p)
    BY <2>1, <2>2 DEF Judgement
  <2>4. \A n \in DOMAIN rules :
          Applies(rules[n], p) => rules[n].do = v \/ \E m \in DOMAIN rules : m < n /\ Applies(rules[m], p)
    BY <2>1, <2>2 DEF Judgement
  <2>5. Decision(rules, p) = v
    BY <1>1, <2>3, <2>4, DecisionIs
  <2> QED BY <2>5, <1>3 DEF rules
<1> QED BY <1>2, <1>3 DEF Table

\* A chain that is being filled lets an authorized client pass, however far it is.
LEMMA TakenPasses ==
    ASSUME NEW i, NEW p \in PacketsOf(i), p.from = "authed", NEW t \in Place, NEW k \in 0..Size(t)
    PROVE  Decision(Taken(t, k), p) = "pass"
<1> DEFINE rules == Taken(t, k)
<1>1. t[2] \in {"nat", "filter"}
  BY DEF Place, Table
<1>2. k \in Nat /\ k <= Size(t)
  BY DEF Size
<1>3. DOMAIN rules = 1..k /\ \A n \in 1..k : rules[n] = ChainRules[t[2]][n]
  BY DEF Taken
<1> HIDE DEF rules
<1>4. \A n \in DOMAIN rules :
        Applies(rules[n], p) => rules[n].do = "pass" \/ \E m \in DOMAIN rules : m < n /\ Applies(rules[m], p)
  <2> SUFFICES ASSUME NEW n \in 1..k
               PROVE  rules[n].do = "pass" \/ \E m \in 1..k : m < n /\ Applies(rules[m], p)
    BY <1>3, Zenon
  <2>1. CASE t[2] = "nat"
    <3>1. Size(t) = 3
      BY <2>1 DEF Size
    <3>2. n = 1 \/ n = 2 \/ n = 3
      BY <3>1, <1>2
    <3>3. CASE n = 1 \/ n = 2
      <4>1. rules[n] = Authed \/ rules[n] = ToGarden
        BY <3>3, <2>1, <1>3, ChainIs
      <4> QED BY <4>1, RuleMeans, Zenon
    <3>4. CASE n = 3
      <4>1. 1 \in 1..k /\ 1 < n
        BY <3>4, <1>2
      <4>2. Applies(rules[1], p)
        <5>1. rules[1] = Authed
          BY <4>1, <2>1, <1>3, ChainIs
        <5> QED BY <5>1, RuleMeans, Zenon
      <4> QED BY <4>1, <4>2
    <3> QED BY <3>2, <3>3, <3>4
  <2>2. CASE t[2] = "filter"
    <3>1. Size(t) = 4
      BY <2>2 DEF Size
    <3>2. n = 1 \/ n = 2 \/ n = 3 \/ n = 4
      BY <3>1, <1>2
    <3>3. CASE n = 1 \/ n = 2 \/ n = 3
      <4>1. rules[n] = Established \/ rules[n] = Authed \/ rules[n] = ToGarden
        BY <3>3, <2>2, <1>3, ChainIs
      <4> QED BY <4>1, RuleMeans, Zenon
    <3>4. CASE n = 4
      <4>1. 2 \in 1..k /\ 2 < n
        BY <3>4, <1>2
      <4>2. Applies(rules[2], p)
        <5>1. rules[2] = Authed
          BY <4>1, <2>2, <1>3, ChainIs
        <5> QED BY <5>1, RuleMeans, Zenon
      <4> QED BY <4>1, <4>2
    <3> QED BY <3>2, <3>3, <3>4
  <2> QED BY <1>1, <2>1, <2>2
<1>5. DOMAIN rules \subseteq Nat
  BY <1>3
<1> QED BY <1>4, <1>5, DecisionIs DEF rules

\* Which packets the first rules of an nft chain let pass.
LEMMA OpeningMeans ==
    ASSUME NEW i, NEW p \in PacketsOf(i), NEW table \in Table
    PROVE  /\ Len(Opening[table]) \in Nat
           /\ \A m \in 1..Len(Opening[table]) : Opening[table][m].do = "pass"
           /\ (\E m \in 1..Len(Opening[table]) : Applies(Opening[table][m], p))
                <=> p.from = "authed" \/ p.to = "garden" \/ (table = "filter" /\ p.flow = "known")
<1> DEFINE o == Opening[table]
<1>1. p.family = "v4" \/ p.family = "v6"
  BY DEF PacketsOf, Family
<1>2. /\ (Applies(ToGardenOf("v4"), p) <=> p.family = "v4" /\ p.to = "garden") /\ ToGardenOf("v4").do = "pass"
      /\ (Applies(ToGardenOf("v6"), p) <=> p.family = "v6" /\ p.to = "garden") /\ ToGardenOf("v6").do = "pass"
      /\ (Applies(Authed, p) <=> p.from = "authed") /\ Authed.do = "pass"
      /\ (Applies(Established, p) <=> p.flow = "known") /\ Established.do = "pass"
  BY GateMeans, RuleMeans
<1>3. CASE table = "nat"
  <2>1. /\ Len(o) = 3 /\ o[1] = Authed /\ o[2] = ToGardenOf("v4") /\ o[3] = ToGardenOf("v6")
    BY <1>3 DEF Opening
  <2> HIDE DEF o
  <2>2. 1..Len(o) = {1, 2, 3} /\ Len(o) \in Nat
    BY <2>1
  <2>3. Len(o) \in Nat
        /\ (\A m \in 1..Len(o) : o[m].do = "pass")
        /\ ((\E m \in 1..Len(o) : Applies(o[m], p)) <=> p.from = "authed" \/ p.to = "garden")
    BY <2>1, <2>2, <1>1, <1>2
  <2> QED BY <2>3, <1>3 DEF o
<1>4. CASE table = "filter"
  <2>1. /\ Len(o) = 4 /\ o[1] = Established /\ o[2] = Authed /\ o[3] = ToGardenOf("v4") /\ o[4] = ToGardenOf("v6")
    BY <1>4 DEF Opening
  <2> HIDE DEF o
  <2>2. 1..Len(o) = {1, 2, 3, 4} /\ Len(o) \in Nat
    BY <2>1
  <2>3. Len(o) \in Nat
        /\ (\A m \in 1..Len(o) : o[m].do = "pass")
        /\ ((\E m \in 1..Len(o) : Applies(o[m], p)) <=> p.from = "authed" \/ p.to = "garden" \/ p.flow = "known")
    BY <2>1, <2>2, <1>1, <1>2
  <2> QED BY <2>3, <1>4 DEF o
<1> QED BY <1>3, <1>4 DEF Table

\* An nft chain judges the packets of the interfaces it gates as documented, and lets the
\* others pass.
LEMMA NftDecides ==
    ASSUME NEW i \in Iface \cup {Lan}, NEW p \in PacketsOf(i), NEW table \in Table,
           NEW rules \in Seq(AnyRule), Shape(rules, table)
    PROVE  Decision(rules, p) = IF i \in Gates(rules, table) THEN Judgement(table, p) ELSE "pass"
<1> DEFINE o == Opening[table]
           gated == i \in Gates(rules, table)
           v == IF gated THEN Judgement(table, p) ELSE "pass"
           let == p.from = "authed" \/ p.to = "garden" \/ (table = "filter" /\ p.flow = "known")
           gate(j) == GateRule(table, j)
           hit(n) == Applies(rules[n], p)
<1>1. DOMAIN rules = 1..Len(rules) /\ Len(rules) \in Nat
  OBVIOUS
<1>2. /\ Len(o) \in Nat /\ \A m \in 1..Len(o) : o[m].do = "pass"
      /\ (\E m \in 1..Len(o) : Applies(o[m], p)) <=> let
  BY OpeningMeans, Zenon DEF o, let
<1>3. /\ Len(rules) >= Len(o)
      /\ \A n \in 1..Len(o) : rules[n] = o[n]
      /\ \A n \in 1..Len(rules) :
           (\E m \in 1..Len(o) : rules[n] = o[m]) \/ \E j \in Iface : rules[n] = gate(j)
  BY Zenon DEF Shape, o, gate
<1>4. \A j : /\ Applies(gate(j), p) <=> i = j /\ (table = "nat" => p.kind = "web")
             /\ gate(j).do # "pass"
             /\ gate(j).do = IF table = "nat" THEN "redirect" ELSE "drop"
  <2> SUFFICES ASSUME NEW j
               PROVE  /\ Applies(gate(j), p) <=> i = j /\ (table = "nat" => p.kind = "web")
                      /\ gate(j).do # "pass"
                      /\ gate(j).do = IF table = "nat" THEN "redirect" ELSE "drop"
    OBVIOUS
  <2>1. /\ (Applies(GateRule("nat", j), p) <=> i = j /\ p.kind = "web") /\ GateRule("nat", j).do = "redirect"
        /\ (Applies(GateRule("filter", j), p) <=> i = j) /\ GateRule("filter", j).do = "drop"
    BY GateMeans
  <2> QED BY <2>1 DEF Table
<1>5. gated <=> i \in Iface /\ \E n \in 1..Len(rules) : rules[n] = gate(i)
  BY DEF Gates
<1>6. /\ let => v = "pass"
      /\ ~let /\ v = "pass" => ~gated \/ (table = "nat" /\ p.kind # "web")
      /\ v # "pass" => /\ ~let /\ gated /\ (table = "nat" => p.kind = "web")
                       /\ v = IF table = "nat" THEN "redirect" ELSE "drop"
  BY DEF Judgement, PacketsOf, Table
<1> HIDE DEF o, gated, v, let, gate
<1>7. v = "pass" \/ \E n \in DOMAIN rules : hit(n)
  <2>1. CASE v # "pass"
    <3>1. PICK n \in 1..Len(rules) : rules[n] = gate(i)
      BY <2>1, <1>5, <1>6
    <3>2. hit(n)
      BY <3>1, <2>1, <1>4, <1>6
    <3> QED BY <3>2, <1>1
  <2> QED BY <2>1
<1>8. ASSUME NEW n \in DOMAIN rules, hit(n)
      PROVE  rules[n].do = v \/ \E m \in DOMAIN rules : m < n /\ hit(m)
  <2>1. CASE \E m \in 1..Len(o) : rules[n] = o[m]
    <3>1. rules[n].do = "pass"
      BY <2>1, <1>2, Zenon
    <3>2. let
      BY <2>1, <1>2, <1>8, Zenon DEF hit
    <3> QED BY <3>1, <3>2, <1>6
  <2>2. CASE ~(\E m \in 1..Len(o) : rules[n] = o[m])
    <3>1. PICK j \in Iface : rules[n] = gate(j)
      BY <2>2, <1>1, <1>3
    <3>2. i = j /\ (table = "nat" => p.kind = "web") /\ gated
          /\ rules[n].do = IF table = "nat" THEN "redirect" ELSE "drop"
      BY <3>1, <1>1, <1>4, <1>5, <1>8
    <3>3. CASE ~let
      BY <3>2, <3>3, <1>6
    <3>4. CASE let
      <4>1. PICK m \in 1..Len(o) : Applies(o[m], p)
        BY <3>4, <1>2
      <4>2. m \in 1..Len(rules) /\ hit(m)
        BY <4>1, <1>1, <1>2, <1>3
      <4>3. ~(n \in 1..Len(o))
        BY <2>2, <1>3, Zenon
      <4>4. m < n
        BY <4>3, <1>1, <1>2
      <4> QED BY <4>2, <4>4, <1>1
    <3> QED BY <3>3, <3>4
  <2> QED BY <2>1, <2>2
<1>9. Decision(rules, p) = v
  <2>1. DOMAIN rules \subseteq Nat
    BY <1>1
  <2> QED BY <2>1, <1>7, <1>8, DecisionIs
<1> QED BY <1>9 DEF v, gated

-----------------------------------------------------------------------------
(* The invariant implies the properties                                    *)

\* From the verdicts to what becomes of the packet.
LEMMA Fates ==
    ASSUME NEW i, NEW p \in PacketsOf(i)
    PROVE  /\ (\A table \in Table : Verdict(table, p) = Judgement(table, p)) => Fate(p) = Promise(p)
           /\ (\A table \in Table : Verdict(table, p) = "pass") => Fate(p) = "passed"
<1>1. p.flow \in {"new", "known"}
  BY DEF PacketsOf
<1>2. "nat" \in Table /\ "filter" \in Table
  BY DEF Table
<1> DEFINE n == Verdict("nat", p)
           f == Verdict("filter", p)
<1>3. /\ n = Judgement("nat", p) /\ f = Judgement("filter", p) => Fate(p) = Promise(p)
      /\ n = "pass" /\ f = "pass" => Fate(p) = "passed"
  BY <1>1 DEF Fate, Promise, Judgement
<1> QED BY <1>2, <1>3

\* What a verdict comes from.
LEMMA VerdictIs ==
    ASSUME TypeInv, OneBackend, Shaped, NEW i \in Iface \cup {Lan}, NEW p \in PacketsOf(i), NEW table \in Table
    PROVE  LET t == <<p.family, table>>
           IN  /\ t \in Place
               /\ Ipset => Verdict(table, p) =
                    IF <<t, i>> \in jumps /\ chains[t] # None THEN Decision(chains[t], p) ELSE "pass"
               /\ ~Ipset => Verdict(table, p) =
                    IF nft # None /\ i \in Gates(nft[table], table) THEN Judgement(table, p) ELSE "pass"
<1> DEFINE t == <<p.family, table>>
<1>1. p.iface = i /\ p.family \in Family
  BY DEF PacketsOf
<1>2. t \in Place
  BY <1>1 DEF Place
<1>3. ASSUME Ipset
      PROVE  Verdict(table, p) = IF <<t, i>> \in jumps /\ chains[t] # None THEN Decision(chains[t], p) ELSE "pass"
  <2>1. nft = None
    BY <1>3 DEF OneBackend
  <2> QED BY <2>1, <1>1 DEF Verdict
<1>4. ASSUME ~Ipset
      PROVE  Verdict(table, p) = IF nft # None /\ i \in Gates(nft[table], table) THEN Judgement(table, p) ELSE "pass"
  <2>1. jumps = {}
    BY <1>4 DEF OneBackend
  <2>2. CASE nft = None
    BY <2>1, <2>2 DEF Verdict
  <2>3. CASE nft # None
    <3>1. nft[table] \in Seq(AnyRule) /\ Shape(nft[table], table)
      BY <2>3 DEF TypeInv, Shaped
    <3>2. Decision(nft[table], p) = IF i \in Gates(nft[table], table) THEN Judgement(table, p) ELSE "pass"
      BY <3>1, NftDecides
    <3> QED BY <2>1, <2>3, <3>2 DEF Verdict
  <2> QED BY <2>2, <2>3
<1> QED BY <1>2, <1>3, <1>4

\* A complete chain is a chain.
LEMMA ChainThere == ASSUME NEW t \in Place PROVE ChainRules[t[2]] # None /\ t[2] \in Table
<1>1. ChainRules[t[2]] \in Seq(AnyRule)
  BY RulesAre
<1> QED BY <1>1, NoneAssumption DEF NoneAssumption, Place

\* The invariant implies that every gated interface is judged as documented.
LEMMA InvGateHolds == IInv => GateHolds
<1> SUFFICES ASSUME IInv, up, ~dirty, NEW i \in Held, NEW p \in PacketsOf(i)
             PROVE  Fate(p) = Promise(p)
  BY DEF GateHolds, Gated
<1>1. /\ TypeInv /\ OneBackend /\ Shaped /\ Filled /\ JumpsMade /\ NftCovers
  BY DEF IInv
<1>2. i \in Iface /\ ~InBase /\ i \in record /\ (InScope => i \in op.want)
  BY <1>1 DEF TypeInv, Held, InBase, InScope, AnyOp
<1>3. ASSUME NEW table \in Table PROVE Verdict(table, p) = Judgement(table, p)
  <2> DEFINE t == <<p.family, table>>
  <2>0. t \in Place /\ t[2] = table
    BY <1>1, <1>2, VerdictIs
  <2>1. CASE Ipset
    <3>1. chains[t] = ChainRules[table] /\ chains[t] # None
      BY <2>0, <2>1, <1>1, <1>2, ChainThere DEF Filled
    <3>2. <<t, i>> \in jumps
      <4>1. CASE op = None
        BY <4>1, <2>0, <2>1, <1>1, <1>2 DEF JumpsMade
      <4>2. CASE op # None
        <5>1. InScope
          BY <4>2, <1>1, <1>2 DEF InScope, InBase, TypeInv, AnyOp
        <5> QED BY <5>1, <2>0, <2>1, <1>1, <1>2 DEF JumpsMade
      <4> QED BY <4>1, <4>2
    <3>3. Verdict(table, p) = Decision(ChainRules[table], p)
      BY <3>1, <3>2, <2>1, <1>1, <1>2, VerdictIs
    <3> QED BY <3>3, ChainDecides
  <2>2. CASE ~Ipset
    <3>1. nft # None /\ i \in Gates(nft[table], table)
      <4>1. Covers(InForce)
        BY <2>2, <1>1, <1>2 DEF NftCovers
      <4>2. i \in InForce
        BY <1>2 DEF InForce, InScope
      <4> QED BY <4>1, <4>2 DEF Covers
    <3> QED BY <3>1, <2>2, <1>1, <1>2, VerdictIs
  <2> QED BY <2>1, <2>2
<1> QED BY <1>3, Fates

\* The invariant implies that the owner's network and authorized clients pass.
LEMMA InvOthersPass == IInv => OthersPass
<1> SUFFICES ASSUME IInv, NEW i \in Iface \cup {Lan}, NEW p \in PacketsOf(i), i = Lan \/ p.from = "authed"
             PROVE  Fate(p) = "passed"
  BY DEF OthersPass, Free
<1>1. /\ TypeInv /\ OneBackend /\ Shaped /\ Begun
  BY DEF IInv
<1>2. ASSUME NEW table \in Table PROVE Verdict(table, p) = "pass"
  <2> DEFINE t == <<p.family, table>>
  <2>0. t \in Place
    BY <1>1, VerdictIs
  <2>1. CASE i = Lan
    <3>1. i \notin Iface
      BY <2>1, FirewallAssumption DEF FirewallAssumption
    <3>2. <<t, i>> \notin jumps
      BY <3>1, <1>1 DEF TypeInv
    <3>3. i \notin Gates(nft[table], table)
      BY <3>1 DEF Gates
    <3> QED BY <3>2, <3>3, <1>1, VerdictIs
  <2>2. CASE p.from = "authed"
    <3>1. chains[t] # None => Decision(chains[t], p) = "pass"
      BY <2>0, <2>2, <1>1, TakenPasses DEF Begun
    <3>2. Judgement(table, p) = "pass"
      BY <2>2 DEF Judgement
    <3> QED BY <3>1, <3>2, <1>1, VerdictIs
  <2> QED BY <2>1, <2>2
<1> QED BY <1>2, Fates

\* The invariant implies that an interface out of the scope is left alone.
LEMMA InvNoExcess == IInv => NoExcess
<1> SUFFICES ASSUME IInv, up, op = None, first, ~stale, ~dirty, NEW i \in Iface \ record, NEW p \in PacketsOf(i)
             PROVE  Fate(p) = "passed"
  BY DEF NoExcess, Free
<1>1. /\ TypeInv /\ OneBackend /\ Shaped /\ NoOtherJumps /\ NftOnly
  BY DEF IInv
<1>2. ASSUME NEW table \in Table PROVE Verdict(table, p) = "pass"
  <2> DEFINE t == <<p.family, table>>
  <2>1. CASE Ipset
    <3>1. <<t, i>> \notin jumps
      BY <2>1, <1>1 DEF NoOtherJumps, InScope
    <3> QED BY <2>1, <3>1, <1>1, VerdictIs
  <2>2. CASE ~Ipset
    <3>1. nft # None => i \notin Gates(nft[table], table)
      BY <2>2, <1>1 DEF NftOnly, Only, InForce
    <3> QED BY <2>2, <3>1, <1>1, VerdictIs
  <2> QED BY <2>1, <2>2
<1> QED BY <1>2, Fates

\* The invariant implies that the jumps of the first daemon lead to complete chains.
LEMMA InvNoWindow == IInv => NoWindow
<1> SUFFICES ASSUME IInv, first, faults = 0, NEW j \in jumps PROVE chains[j[1]] = ChainRules[j[1][2]]
  BY DEF NoWindow
<1>1. /\ TypeInv /\ OneBackend /\ Fresh /\ Filled /\ Filling /\ Ordered
  BY DEF IInv
<1>2. j[1] \in Place /\ Ipset /\ up
  BY <1>1 DEF TypeInv, OneBackend, Fresh
<1>3. CASE ~InBase
  BY <1>1, <1>2, <1>3 DEF Filled
<1>4. CASE InBase
  <2> DEFINE t == j[1]
  <2>1. op.at > Pos(t) + Size(t)
    BY <1>1, <1>2, <1>4 DEF Ordered
  <2>2. op.at \in Nat /\ Pos(t) \in Nat /\ Size(t) \in Nat
    <3>1. op.at \in Nat /\ record \in SUBSET Iface
      BY <1>1, <1>4 DEF TypeInv, InBase, AnyOp
    <3>2. Cardinality(record) \in Nat
      BY <3>1, IfaceSeq
    <3> QED BY <3>1, <3>2, <1>2, BasePositions DEF Pos
  <2>3. Least2(op.at - 1 - Pos(t), Size(t)) = Size(t) /\ op.at > Pos(t)
    BY <2>1, <2>2 DEF Least2
  <2>4. chains[t] = Taken(t, Size(t))
    BY <2>3, <1>1, <1>2, <1>4 DEF Filling
  <2>5. Taken(t, Size(t)) = ChainRules[t[2]]
    <3>1. ChainRules[t[2]] \in Seq(AnyRule) /\ Len(ChainRules[t[2]]) = Size(t)
      BY <1>2, RulesAre
    <3> QED BY <3>1 DEF Taken
  <2> QED BY <2>4, <2>5
<1> QED BY <1>3, <1>4

-----------------------------------------------------------------------------
(* The first state, and the steps that leave the kernel alone or empty it  *)

\* The invariant holds at first.
LEMMA InitOk == Init => IInv
<1> SUFFICES ASSUME Init PROVE IInv
  OBVIOUS
<1>1. /\ sets = {} /\ chains = [at \in Place |-> None] /\ jumps = {} /\ nft = None
      /\ up = FALSE /\ record = {} /\ op = None
      /\ deaths = 0 /\ faults = 0 /\ first = TRUE /\ stale = FALSE /\ dirty = FALSE
  BY DEF Init
<1>2. cfg \in [backend : {"nft", "ipset"}, works : BOOLEAN, hotspot : Iface \cup {None}]
  <2>1. PICK choice \in {"auto", "nft", "ipset"}, nat \in BOOLEAN, h \in Hotspots :
           cfg = [backend |-> Detect(choice, nat), works |-> Detect(choice, nat) = "nft" => nat, hotspot |-> h]
    BY DEF Init
  <2>2. Detect(choice, nat) \in {"nft", "ipset"}
    BY DEF Detect
  <2>3. h \in Iface \cup {None}
    BY FirewallAssumption DEF FirewallAssumption
  <2>4. (Detect(choice, nat) = "nft" => nat) \in BOOLEAN
    OBVIOUS
  <2> HIDE DEF Detect
  <2> QED BY <2>1, <2>2, <2>3, <2>4
<1>3. TypeInv
  BY <1>1, <1>2 DEF TypeInv
<1> QED BY <1>1, <1>3 DEF IInv, OneBackend, Begun, Filling, Filled, JumpsMade, NoOtherJumps, Fresh,
      Ordered, Shaped, NftCovers, NftOnly, Only, InBase, InScope

\* What the type invariant says of an operation, in the form the steps need.
LEMMA ModesAre ==
    ASSUME TypeInv
    PROVE  /\ op = None \/ op \in AnyOp
           /\ op \in AnyOp => /\ op # None /\ (op.kind = "base" \/ op.kind = "scope")
                              /\ op.at \in Nat /\ op.at >= 1 /\ op.want \in SUBSET Iface /\ op.attempt \in {1, 2}
           /\ op # None => op \in AnyOp
           /\ (InBase <=> op # None /\ op.kind = "base") /\ (InScope <=> op # None /\ op.kind = "scope")
           /\ record \in SUBSET Iface /\ Cardinality(record) \in Nat
           /\ cfg.backend = "nft" <=> ~Ipset
<1>1. record \in SUBSET Iface
  BY DEF TypeInv
<1>2. Cardinality(record) \in Nat
  BY <1>1, IfaceSeq
<1> QED BY <1>1, <1>2, NoneAssumption DEF TypeInv, AnyOp, InBase, InScope, Ipset, NoneAssumption

\* A new operation.
LEMMA OperationIs ==
    ASSUME NEW kind \in {"base", "scope"}, NEW want \in SUBSET Iface
    PROVE  LET o == Operation(kind, want)
           IN  /\ o \in AnyOp /\ o # None /\ o.kind = kind /\ o.want = want /\ o.at = 1 /\ o.attempt = 1
<1>1. Operation(kind, want) \in AnyOp
  BY DEF Operation, AnyOp
<1> QED BY <1>1, NoneAssumption DEF NoneAssumption, Operation

\* The daemon starts: nothing is done yet of the base operation.
LEMMA StartKeeps == ASSUME IInv, Start PROVE IInv'
<1>1. /\ ~up /\ up' = TRUE /\ record' = Seed /\ op' = Operation("base", {}) /\ dirty' = FALSE
      /\ cfg' = cfg /\ sets' = sets /\ chains' = chains /\ jumps' = jumps /\ nft' = nft
      /\ faults' = faults /\ first' = first /\ stale' = stale
  BY DEF Start, kernel, bounds
<1>2. /\ TypeInv /\ OneBackend /\ Begun /\ Fresh /\ Shaped
  BY DEF IInv
<1>3. op' \in AnyOp /\ op' # None /\ op'.kind = "base" /\ op'.at = 1
  BY <1>1, OperationIs
<1>4. record' \in SUBSET Iface
  BY <1>1, <1>2 DEF Seed, TypeInv
<1>5. TypeInv'
  BY <1>1, <1>2, <1>3, <1>4 DEF TypeInv
<1>6. OneBackend' /\ Begun' /\ Shaped' /\ Fresh' /\ Filled' /\ ~InScope'
  BY <1>1, <1>2, <1>3 DEF OneBackend, Ipset, Begun, Shaped, Fresh, Filled, InBase, InScope
<1>7. \A t \in Place : Pos(t)' \in Nat /\ Pos(t)' > 4 /\ Size(t) \in Nat
  BY <1>4, IfaceSeq, BasePositions DEF Pos
<1>8. Filling'
  BY <1>3, <1>7 DEF Filling
<1>9. Done("jump")' = {}
  <2>1. (op.at - 1)' = 0
    BY <1>3
  <2> QED BY <2>1, DoneNone DEF Done
<1>10. JumpsMade'
  BY <1>3, <1>6, <1>9 DEF JumpsMade
<1>11. first => jumps = {} /\ nft = None
  BY <1>1, <1>2 DEF Fresh
<1>12. NoOtherJumps' /\ NftOnly' /\ NftCovers'
  BY <1>1, <1>3, <1>6, <1>11 DEF NoOtherJumps, NftOnly, NftCovers, Only, InBase
<1>13. Ordered'
  BY <1>1, <1>3, <1>7, <1>11 DEF Ordered
<1> QED BY <1>5, <1>6, <1>8, <1>10, <1>12, <1>13 DEF IInv

\* A request: nothing is done yet of the change.
LEMMA RequestKeeps == ASSUME IInv, Request PROVE IInv'
<1>1. PICK want \in SUBSET Iface : op' = Operation("scope", want)
  BY DEF Request
<1>2. /\ up /\ up' = up /\ record' = record /\ op = None /\ dirty' = dirty
      /\ cfg' = cfg /\ sets' = sets /\ chains' = chains /\ jumps' = jumps /\ nft' = nft
      /\ faults' = faults /\ first' = first /\ stale' = stale
  BY DEF Request, kernel, bounds, history
<1>3. /\ TypeInv /\ OneBackend /\ Begun /\ Filled /\ JumpsMade /\ NoOtherJumps /\ Fresh /\ Shaped
      /\ NftCovers /\ NftOnly
  BY DEF IInv
<1>4. op' \in AnyOp /\ op' # None /\ op'.kind = "scope" /\ op'.at = 1 /\ op'.want = want
  BY <1>1, OperationIs
<1>5. TypeInv'
  BY <1>2, <1>3, <1>4 DEF TypeInv
<1>6. ~InBase /\ ~InBase' /\ ~InScope /\ InScope' /\ (Ipset' <=> Ipset) /\ InForce = record /\ InForce' = record
  BY <1>2, <1>4 DEF InBase, InScope, Ipset, InForce
<1>7. OneBackend' /\ Begun' /\ Shaped' /\ Fresh' /\ Filled' /\ Filling' /\ Ordered'
  BY <1>2, <1>3, <1>6 DEF OneBackend, Begun, Shaped, Fresh, Filled, Filling, Ordered
<1>9. Done("jump")' = {} /\ Done("unjump")' = {}
  <2>1. (op.at - 1)' = 0
    BY <1>4
  <2> QED BY <2>1, DoneNone DEF Done
<1>10. JumpsMade'
  BY <1>2, <1>3, <1>4, <1>6, <1>9 DEF JumpsMade
<1>11. NoOtherJumps'
  BY <1>2, <1>3, <1>4, <1>6, <1>9 DEF NoOtherJumps
<1>12. NftOnly' /\ NftCovers'
  BY <1>2, <1>3, <1>6 DEF NftOnly, NftCovers, Only, Covers
<1> QED BY <1>5, <1>7, <1>10, <1>11, <1>12 DEF IInv

\* The daemon dies: what it knew is gone, and the kernel stays.
LEMMA DieKeeps == ASSUME IInv, Die PROVE IInv'
<1>2. /\ up' = FALSE /\ record' = {} /\ op' = None /\ dirty' = dirty
      /\ cfg' = cfg /\ sets' = sets /\ chains' = chains /\ jumps' = jumps /\ nft' = nft
      /\ faults' = faults /\ first' = FALSE /\ stale' = stale
  BY DEF Die, kernel
<1>3. /\ TypeInv /\ OneBackend /\ Begun /\ Shaped
  BY DEF IInv
<1>5. TypeInv'
  BY <1>2, <1>3 DEF TypeInv
<1>7. OneBackend' /\ Begun' /\ Shaped'
  BY <1>2, <1>3 DEF OneBackend, Begun, Shaped, Ipset
<1>8. Fresh' /\ Filled' /\ Filling' /\ Ordered' /\ JumpsMade' /\ NoOtherJumps' /\ NftOnly' /\ NftCovers'
  BY <1>2 DEF Fresh, Filled, Filling, Ordered, JumpsMade, NoOtherJumps, NftOnly, NftCovers, InBase, InScope
<1> QED BY <1>5, <1>7, <1>8 DEF IInv

\* The router restarts: the kernel is empty, and the next daemon the first one.
LEMMA RebootKeeps == ASSUME IInv, Reboot PROVE IInv'
<1>1. /\ sets' = {} /\ chains' = [at \in Place |-> None] /\ jumps' = {} /\ nft' = None
      /\ up' = FALSE /\ record' = {} /\ op' = None /\ cfg' = cfg
      /\ faults' = faults /\ first' = TRUE /\ stale' = FALSE /\ dirty' = FALSE
  BY DEF Reboot, NoKernel
<1>2. TypeInv
  BY DEF IInv
<1>3. TypeInv'
  BY <1>1, <1>2 DEF TypeInv
<1>4. OneBackend' /\ Begun' /\ Shaped'
  BY <1>1 DEF OneBackend, Begun, Shaped
<1>8. Fresh' /\ Filled' /\ Filling' /\ Ordered' /\ JumpsMade' /\ NoOtherJumps' /\ NftOnly' /\ NftCovers'
  BY <1>1 DEF Fresh, Filled, Filling, Ordered, JumpsMade, NoOtherJumps, NftOnly, Only, NftCovers, InBase, InScope
<1> QED BY <1>3, <1>4, <1>8 DEF IInv

\* The commands of the operation under way: the base rules.
LEMMA BaseIs ==
    ASSUME TypeInv, Ipset, InBase
    PROVE  Commands = EnsureBase[record] /\ Len(Commands) \in Nat
<1>1. Commands = EnsureBase[record]
  BY ModesAre DEF Commands, Ipset
<1> QED BY <1>1, ModesAre, BaseBlocks

\* A change of the scope.
LEMMA ScopeIs ==
    ASSUME TypeInv, Ipset, InScope
    PROVE  Commands = SetGatedIfaces[<<record, op.want>>] /\ Len(Commands) \in Nat
<1>1. Commands = SetGatedIfaces[<<record, op.want>>]
  BY ModesAre DEF Commands, Ipset
<1>2. record \in SUBSET Iface /\ op.want \in SUBSET Iface
  BY ModesAre
<1>3. Len(SetGatedIfaces[<<record, op.want>>]) \in Nat
  BY <1>2, ScopeCommands
<1> QED BY <1>1, <1>3

\* With nft, either operation.
LEMMA NftIs ==
    ASSUME TypeInv, ~Ipset, op # None
    PROVE  /\ Len(Commands) = 1
           /\ InBase => Commands[1] = Apply(FALSE, record)
           /\ InScope => Commands[1] = Apply(TRUE, op.want)
<1>1. /\ InBase => Commands = <<Apply(FALSE, record)>>
      /\ InScope => Commands = <<Apply(TRUE, op.want)>>
      /\ InBase \/ InScope
  BY ModesAre DEF Commands
<1>2. CASE InBase
  <2>1. Commands = <<Apply(FALSE, record)>>
    BY <1>1, <1>2
  <2>2. ~InScope
    BY <1>2, ModesAre
  <2> QED BY <2>1, <2>2
<1>3. CASE InScope
  <2>1. Commands = <<Apply(TRUE, op.want)>>
    BY <1>1, <1>3
  <2>2. ~InBase
    BY <1>3, ModesAre
  <2> QED BY <2>1, <2>2
<1> QED BY <1>1, <1>2, <1>3

\* Any operation has commands.
LEMMA CommandsAre ==
    ASSUME TypeInv, op # None
    PROVE  Len(Commands) \in Nat /\ op.at \in Nat /\ op.at >= 1 /\ (InBase \/ InScope)
<1>1. InBase \/ InScope
  BY ModesAre
<1> QED BY <1>1, BaseIs, ScopeIs, NftIs, ModesAre

\* No command of the base rules of the first daemon is refused: what it needs is there.
LEMMA NotRefused ==
    ASSUME IInv, Ipset, first, faults = 0, InBase, op.at <= Len(Commands)
    PROVE  ~Refused(Current)
<1>1. TypeInv /\ Ordered
  BY DEF IInv
<1>2. /\ Commands = EnsureBase[record] /\ record \in SUBSET Iface /\ Cardinality(record) \in Nat
      /\ op.at \in 1..Len(EnsureBase[record]) /\ Current = EnsureBase[record][op.at]
  BY <1>1, BaseIs, ModesAre, CommandsAre DEF Current
<1> DEFINE e == EnsureBase[record]
           n == op.at
           at(t) == FlushAt(t, Cardinality(record))
<1>3. \/ n <= 3 /\ e[n] = Create(<<"auth", "g4", "g6">>[n])
      \/ \E t \in Place : n = at(t) - 1 /\ e[n] = NewChain(t)
      \/ \E t \in Place : n = at(t) /\ e[n] = Flush(t)
      \/ \E t \in Place : \E k \in 1..Size(t) : n = at(t) + k /\ e[n] = AddRule(t, ChainRules[t[2]][k])
      \/ \E t \in Place, i \in record :
           n > at(t) + Size(t) /\ n <= at(t) + Size(t) + Cardinality(record) /\ e[n] = Jump(t, i)
  BY <1>2, BaseCommands
<1>4. /\ \A m \in 1..3 : m < n => <<"auth", "g4", "g6">>[m] \in sets
      /\ \A t \in Place : n >= at(t) => chains[t] # None
  BY <1>1 DEF Ordered, Pos
<1>5. \A t \in Place : at(t) \in Nat /\ at(t) > 4 /\ Size(t) \in Nat
  BY <1>2, BasePositions
<1>6. n \in Nat /\ Current = e[n]
  BY <1>2
<1> HIDE DEF e, n, at
<1>7. CASE n <= 3 /\ e[n] = Create(<<"auth", "g4", "g6">>[n])
  BY <1>6, <1>7, Fields DEF Refused
<1>8. CASE \E t \in Place : n = at(t) - 1 /\ e[n] = NewChain(t)
  BY <1>6, <1>8, Fields DEF Refused
<1>9. CASE \E t \in Place : n = at(t) /\ e[n] = Flush(t)
  <2>1. PICK t \in Place : n = at(t) /\ e[n] = Flush(t)
    BY <1>9
  <2>2. chains[t] # None
    BY <2>1, <1>4, <1>5
  <2>3. Current.do = "flush" /\ Current.at = t
    BY <2>1, <1>6, Fields
  <2> QED BY <2>2, <2>3 DEF Refused
<1>10. CASE \E t \in Place : \E k \in 1..Size(t) : n = at(t) + k /\ e[n] = AddRule(t, ChainRules[t[2]][k])
  <2>1. PICK t \in Place : \E k \in 1..Size(t) : n = at(t) + k /\ e[n] = AddRule(t, ChainRules[t[2]][k])
    BY <1>10
  <2>2. n >= at(t) /\ n > 3
    BY <2>1, <1>5
  <2>3. chains[t] # None /\ {"auth", "g4", "g6"} \subseteq sets
    <3>1. /\ 1 \in 1..3 /\ 1 < n /\ <<"auth", "g4", "g6">>[1] = "auth"
          /\ 2 \in 1..3 /\ 2 < n /\ <<"auth", "g4", "g6">>[2] = "g4"
          /\ 3 \in 1..3 /\ 3 < n /\ <<"auth", "g4", "g6">>[3] = "g6"
      BY <2>2, <1>6
    <3> QED BY <2>2, <3>1, <1>4
  <2>4. Current.do = "append" /\ Current.at = t
    BY <2>1, <1>6, Fields
  <2> QED BY <2>3, <2>4 DEF Refused
<1>11. CASE \E t \in Place, i \in record :
           n > at(t) + Size(t) /\ n <= at(t) + Size(t) + Cardinality(record) /\ e[n] = Jump(t, i)
  <2>1. PICK t \in Place, i \in record : n > at(t) + Size(t) /\ e[n] = Jump(t, i)
    BY <1>11
  <2>2. chains[t] # None
    BY <2>1, <1>4, <1>5, <1>6
  <2>3. Current.do = "jump" /\ Current.at = t
    BY <2>1, <1>6, Fields
  <2> QED BY <2>2, <2>3 DEF Refused
<1> QED BY <1>3, <1>7, <1>8, <1>9, <1>10, <1>11

\* An operation from the start again.
LEMMA Restarted ==
    ASSUME NEW o \in AnyOp
    PROVE  LET r == [o EXCEPT !.at = 1, !.attempt = 2]
           IN  r \in AnyOp /\ r.kind = o.kind /\ r.at = 1 /\ r.want = o.want
<1> DEFINE s == [o EXCEPT !.at = 1]
           r == [o EXCEPT !.at = 1, !.attempt = 2]
<1>1. s \in AnyOp /\ s.kind = o.kind /\ s.at = 1 /\ s.want = o.want
  BY DEF AnyOp
<1>2. r = [s EXCEPT !.attempt = 2]
  OBVIOUS
<1> HIDE DEF s, r
<1>3. r \in AnyOp /\ r.kind = s.kind /\ r.at = s.at /\ r.want = s.want
  BY <1>1, <1>2 DEF AnyOp
<1> QED BY <1>1, <1>3 DEF r

\* One command further.
LEMMA Advanced ==
    ASSUME NEW o \in AnyOp
    PROVE  LET r == [o EXCEPT !.at = @ + 1]
           IN  r \in AnyOp /\ r # None /\ r.kind = o.kind /\ r.at = o.at + 1 /\ r.want = o.want
<1> DEFINE r == [o EXCEPT !.at = o.at + 1]
<1>1. r \in AnyOp /\ r.kind = o.kind /\ r.at = o.at + 1 /\ r.want = o.want
  BY DEF AnyOp
<1> QED BY <1>1, NoneAssumption DEF NoneAssumption

\* The second attempt: what the first one did stays, and the operation starts over.
LEMMA RetryKeeps == ASSUME IInv, Retry PROVE IInv'
<1>1. /\ op # None /\ op.at <= Len(Commands) /\ Breaks(Current) /\ Charge(Current)
      /\ op' = [op EXCEPT !.at = 1, !.attempt = 2]
      /\ up' = up /\ record' = record /\ dirty' = dirty
      /\ cfg' = cfg /\ sets' = sets /\ chains' = chains /\ jumps' = jumps /\ nft' = nft
      /\ first' = first /\ stale' = stale
  BY DEF Retry, kernel, history
<1>3. /\ TypeInv /\ OneBackend /\ Begun /\ Filled /\ JumpsMade /\ NoOtherJumps /\ Fresh /\ Shaped
      /\ NftCovers /\ NftOnly
  BY DEF IInv
<1>4. op' \in AnyOp /\ op' # None /\ op'.kind = op.kind /\ op'.at = 1 /\ op'.want = op.want /\ op \in AnyOp
  <2>1. op \in AnyOp
    BY <1>1, <1>3, ModesAre
  <2>2. op' \in AnyOp /\ op'.kind = op.kind /\ op'.at = 1 /\ op'.want = op.want
    BY <2>1, <1>1, Restarted
  <2> QED BY <2>1, <2>2, NoneAssumption DEF NoneAssumption
<1>5. TypeInv'
  <2>1. up
    BY <1>1, <1>3 DEF TypeInv
  <2>2. faults' \in Nat
    BY <1>1, <1>3 DEF TypeInv, Charge
  <2> QED BY <1>1, <1>3, <1>4, <2>1, <2>2 DEF TypeInv
<1>6. (InBase' <=> InBase) /\ (InScope' <=> InScope) /\ (Ipset' <=> Ipset) /\ InForce' = record
  BY <1>1, <1>4 DEF InBase, InScope, Ipset, InForce
<1>7. OneBackend' /\ Begun' /\ Shaped' /\ Fresh' /\ Filled'
  BY <1>1, <1>3, <1>6 DEF OneBackend, Begun, Shaped, Fresh, Filled
<1>8. Filling'
  <2>1. \A t \in Place : Pos(t)' = Pos(t) /\ Pos(t) \in Nat /\ Pos(t) > 4
    BY <1>1, <1>3, ModesAre, BasePositions DEF Pos
  <2> QED BY <2>1, <1>4 DEF Filling
<1>9. Done("jump")' = {} /\ Done("unjump")' = {}
  <2>1. (op.at - 1)' = 0
    BY <1>4
  <2> QED BY <2>1, DoneNone DEF Done
<1>10. JumpsMade'
  BY <1>1, <1>3, <1>4, <1>6, <1>9 DEF JumpsMade
<1>11. NoOtherJumps'
  BY <1>1, <1>3, <1>4, <1>6, <1>9 DEF NoOtherJumps
<1>12. NftOnly' /\ NftCovers'
  <2>1. ~Ipset => InForce = record
    <3>1. ASSUME ~Ipset PROVE op.at = 1
      <4>1. Len(Commands) = 1
        BY <3>1, <1>1, <1>3, NftIs
      <4>2. op.at \in Nat /\ op.at >= 1
        BY <1>1, <1>3, CommandsAre
      <4>3. op.at <= Len(Commands)
        BY <1>1
      <4> QED BY <4>1, <4>2, <4>3
    <3> QED BY <3>1 DEF InForce
  <2>2. ~Ipset => (InBase' => ~(op'.at > 1))
    BY <1>4
  <2>3. NftCovers'
    <3> SUFFICES ASSUME ~Ipset, up, ~InBase PROVE Covers(record)'
      BY <1>1, <1>6, <2>2 DEF NftCovers
    <3>1. Covers(record)
      BY <1>3, <2>1 DEF NftCovers
    <3> QED BY <3>1, <1>1 DEF Covers
  <2>4. NftOnly'
    BY <1>1, <1>3, <1>6, <2>1 DEF NftOnly, Only
  <2> QED BY <2>3, <2>4
<1>13. Ordered'
  <2> SUFFICES ASSUME Ipset, first, faults' = 0, InBase PROVE FALSE
    BY <1>1, <1>6 DEF Ordered
  <2>1. Refused(Current) /\ faults = 0
    BY <1>1, <1>3 DEF Charge, TypeInv
  <2> QED BY <2>1, <1>1, NotRefused
<1> QED BY <1>5, <1>7, <1>8, <1>10, <1>11, <1>12, <1>13 DEF IInv

\* The second attempt failed: the daemon exits, or the change is reported as failed.
LEMMA GiveUpKeeps == ASSUME IInv, GiveUp PROVE IInv'
<1>1. /\ op # None /\ op.at <= Len(Commands) /\ Charge(Current) /\ op' = None
      /\ cfg' = cfg /\ sets' = sets /\ chains' = chains /\ jumps' = jumps /\ nft' = nft
      /\ stale' = stale
      /\ \/ /\ op.kind = "base" /\ up' = FALSE /\ record' = {} /\ first' = FALSE /\ dirty' = dirty
         \/ /\ op.kind = "scope" /\ up' = up /\ record' = record /\ first' = first /\ dirty' = TRUE
  <2>1. op # None /\ TypeInv
    BY DEF GiveUp, IInv
  <2>2. op.kind = "base" \/ op.kind = "scope"
    BY <2>1, ModesAre
  <2> QED BY <2>1, <2>2 DEF GiveUp, kernel, IInv, TypeInv
<1>3. /\ TypeInv /\ OneBackend /\ Begun /\ Filled /\ JumpsMade /\ NoOtherJumps /\ Fresh /\ Shaped
      /\ NftCovers /\ NftOnly
  BY DEF IInv
<1>4. TypeInv'
  <2>2. faults' \in Nat
    BY <1>1, <1>3 DEF TypeInv, Charge
  <2> QED BY <1>1, <1>3, <2>2 DEF TypeInv
<1>5. OneBackend' /\ Begun' /\ Shaped' /\ (Ipset' <=> Ipset) /\ ~InBase' /\ ~InScope' /\ InForce' = record'
  BY <1>1, <1>3 DEF OneBackend, Begun, Shaped, Ipset, InBase, InScope, InForce
<1>6. Filling' /\ Ordered'
  BY <1>5 DEF Filling, Ordered
<1>7. CASE op.kind = "base"
  BY <1>1, <1>4, <1>5, <1>6, <1>7 DEF IInv, Fresh, Filled, JumpsMade, NoOtherJumps, NftCovers, NftOnly
<1>8. CASE op.kind = "scope"
  <2>1. up' = up /\ record' = record /\ first' = first /\ dirty' = TRUE /\ InScope /\ ~InBase
    BY <1>1, <1>8 DEF InScope, InBase
  <2>2. Filled' /\ Fresh' /\ JumpsMade' /\ NoOtherJumps'
    BY <1>1, <1>3, <1>5, <2>1 DEF Filled, Fresh, JumpsMade, NoOtherJumps
  <2>3. ~Ipset => InForce = record
    <3>1. ASSUME ~Ipset PROVE op.at = 1
      <4>1. Len(Commands) = 1
        BY <3>1, <1>1, <1>3, NftIs
      <4>2. op.at \in Nat /\ op.at >= 1
        BY <1>1, <1>3, CommandsAre
      <4>3. op.at <= Len(Commands)
        BY <1>1
      <4> QED BY <4>1, <4>2, <4>3
    <3> QED BY <3>1 DEF InForce
  <2>4. NftCovers' /\ NftOnly'
    BY <1>1, <1>3, <1>5, <2>1, <2>3 DEF NftCovers, NftOnly, Covers, Only
  <2> QED BY <1>4, <1>5, <1>6, <2>2, <2>4 DEF IInv
<1> QED BY <1>1, <1>7, <1>8

\* After command n of the base rules has been done or skipped, the places that are not
\* concerned are as far as they were.
LEMMA OthersStay ==
    ASSUME NEW c \in Nat, NEW t \in Place, NEW u \in Place, NEW n \in Nat, t # u,
           n >= FlushAt(t, c) - 1, n <= FlushAt(t, c) + Size(t) + c, n + 1 > FlushAt(u, c)
    PROVE  /\ n > FlushAt(u, c) + Size(u) /\ n > FlushAt(u, c)
           /\ Least2(n - FlushAt(u, c), Size(u)) = Least2(n - 1 - FlushAt(u, c), Size(u))
<1>1. /\ FlushAt(t, c) \in Nat /\ Size(t) \in Nat /\ FlushAt(u, c) \in Nat /\ Size(u) \in Nat
      /\ \/ FlushAt(t, c) + Size(t) + c < FlushAt(u, c) - 1
         \/ FlushAt(u, c) + Size(u) + c < FlushAt(t, c) - 1
  BY BasePositions
<1> QED BY <1>1 DEF Least2

\* A command whose failure nobody minds: a chain that is there already, or a jump that
\* stays, and with it a removal that is remembered.
LEMMA ShrugKeeps == ASSUME IInv, Shrug PROVE IInv'
<1>1. /\ op # None /\ op.at <= Len(Commands) /\ BestEffort(Current) /\ Charge(Current)
      /\ Breaks(Current) /\ op' = [op EXCEPT !.at = @ + 1]
      /\ stale' = (stale \/ Current.do = "unjump")
      /\ up' = up /\ record' = record /\ dirty' = dirty
      /\ cfg' = cfg /\ sets' = sets /\ chains' = chains /\ jumps' = jumps /\ nft' = nft
      /\ first' = first
  BY DEF Shrug, kernel
<1>3. /\ TypeInv /\ OneBackend /\ Begun /\ Filled /\ Filling /\ JumpsMade /\ NoOtherJumps /\ Fresh /\ Shaped
  BY DEF IInv
<1>4. /\ op \in AnyOp /\ op' \in AnyOp /\ op' # None
      /\ op'.kind = op.kind /\ op'.at = op.at + 1 /\ op'.want = op.want
  BY <1>1, <1>3, ModesAre, Advanced
<1>5. TypeInv'
  <2>1. up
    BY <1>1, <1>3 DEF TypeInv
  <2>2. faults' \in Nat
    BY <1>1, <1>3 DEF TypeInv, Charge
  <2>3. stale' \in BOOLEAN
    BY <1>1, <1>3 DEF TypeInv
  <2> QED BY <1>1, <1>3, <1>4, <2>1, <2>2, <2>3 DEF TypeInv
<1>6. (InBase' <=> InBase) /\ (InScope' <=> InScope) /\ (Ipset' <=> Ipset)
  BY <1>1, <1>4 DEF InBase, InScope, Ipset
<1>7. OneBackend' /\ Begun' /\ Shaped' /\ Fresh' /\ Filled'
  BY <1>1, <1>3, <1>6 DEF OneBackend, Begun, Shaped, Fresh, Filled
<1> DEFINE n == op.at
<1>8. Len(Commands) \in Nat /\ n \in 1..Len(Commands) /\ Current = Commands[n] /\ (InBase \/ InScope)
  BY <1>1, <1>3, CommandsAre DEF Current
<1>9. Ipset
  <2> SUFFICES ASSUME ~Ipset PROVE FALSE
    OBVIOUS
  <2>1. Len(Commands) = 1 /\ (Current = Apply(FALSE, record) \/ Current = Apply(TRUE, op.want))
    <3>1. Len(Commands) = 1
      BY <1>1, <1>3, NftIs
    <3>2. n = 1
      BY <3>1, <1>8
    <3> QED BY <3>1, <3>2, <1>1, <1>3, <1>8, NftIs
  <2>2. Current.do = "nft"
    BY <2>1 DEF Apply
  <2> QED BY <2>2, <1>1 DEF BestEffort
<1>10. NftOnly' /\ NftCovers'
  BY <1>6, <1>9 DEF NftOnly, NftCovers
<1>11. Commands' = Commands
  BY <1>1, <1>4 DEF Commands
<1>12. \A verb : Current.do # verb => Done(verb)' = Done(verb)
  <2> SUFFICES ASSUME NEW verb, Current.do # verb PROVE Done(verb)' = Done(verb)
    OBVIOUS
  <2>1. DoneOf(Commands, n, verb) = DoneOf(Commands, n - 1, verb)
    BY <1>8, DoneNext
  <2>2. (op.at - 1)' = n
    BY <1>4, <1>8
  <2> QED BY <2>1, <2>2, <1>11 DEF Done
<1>13. Done("jump")' = Done("jump")
  BY <1>1, <1>12 DEF BestEffort
<1>14. JumpsMade'
  BY <1>1, <1>3, <1>4, <1>6, <1>13 DEF JumpsMade
<1>15. CASE InBase
  <2>1. /\ Commands = EnsureBase[record] /\ record \in SUBSET Iface /\ Cardinality(record) \in Nat
        /\ ~InScope
    BY <1>3, <1>9, <1>15, BaseIs, ModesAre
  <2>2. PICK t \in Place : n = FlushAt(t, Cardinality(record)) - 1 /\ Current = NewChain(t)
    <3>1. Current.do = "chain" \/ Current.do = "unjump"
      BY <1>1 DEF BestEffort
    <3>2. \/ Current = Create(<<"auth", "g4", "g6">>[n])
          \/ \E t \in Place : n = FlushAt(t, Cardinality(record)) - 1 /\ Current = NewChain(t)
          \/ \E t \in Place : Current = Flush(t)
          \/ \E t \in Place : \E k \in 1..Size(t) : Current = AddRule(t, ChainRules[t[2]][k])
          \/ \E t \in Place, i \in record : Current = Jump(t, i)
      <4>1. n \in 1..Len(EnsureBase[record]) /\ Current = EnsureBase[record][n]
        BY <2>1, <1>8
      <4> QED BY <2>1, <4>1, BaseCommands
    <3> QED BY <3>1, <3>2, Fields
  <2>3. Current.do = "chain"
    BY <2>2, Fields
  <2>4. NoOtherJumps'
    BY <1>1, <1>3, <1>6, <2>1, <2>3 DEF NoOtherJumps
  <2>5. Filling'
    <3> DEFINE c == Cardinality(record)
    <3> SUFFICES ASSUME NEW u \in Place, n + 1 > FlushAt(u, c)
                 PROVE  chains[u] = Taken(u, Least2(n - FlushAt(u, c), Size(u)))
      <4>1. op'.at = n + 1 /\ op'.at - 1 = n /\ \A u \in Place : Pos(u)' = FlushAt(u, c)
        BY <1>1, <1>4, <1>8 DEF Pos
      <4>2. chains' = chains
        BY <1>1
      <4> HIDE DEF n, c
      <4>3. ASSUME NEW u \in Place, op'.at > Pos(u)'
            PROVE  chains'[u] = Taken(u, Least2(op'.at - 1 - Pos(u)', Size(u)))
        BY <4>1, <4>2, <4>3
      <4> QED BY <4>3 DEF Filling
    <3>1. t # u
      <4> SUFFICES ASSUME t = u PROVE FALSE
        OBVIOUS
      <4>1. FlushAt(u, c) \in Nat
        BY <2>1, BasePositions
      <4> QED BY <4>1, <2>2
    <3>2. /\ n \in Nat /\ n >= FlushAt(t, c) - 1 /\ n <= FlushAt(t, c) + Size(t) + c
      <4>1. FlushAt(t, c) \in Nat /\ Size(t) \in Nat /\ c \in Nat
        BY <2>1, BasePositions
      <4>2. n = FlushAt(t, c) - 1 /\ n \in Nat
        BY <2>2, <1>8
      <4> HIDE DEF n, c
      <4> QED BY <4>1, <4>2
    <3>3. /\ n > FlushAt(u, c)
          /\ Least2(n - FlushAt(u, c), Size(u)) = Least2(n - 1 - FlushAt(u, c), Size(u))
      BY <3>1, <3>2, <2>1, OthersStay
    <3> QED BY <3>3, <1>3, <1>9, <1>15 DEF Filling, Pos
  <2>6. Ordered'
    <3> SUFFICES ASSUME first, faults' = 0 PROVE FALSE
      BY <1>1 DEF Ordered
    <3>1. Refused(Current)
      BY <1>1, <1>3 DEF Charge, TypeInv
    <3> QED BY <3>1, <2>3 DEF Refused
  <2> QED BY <1>5, <1>7, <1>10, <1>14, <2>4, <2>5, <2>6 DEF IInv
<1>16. CASE InScope
  <2>1. ~InBase /\ Commands = SetGatedIfaces[<<record, op.want>>] /\ record \in SUBSET Iface /\ op.want \in SUBSET Iface
    BY <1>3, <1>9, <1>16, ScopeIs, ModesAre
  <2>2. Filling' /\ Ordered'
    BY <2>1, <1>6 DEF Filling, Ordered
  <2>3. Current.do = "unjump"
    <3>1. \/ \E t \in Place, i \in record \ op.want : Current = Change("unjump", t, i)
          \/ \E t \in Place, i \in op.want \ record : Current = Change("jump", t, i)
      <4> DEFINE d == Commands
      <4>1. d = SetGatedIfaces[<<record, op.want>>] /\ n \in 1..Len(d) /\ Current = d[n]
        BY <2>1, <1>8
      <4>2. record \in SUBSET Iface /\ op.want \in SUBSET Iface
        BY <2>1
      <4> HIDE DEF d
      <4>3. \/ \E t \in Place, i \in record \ op.want : d[n] = Change("unjump", t, i)
            \/ \E t \in Place, i \in op.want \ record : d[n] = Change("jump", t, i)
        BY <4>1, <4>2, ScopeStep
      <4> QED BY <4>1, <4>3
    <3>2. Current.do = "unjump" \/ Current.do = "jump"
      BY <3>1 DEF Change
    <3> QED BY <3>2, <1>1 DEF BestEffort
  <2>4. NoOtherJumps'
    BY <1>1, <2>3 DEF NoOtherJumps
  <2> QED BY <1>5, <1>7, <1>10, <1>14, <2>2, <2>4 DEF IInv
<1> QED BY <1>8, <1>15, <1>16

\* Past the last command, everything has been done.
LEMMA DoneAll ==
    ASSUME NEW cs, Len(cs) \in Nat, NEW m \in Nat, m >= Len(cs), NEW verb
    PROVE  DoneOf(cs, m, verb) = DoneOf(cs, Len(cs), verb)
<1>1. {k \in 1..m : k <= Len(cs) /\ cs[k].do = verb} = {k \in 1..Len(cs) : k <= Len(cs) /\ cs[k].do = verb}
  OBVIOUS
<1> QED BY <1>1 DEF DoneOf

\* All rules taken are the chain.
LEMMA TakenAll == ASSUME NEW t \in Place PROVE Taken(t, Size(t)) = ChainRules[t[2]]
<1>1. ChainRules[t[2]] \in Seq(AnyRule) /\ Len(ChainRules[t[2]]) = Size(t)
  BY RulesAre
<1> QED BY <1>1 DEF Taken

\* The operation is finished: the record says what the kernel has.
LEMMA FinishKeeps == ASSUME IInv, Finish PROVE IInv'
<1>1. /\ op # None /\ op.at > Len(Commands)
      /\ up' = up /\ dirty' = dirty /\ stale' = stale /\ first' = first /\ faults' = faults
      /\ cfg' = cfg /\ sets' = sets /\ chains' = chains /\ jumps' = jumps /\ nft' = nft
      /\ \/ op.kind = "scope" /\ record' = op.want /\ op' = None
         \/ /\ op.kind = "base" /\ record' = record
            /\ \E want \in SUBSET Iface : op' = IF want = {} THEN None ELSE Operation("scope", want)
  BY DEF Finish, kernel, bounds, history
<1>3. /\ TypeInv /\ OneBackend /\ Begun /\ Filled /\ Filling /\ JumpsMade /\ NoOtherJumps /\ Fresh /\ Shaped
      /\ NftCovers /\ NftOnly
  BY DEF IInv
<1>4. op \in AnyOp /\ up /\ record \in SUBSET Iface /\ op.want \in SUBSET Iface
  BY <1>1, <1>3, ModesAre DEF TypeInv
<1>5. Len(Commands) \in Nat /\ op.at \in Nat
  BY <1>1, <1>3, CommandsAre
<1>6. \A verb : Done(verb) = DoneOf(Commands, Len(Commands), verb)
  <2>1. op.at - 1 \in Nat /\ op.at - 1 >= Len(Commands)
    BY <1>1, <1>5
  <2> QED BY <2>1, <1>5, DoneAll DEF Done
<1>7. ASSUME ~Ipset PROVE op.at > 1
  <2>1. Len(Commands) = 1
    BY <1>1, <1>3, <1>7, NftIs
  <2>2. op.at > Len(Commands)
    BY <1>1
  <2> QED BY <2>1, <2>2, <1>5
<1>8. OneBackend' /\ Begun' /\ Shaped' /\ Fresh' /\ (Ipset' <=> Ipset)
  BY <1>1, <1>3 DEF OneBackend, Begun, Shaped, Fresh, Ipset
<1>9. CASE InScope
  <2>1. op.kind = "scope" /\ record' = op.want /\ op' = None /\ ~InBase
    BY <1>1, <1>9 DEF InScope, InBase
  <2>2. TypeInv'
    BY <1>1, <1>3, <1>4, <2>1 DEF TypeInv
  <2>3. ~InBase' /\ ~InScope' /\ InForce' = op.want
    BY <2>1 DEF InBase, InScope, InForce
  <2>4. Filled' /\ Filling' /\ Ordered'
    BY <1>1, <1>3, <1>8, <2>1, <2>3 DEF Filled, Filling, Ordered
  <2>5. Ipset => /\ Place \X (record \ op.want) \subseteq Done("unjump")
                 /\ Place \X (op.want \ record) \subseteq Done("jump")
    <3> SUFFICES ASSUME Ipset
                 PROVE  /\ Place \X (record \ op.want) \subseteq Done("unjump")
                        /\ Place \X (op.want \ record) \subseteq Done("jump")
      OBVIOUS
    <3>1. Commands = SetGatedIfaces[<<record, op.want>>]
      BY <1>3, <1>9, ScopeIs
    <3>2. /\ Place \X (record \ op.want) \subseteq DoneOf(Commands, Len(Commands), "unjump")
          /\ Place \X (op.want \ record) \subseteq DoneOf(Commands, Len(Commands), "jump")
      BY <3>1, <1>4, ScopeCommands
    <3> QED BY <3>2, <1>6
  <2>6. JumpsMade'
    <3> SUFFICES ASSUME Ipset, ~dirty PROVE Place \X op.want \subseteq jumps
      BY <1>1, <1>8, <2>1, <2>3 DEF JumpsMade
    <3>1. Done("jump") \subseteq jumps /\ Place \X (record \cap op.want) \subseteq jumps
      BY <1>1, <1>3, <1>4, <1>9 DEF JumpsMade
    <3> QED BY <3>1, <2>5
  <2>7. NoOtherJumps'
    <3> SUFFICES ASSUME Ipset, first, ~stale, ~dirty PROVE jumps \subseteq Place \X op.want
      BY <1>1, <1>8, <2>1, <2>3 DEF NoOtherJumps
    <3>1. jumps \subseteq Place \X (record \cup op.want) /\ jumps \cap Done("unjump") = {}
      BY <1>3, <1>9 DEF NoOtherJumps
    <3> QED BY <3>1, <2>5
  <2>8. ~Ipset => InForce = op.want
    BY <1>7, <1>9 DEF InForce, InScope
  <2>9. NftCovers' /\ NftOnly'
    BY <1>1, <1>3, <1>8, <2>1, <2>3, <2>8 DEF NftCovers, NftOnly, Covers, Only
  <2> QED BY <1>8, <2>2, <2>4, <2>6, <2>7, <2>9 DEF IInv
<1>10. CASE InBase
  <2>0. op.kind = "base" /\ ~InScope
    BY <1>10 DEF InScope, InBase
  <2>1. PICK want \in SUBSET Iface : op' = IF want = {} THEN None ELSE Operation("scope", want)
    BY <1>1, <2>0
  <2>2. record' = record
    BY <1>1, <2>0
  <2>3. op' = None \/ (op' # None /\ op' \in AnyOp /\ op'.kind = "scope" /\ op'.at = 1)
    BY <2>1, OperationIs
  <2>4. TypeInv'
    BY <1>1, <1>3, <1>4, <2>2, <2>3 DEF TypeInv
  <2>5. ~InBase' /\ InForce' = record
    BY <2>2, <2>3 DEF InBase, InForce
  <2>6. Filling' /\ Ordered'
    BY <2>5 DEF Filling, Ordered
  <2>7. Filled'
    <3> SUFFICES ASSUME Ipset, NEW t \in Place PROVE chains[t] = ChainRules[t[2]]
      BY <1>1, <1>8 DEF Filled
    <3>1. Commands = EnsureBase[record] /\ Cardinality(record) \in Nat
      BY <1>3, <1>10, BaseIs, ModesAre
    <3> DEFINE p == FlushAt(t, Cardinality(record))
    <3>2. p \in Nat /\ p + Size(t) + Cardinality(record) <= Len(Commands) /\ Size(t) \in Nat
      BY <3>1, <1>4, BasePart
    <3>3. op.at > Len(Commands)
      BY <1>1
    <3>4. Pos(t) = p
      BY DEF Pos
    <3> HIDE DEF p
    <3>5. op.at > p /\ Least2(op.at - 1 - p, Size(t)) = Size(t)
      BY <3>1, <3>2, <3>3, <1>5 DEF Least2
    <3>6. chains[t] = Taken(t, Size(t))
      BY <3>4, <3>5, <1>3, <1>10 DEF Filling
    <3> QED BY <3>6, TakenAll
  <2>8. InScope' => Done("jump")' = {} /\ Done("unjump")' = {}
    <3> SUFFICES ASSUME InScope' PROVE Done("jump")' = {} /\ Done("unjump")' = {}
      OBVIOUS
    <3>1. (op.at - 1)' = 0
      BY <2>3 DEF InScope
    <3> QED BY <3>1, DoneNone DEF Done
  <2>9. (InScope' <=> op' # None)
    BY <2>3 DEF InScope
  <2>10. JumpsMade'
    <3> SUFFICES ASSUME Ipset, ~dirty PROVE Place \X record \subseteq jumps
      <4>1. ASSUME Ipset', dirty' = FALSE, Place \X record \subseteq jumps
            PROVE  /\ op' = None => Place \X record' \subseteq jumps'
                   /\ op' # None => Done("jump")' \subseteq jumps'
                   /\ InScope' => Place \X (record' \cap op'.want) \subseteq jumps'
        BY <1>1, <2>2, <2>8, <2>9, <4>1
      <4> QED BY <1>1, <1>3, <1>8, <4>1 DEF JumpsMade, TypeInv
    <3>1. Done("jump") \subseteq jumps
      BY <1>1, <1>3, <1>4 DEF JumpsMade
    <3>2. Commands = EnsureBase[record]
      BY <1>3, <1>10, BaseIs
    <3>3. Place \X record \subseteq DoneOf(Commands, Len(Commands), "jump")
      BY <3>2, <1>4, BaseDone
    <3> QED BY <3>1, <3>3, <1>6
  <2>11. NoOtherJumps'
    <3> SUFFICES ASSUME Ipset, first, ~stale, ~dirty, jumps \subseteq Place \X record
                 PROVE  /\ ~InScope' => jumps \subseteq Place \X record'
                        /\ InScope' => jumps \subseteq Place \X (record' \cup op'.want) /\ jumps \cap Done("unjump")' = {}
      BY <1>1, <1>3, <1>8, <2>0 DEF NoOtherJumps
    <3> QED BY <2>2, <2>8
  <2>12. ~Ipset => InForce = record
    BY <2>0 DEF InForce
  <2>13. NftCovers' /\ NftOnly'
    <3>1. ~Ipset => Covers(record)
      BY <1>3, <1>4, <1>7, <2>12 DEF NftCovers
    <3> QED BY <3>1, <1>1, <1>3, <1>8, <2>5, <2>12 DEF NftCovers, NftOnly, Covers, Only
  <2> QED BY <1>8, <2>4, <2>6, <2>7, <2>10, <2>11, <2>13 DEF IInv
<1> QED BY <1>1, <1>3, <1>9, <1>10, CommandsAre

-----------------------------------------------------------------------------
(* The nft document                                                        *)

\* The gates an nft document has in a table.
GatesOf(ifaces, table) ==
    IF table = "nat" THEN RuleFor(ifaces, {<<"kind", "web">>}, "redirect") ELSE RuleFor(ifaces, {}, "drop")

\* They are one for each interface.
LEMMA GatesAre ==
    ASSUME NEW ifaces \in SUBSET Iface, NEW table \in Table
    PROVE  LET g == GatesOf(ifaces, table)
           IN  /\ g \in Seq(AnyRule)
               /\ \A n \in 1..Len(g) : \E i \in ifaces : g[n] = GateRule(table, i)
               /\ \A i \in ifaces : \E n \in 1..Len(g) : g[n] = GateRule(table, i)
<1> DEFINE g == GatesOf(ifaces, table)
           s == SetToSeq(ifaces)
           c == Cardinality(ifaces)
<1>1. c \in Nat /\ s \in [1..c -> ifaces] /\ \A i \in ifaces : \E n \in 1..c : s[n] = i
  BY IfaceSeq
<1>2. g = [n \in 1..c |-> GateRule(table, s[n])]
  <2>1. CASE table = "nat"
    <3>1. \A x : {<<"kind", "web">>} \cup {<<"iface", x>>} = {<<"kind", "web">>, <<"iface", x>>}
      OBVIOUS
    <3> QED BY <2>1, <3>1 DEF GatesOf, RuleFor, GateRule
  <2>2. CASE table = "filter"
    <3>1. \A x : {} \cup {<<"iface", x>>} = {<<"iface", x>>}
      OBVIOUS
    <3> QED BY <2>2, <3>1 DEF GatesOf, RuleFor, GateRule
  <2> QED BY <2>1, <2>2 DEF Table
<1> HIDE DEF g, s, c
<1>3. \A i \in ifaces : GateRule(table, i) \in AnyRule
  <2> SUFFICES ASSUME NEW i \in ifaces PROVE GateRule(table, i) \in AnyRule
    OBVIOUS
  <2>1. i \in Iface
    OBVIOUS
  <2>2. /\ Rule({<<"kind", "web">>, <<"iface", i>>}, "redirect") \in AnyRule
        /\ Rule({<<"iface", i>>}, "drop") \in AnyRule
    BY <2>1, Zenon DEF AnyRule
  <2> QED BY <2>2 DEF GateRule
<1>4. Len(g) = c /\ g \in Seq(AnyRule) /\ \A n \in 1..c : g[n] = GateRule(table, s[n])
  BY <1>1, <1>2, <1>3
<1>5. /\ \A n \in 1..Len(g) : \E i \in ifaces : g[n] = GateRule(table, i)
      /\ \A i \in ifaces : \E n \in 1..Len(g) : g[n] = GateRule(table, i)
  <2>1. \A n \in 1..c : s[n] \in ifaces
    BY <1>1
  <2>2. Len(g) = c /\ \A n \in 1..c : g[n] = GateRule(table, s[n])
    BY <1>4, Zenon
  <2>3. \A i \in ifaces : \E n \in 1..c : s[n] = i
    BY <1>1, Zenon
  <2> HIDE DEF GateRule
  <2> QED BY <2>1, <2>2, <2>3, ZenonT(60)
<1> QED BY <1>4, <1>5 DEF g

\* The first rules of an nft chain gate nothing.
LEMMA OpeningIs ==
    ASSUME NEW table \in Table
    PROVE  /\ Opening[table] \in Seq(AnyRule)
           /\ \A m \in 1..Len(Opening[table]) : \A i : Opening[table][m] # GateRule(table, i)
<1>1. {Authed, Established, ToGardenOf("v4"), ToGardenOf("v6")} \subseteq AnyRule
  BY Zenon DEF AnyRule
<1>2. Opening[table] \in Seq({Authed, Established, ToGardenOf("v4"), ToGardenOf("v6")})
  <2>1. CASE table = "nat"
    BY <2>1 DEF Opening
  <2>2. CASE table = "filter"
    BY <2>2 DEF Opening
  <2> QED BY <2>1, <2>2 DEF Table
<1>3. \A rule \in {Authed, Established, ToGardenOf("v4"), ToGardenOf("v6")} : rule.do = "pass"
  BY DEF Authed, Established, ToGardenOf, Rule
<1>4. \A i : GateRule(table, i).do # "pass"
  BY DEF GateRule, Rule
<1>5. \A m \in 1..Len(Opening[table]) : Opening[table][m] \in {Authed, Established, ToGardenOf("v4"), ToGardenOf("v6")}
  BY <1>2
<1>6. Opening[table] \in Seq(AnyRule)
  BY <1>1, <1>2
<1> QED BY <1>3, <1>4, <1>5, <1>6

\* What two lists of rules gate together.
LEMMA Joined ==
    ASSUME NEW table \in Table, NEW s \in Seq(AnyRule), NEW r \in Seq(AnyRule), Shape(s, table),
           \A n \in 1..Len(r) : (\E m \in 1..Len(Opening[table]) : r[n] = Opening[table][m])
                                \/ \E i \in Iface : r[n] = GateRule(table, i)
    PROVE  /\ s \o r \in Seq(AnyRule) /\ Shape(s \o r, table)
           /\ Gates(s \o r, table) = Gates(s, table) \cup Gates(r, table)
<1> DEFINE q == s \o r
           o == Opening[table]
           gate(i) == GateRule(table, i)
<1>1. /\ q \in Seq(AnyRule) /\ Len(q) = Len(s) + Len(r)
      /\ \A n \in 1..Len(s) : q[n] = s[n]
      /\ \A n \in 1..Len(r) : q[Len(s) + n] = r[n]
  BY Concat
<1>2. Len(s) \in Nat /\ Len(r) \in Nat /\ Len(o) \in Nat
  BY OpeningIs
<1>3. /\ Len(s) >= Len(o)
      /\ \A n \in 1..Len(o) : s[n] = o[n]
      /\ \A n \in 1..Len(s) :
           (\E m \in 1..Len(o) : s[n] = o[m]) \/ \E j \in Iface : s[n] = gate(j)
  BY Zenon DEF Shape, o, gate
<1>4. \A n \in 1..Len(r) : (\E m \in 1..Len(o) : r[n] = o[m]) \/ \E j \in Iface : r[n] = gate(j)
  OBVIOUS
<1> HIDE DEF q, o, gate
<1>5. ASSUME NEW n \in 1..Len(q)
      PROVE  \/ n \in 1..Len(s) /\ q[n] = s[n]
             \/ \E m \in 1..Len(r) : q[n] = r[m]
  <2>0. Len(q) = Len(s) + Len(r)
    BY <1>1, Zenon
  <2>1. CASE n \in 1..Len(s)
    BY <2>1, <1>1, Zenon
  <2>2. CASE ~(n \in 1..Len(s))
    <3>1. n - Len(s) \in 1..Len(r) /\ n = Len(s) + (n - Len(s))
      BY <2>0, <2>2, <1>2
    <3> QED BY <3>1, <1>1, Zenon
  <2> QED BY <2>1, <2>2
<1>6. /\ \A n \in 1..Len(s) : n \in 1..Len(q)
      /\ \A n \in 1..Len(r) : Len(s) + n \in 1..Len(q)
      /\ Len(q) >= Len(o) /\ \A n \in 1..Len(o) : n \in 1..Len(s)
  <2>0. Len(q) = Len(s) + Len(r) /\ Len(s) >= Len(o)
    BY <1>1, <1>3, Zenon
  <2> QED BY <2>0, <1>2
<1>7. Shape(q, table)
  <2>1. \A n \in 1..Len(o) : q[n] = o[n]
    BY <1>1, <1>3, <1>6, Zenon
  <2>2. \A n \in 1..Len(q) : (\E m \in 1..Len(o) : q[n] = o[m]) \/ \E j \in Iface : q[n] = gate(j)
    BY <1>3, <1>4, <1>5, ZenonT(60)
  <2> QED BY <2>1, <2>2, <1>6 DEF Shape, o, gate
<1>8. Gates(q, table) = Gates(s, table) \cup Gates(r, table)
  <2>1. ASSUME NEW i \in Iface
        PROVE  (\E n \in 1..Len(q) : q[n] = gate(i))
                 <=> (\E n \in 1..Len(s) : s[n] = gate(i)) \/ (\E n \in 1..Len(r) : r[n] = gate(i))
    BY <1>1, <1>5, <1>6, Zenon
  <2> QED BY <2>1, Zenon DEF Gates, gate
<1> QED BY <1>1, <1>7, <1>8 DEF q

\* The first rules of the filter chain.
LEMMA OneAndThree ==
    ASSUME NEW a, NEW b, NEW c, NEW d PROVE <<a>> \o <<b, c, d>> = <<a, b, c, d>>
<1> DEFINE S == {a, b, c, d}
 s == <<a>>
 t == <<b, c, d>>
 q == <<a, b, c, d>>
 st == s \o t
<1>1. s \in Seq(S) /\ t \in Seq(S) /\ q \in Seq(S) /\ Len(s) = 1 /\ Len(t) = 3 /\ Len(q) = 4
  OBVIOUS
<1>2. s[1] = a /\ t[1] = b /\ t[2] = c /\ t[3] = d /\ q[1] = a /\ q[2] = b /\ q[3] = c /\ q[4] = d
  OBVIOUS
<1> HIDE DEF S, s, t, q
<1>3. st \in Seq(S) /\ Len(st) = 4 /\ st[1] = s[1] /\ st[2] = t[1] /\ st[3] = t[2] /\ st[4] = t[3]
  <2>1. s \in Seq(S) /\ t \in Seq(S)
    BY <1>1
  <2>2. st \in Seq(S) /\ Len(st) = Len(s) + Len(t)
           /\ (\A n \in 1..Len(s) : st[n] = s[n])
           /\ \A n \in 1..Len(t) : st[Len(s) + n] = t[n]
    BY <2>1, Concat
  <2> HIDE DEF st
  <2>3. Len(s) = 1 /\ Len(t) = 3
    BY <1>1
  <2>4. /\ 1 \in 1..Len(s) /\ {1, 2, 3} \subseteq 1..Len(t) /\ Len(s) + Len(t) = 4
        /\ Len(s) + 1 = 2 /\ Len(s) + 2 = 3 /\ Len(s) + 3 = 4
    BY <2>3
  <2>5. st[1] = s[1] /\ st[Len(s) + 1] = t[1] /\ st[Len(s) + 2] = t[2] /\ st[Len(s) + 3] = t[3]
    BY <2>2, <2>4
  <2>6. st[2] = t[1] /\ st[3] = t[2] /\ st[4] = t[3]
    BY <2>5, <2>4, Zenon
  <2> QED BY <2>2, <2>4, <2>5, <2>6, Zenon
<1> HIDE DEF st
<1>4. \A n \in 1..4 : st[n] = q[n]
  BY <1>2, <1>3
<1>5. st = q
  <2>1. st \in Seq(S) /\ q \in Seq(S) /\ Len(st) = 4 /\ Len(q) = 4
    BY <1>1, <1>3
  <2> QED BY <2>1, <1>4
<1> QED BY <1>5, Zenon DEF st, s, t, q

\* An nft document has the shape, and gates exactly the interfaces it was made for.
LEMMA NftRulesAre ==
    ASSUME NEW ifaces \in SUBSET Iface, NEW table \in Table
    PROVE  /\ DOMAIN NftRules[ifaces] = Table
           /\ NftRules[ifaces][table] \in Seq(AnyRule)
           /\ Shape(NftRules[ifaces][table], table)
           /\ Gates(NftRules[ifaces][table], table) = ifaces
<1> DEFINE g == GatesOf(ifaces, table)
           o == Opening[table]
<1>1. /\ NftRules[ifaces]["nat"] = <<Authed, ToGardenOf("v4"), ToGardenOf("v6")>> \o GatesOf(ifaces, "nat")
      /\ NftRules[ifaces]["filter"] =
           <<Established>> \o <<Authed, ToGardenOf("v4"), ToGardenOf("v6")>> \o GatesOf(ifaces, "filter")
      /\ DOMAIN NftRules[ifaces] = {"nat", "filter"}
  BY DEF NftRules, GatesOf
<1>2. <<Established>> \o <<Authed, ToGardenOf("v4"), ToGardenOf("v6")>>
        = <<Established, Authed, ToGardenOf("v4"), ToGardenOf("v6")>>
  BY OneAndThree
<1>3. NftRules[ifaces][table] = o \o g
  <2>1. CASE table = "nat"
    BY <2>1, <1>1, Zenon DEF Opening
  <2>2. CASE table = "filter"
    BY <2>2, <1>1, <1>2, Zenon DEF Opening
  <2> QED BY <2>1, <2>2 DEF Table
<1>4. /\ g \in Seq(AnyRule)
      /\ \A n \in 1..Len(g) : \E i \in ifaces : g[n] = GateRule(table, i)
      /\ \A i \in ifaces : \E n \in 1..Len(g) : g[n] = GateRule(table, i)
  BY GatesAre
<1>5. o \in Seq(AnyRule) /\ \A m \in 1..Len(o) : \A i : o[m] # GateRule(table, i)
  BY OpeningIs
<1> HIDE DEF g, o
<1>6. Shape(o, table)
  <2>1. Len(o) \in Nat
    BY <1>5
  <2>2. Len(o) >= Len(o)
    BY <2>1
  <2> QED BY <2>2, Zenon DEF Shape, o
<1>7. /\ o \o g \in Seq(AnyRule) /\ Shape(o \o g, table)
      /\ Gates(o \o g, table) = Gates(o, table) \cup Gates(g, table)
  <2>1. \A n \in 1..Len(g) : (\E m \in 1..Len(Opening[table]) : g[n] = Opening[table][m])
                                \/ \E i \in Iface : g[n] = GateRule(table, i)
    BY <1>4, Zenon
  <2> QED BY <2>1, <1>4, <1>5, <1>6, Joined, Zenon
<1>8. Gates(o, table) = {}
  BY <1>5, Zenon DEF Gates
<1>9. Gates(g, table) = ifaces
  <2> DEFINE gate(i) == GateRule(table, i)
  <2>1. \A i, j : gate(i) = gate(j) => i = j
    <3> SUFFICES ASSUME NEW i, NEW j, gate(i) = gate(j) PROVE i = j
      OBVIOUS
    <3>1. gate(i).when = gate(j).when
      OBVIOUS
    <3>2. gate(i).when = IF table = "nat" THEN {<<"kind", "web">>, <<"iface", i>>} ELSE {<<"iface", i>>}
      BY DEF GateRule, Rule
    <3>3. gate(j).when = IF table = "nat" THEN {<<"kind", "web">>, <<"iface", j>>} ELSE {<<"iface", j>>}
      BY DEF GateRule, Rule
    <3>4. <<"iface", i>> = <<"iface", j>>
      <4>1. <<"kind", "web">> # <<"iface", i>>
        OBVIOUS
      <4>2. <<"iface", i>> \in gate(j).when
        BY <3>1, <3>2
      <4> QED BY <4>1, <4>2, <3>3
    <3> QED BY <3>4
  <2> HIDE DEF gate
  <2>2. \A i \in Iface : (\E n \in 1..Len(g) : g[n] = gate(i)) <=> i \in ifaces
    <3>1. /\ \A n \in 1..Len(g) : \E i \in ifaces : g[n] = gate(i)
          /\ \A i \in ifaces : \E n \in 1..Len(g) : g[n] = gate(i)
      BY <1>4, Zenon DEF gate
    <3> QED BY <3>1, <2>1, Zenon
  <2> QED BY <2>2 DEF Gates, gate
<1>10. DOMAIN NftRules[ifaces] = Table
  BY <1>1 DEF Table
<1> QED BY <1>3, <1>7, <1>8, <1>9, <1>10

-----------------------------------------------------------------------------
(* The commands                                                            *)

\* What every command has in common.
LEMMA CommandIs ==
    ASSUME IInv, Command
    PROVE  /\ op # None /\ op.at \in 1..Len(Commands) /\ Len(Commands) \in Nat /\ ~Refused(Current)
           /\ op \in AnyOp /\ op' \in AnyOp /\ op' # None
           /\ op'.kind = op.kind /\ op'.at = op.at + 1 /\ op'.want = op.want
           /\ Current = Commands[op.at] /\ Effect(Current) /\ up
           /\ cfg' = cfg /\ up' = up /\ record' = record /\ faults' = faults
           /\ first' = first /\ stale' = stale /\ dirty' = dirty
           /\ (InBase \/ InScope) /\ (InBase' <=> InBase) /\ (InScope' <=> InScope) /\ (Ipset' <=> Ipset)
           /\ Commands' = Commands
<1>1. /\ op # None /\ op.at <= Len(Commands) /\ ~Refused(Current) /\ Effect(Current)
      /\ op' = [op EXCEPT !.at = @ + 1]
      /\ cfg' = cfg /\ up' = up /\ record' = record /\ faults' = faults
      /\ first' = first /\ stale' = stale /\ dirty' = dirty
  BY DEF Command, bounds, history
<1>2. TypeInv
  BY DEF IInv
<1>3. /\ op \in AnyOp /\ op' \in AnyOp /\ op' # None
      /\ op'.kind = op.kind /\ op'.at = op.at + 1 /\ op'.want = op.want
  BY <1>1, <1>2, ModesAre, Advanced
<1>4. Len(Commands) \in Nat /\ op.at \in 1..Len(Commands) /\ (InBase \/ InScope)
  <2>1. Len(Commands) \in Nat /\ op.at \in Nat /\ op.at >= 1 /\ (InBase \/ InScope)
    BY <1>1, <1>2, CommandsAre
  <2>2. op.at <= Len(Commands)
    BY <1>1
  <2> QED BY <2>1, <2>2
<1>5. (InBase' <=> InBase) /\ (InScope' <=> InScope) /\ (Ipset' <=> Ipset)
  BY <1>1, <1>3 DEF InBase, InScope, Ipset
<1>6. Commands' = Commands
  BY <1>1, <1>3 DEF Commands
<1>7. up
  BY <1>1, <1>2 DEF TypeInv
<1>8. Current = Commands[op.at]
  BY DEF Current
<1> QED BY <1>1, <1>3, <1>4, <1>5, <1>6, <1>7, <1>8

\* The nft document goes in, in one step.
LEMMA NftCommandKeeps == ASSUME IInv, Command, ~Ipset PROVE IInv'
<1>1. /\ op \in AnyOp /\ op' \in AnyOp /\ op' # None /\ up
      /\ op'.kind = op.kind /\ op'.at = op.at + 1 /\ op'.want = op.want
      /\ Effect(Current)
      /\ cfg' = cfg /\ up' = up /\ record' = record /\ faults' = faults
      /\ first' = first /\ stale' = stale /\ dirty' = dirty
      /\ (InBase \/ InScope) /\ (InBase' <=> InBase) /\ (InScope' <=> InScope) /\ ~Ipset'
  BY CommandIs
<1>2. /\ TypeInv /\ OneBackend /\ Begun /\ Fresh /\ Shaped /\ NftOnly
  BY DEF IInv
<1>3. op.at = 1 /\ record \in SUBSET Iface /\ op.want \in SUBSET Iface
      /\ (InBase => Current = Apply(FALSE, record))
      /\ (InScope => Current = Apply(TRUE, op.want))
  <2>1. Len(Commands) = 1 /\ op.at \in 1..Len(Commands) /\ Current = Commands[op.at]
    BY <1>1, <1>2, CommandIs, NftIs
  <2>2. op.at = 1
    BY <2>1
  <2>3. op # None
    BY CommandIs
  <2> QED BY <2>1, <2>2, <2>3, <1>2, NftIs, ModesAre
<1>4. /\ Current.do = "nft"
      /\ (InBase => ~Current.flush /\ Current.ifaces = record)
      /\ (InScope => Current.flush /\ Current.ifaces = op.want)
  BY <1>1, <1>3 DEF Apply
<1>5. /\ sets' = sets /\ chains' = chains /\ jumps' = jumps
      /\ InBase => nft' = NftAdd(NftRules[record])
      /\ InScope => nft' = NftRules[op.want]
  <2>1. sets' = sets
    BY <1>1, <1>4, Zenon DEF Effect
  <2>2. chains' = chains
    <3> DEFINE c == Current
               fresh == [chains EXCEPT ![c.at] = <<>>]
               more == [chains EXCEPT ![c.at] = Append(@, c.rule)]
    <3>1. chains' = CASE c.do = "chain" /\ chains[c.at] = None -> fresh
                      [] c.do = "flush" -> fresh [] c.do = "append" -> more [] OTHER -> chains
      BY <1>1, Zenon DEF Effect
    <3> HIDE DEF fresh, more
    <3> QED BY <3>1, <1>4
  <2>3. jumps' = jumps
    <3>1. jumps' = CASE Current.do = "jump"   -> jumps \cup {<<Current.at, Current.iface>>}
                     [] Current.do = "unjump" -> jumps \ {<<Current.at, Current.iface>>}
                     [] OTHER                 -> jumps
      BY <1>1, Zenon DEF Effect
    <3> QED BY <3>1, <1>4
  <2>4. /\ InBase => nft' = NftAdd(NftRules[record])
        /\ InScope => nft' = NftRules[op.want]
    <3>1. nft' = CASE Current.do = "nft" /\ Current.flush  -> NftRules[Current.ifaces]
                   [] Current.do = "nft" /\ ~Current.flush -> NftAdd(NftRules[Current.ifaces])
                   [] OTHER                                -> nft
      BY <1>1, Zenon DEF Effect
    <3> QED BY <3>1, <1>4
  <2> QED BY <2>1, <2>2, <2>3, <2>4
<1>6. ASSUME NEW ifaces \in SUBSET Iface
      PROVE  NftRules[ifaces] \in [Table -> Seq(AnyRule)]
  <2>1. NftRules[ifaces] = [table \in Table |-> NftRules[ifaces][table]]
    BY NftRulesAre DEF NftRules, Table
  <2> QED BY <2>1, NftRulesAre
<1>7. InScope => nft' \in [Table -> Seq(AnyRule)] /\ \A table \in Table :
        Shape(nft'[table], table) /\ Gates(nft'[table], table) = op.want
  BY <1>3, <1>5, <1>6, NftRulesAre
<1>8. InBase => nft' \in [Table -> Seq(AnyRule)] /\ \A table \in Table :
        /\ Shape(nft'[table], table) /\ record \subseteq Gates(nft'[table], table)
        /\ nft = None => Gates(nft'[table], table) = record
        /\ nft # None => Gates(nft'[table], table) = Gates(nft[table], table) \cup record
  <2> SUFFICES ASSUME InBase
               PROVE  nft' \in [Table -> Seq(AnyRule)] /\ \A table \in Table :
                        /\ Shape(nft'[table], table) /\ record \subseteq Gates(nft'[table], table)
                        /\ nft = None => Gates(nft'[table], table) = record
                        /\ nft # None => Gates(nft'[table], table) = Gates(nft[table], table) \cup record
    OBVIOUS
  <2>1. CASE nft = None
    <3>1. nft' = NftRules[record]
      BY <2>1, <1>5 DEF NftAdd
    <3> QED BY <3>1, <2>1, <1>3, <1>6, NftRulesAre
  <2>2. CASE nft # None
    <3>1. nft' = [table \in Table |-> nft[table] \o NftRules[record][table]]
      BY <2>2, <1>5 DEF NftAdd
    <3>2. ASSUME NEW table \in Table
          PROVE  /\ nft[table] \o NftRules[record][table] \in Seq(AnyRule)
                 /\ Shape(nft[table] \o NftRules[record][table], table)
                 /\ Gates(nft[table] \o NftRules[record][table], table) = Gates(nft[table], table) \cup record
      <4> DEFINE s == nft[table]
                 r == NftRules[record][table]
      <4>1. s \in Seq(AnyRule) /\ Shape(s, table)
        BY <2>2, <1>2 DEF TypeInv, Shaped
      <4>2. r \in Seq(AnyRule) /\ Shape(r, table) /\ Gates(r, table) = record
        BY <1>3, NftRulesAre
      <4> HIDE DEF s, r
      <4>3. \A n \in 1..Len(r) : (\E m \in 1..Len(Opening[table]) : r[n] = Opening[table][m])
                                \/ \E i \in Iface : r[n] = GateRule(table, i)
        BY <4>2, Zenon DEF Shape
      <4>4. s \o r \in Seq(AnyRule) /\ Shape(s \o r, table) /\ Gates(s \o r, table) = Gates(s, table) \cup record
        BY <4>1, <4>2, <4>3, Joined, Zenon
      <4> QED BY <4>4, Zenon DEF s, r
    <3>3. nft' \in [Table -> Seq(AnyRule)]
      BY <3>1, <3>2
    <3>4. \A table \in Table : nft'[table] = nft[table] \o NftRules[record][table]
      BY <3>1
    <3> QED BY <2>2, <3>2, <3>3, <3>4, Zenon
  <2> QED BY <2>1, <2>2
<1>9. nft' \in [Table -> Seq(AnyRule)] /\ nft' # None
  BY <1>1, <1>7, <1>8, NoneAssumption DEF NoneAssumption
<1>10. TypeInv'
  BY <1>1, <1>2, <1>5, <1>9 DEF TypeInv
<1>11. OneBackend' /\ Begun' /\ Fresh'
  BY <1>1, <1>2, <1>5 DEF OneBackend, Begun, Fresh
<1>12. Filling' /\ Filled' /\ JumpsMade' /\ NoOtherJumps' /\ Ordered'
  BY <1>1 DEF Filling, Filled, JumpsMade, NoOtherJumps, Ordered
<1>13. Shaped'
  BY <1>1, <1>7, <1>8, Zenon DEF Shaped
<1>14. InForce' = IF InScope THEN op.want ELSE record
  <2>1. op'.at > 1
    BY <1>1, <1>3
  <2> QED BY <1>1, <2>1 DEF InForce, InScope
<1>15. NftCovers'
  <2>1. ~(InBase /\ InScope)
    BY DEF InBase, InScope
  <2>2. \A table \in Table : InForce' \subseteq Gates(nft'[table], table)
    BY <1>1, <1>7, <1>8, <1>14, <2>1
  <2> QED BY <2>2, <1>9 DEF NftCovers, Covers
<1>16. NftOnly'
  <2> SUFFICES ASSUME first, NEW table \in Table PROVE Gates(nft'[table], table) \subseteq InForce'
    BY <1>1 DEF NftOnly, Only
  <2>1. CASE InScope
    BY <2>1, <1>7, <1>14
  <2>2. CASE InBase
    <3>1. ~InScope /\ InForce = record
      BY <2>2, <1>3 DEF InBase, InScope, InForce
    <3>2. nft # None => Gates(nft[table], table) \subseteq record
      BY <3>1, <1>2 DEF NftOnly, Only
    <3> QED BY <2>2, <3>1, <3>2, <1>8, <1>14
  <2> QED BY <1>1, <2>1, <2>2
<1> QED BY <1>10, <1>11, <1>12, <1>13, <1>15, <1>16 DEF IInv

\* What a command changes in the kernel, one verb at a time.
LEMMA Effects ==
    ASSUME NEW c, Effect(c)
    PROVE  /\ c.do = "create" => sets' = sets \cup {c.set}
           /\ c.do # "create" => sets' = sets
           /\ c.do = "chain" /\ chains[c.at] = None => chains' = [chains EXCEPT ![c.at] = <<>>]
           /\ c.do = "chain" /\ chains[c.at] # None => chains' = chains
           /\ c.do = "flush" => chains' = [chains EXCEPT ![c.at] = <<>>]
           /\ c.do = "append" => chains' = [chains EXCEPT ![c.at] = Append(chains[c.at], c.rule)]
           /\ c.do \notin {"chain", "flush", "append"} => chains' = chains
           /\ c.do = "jump" => jumps' = jumps \cup {<<c.at, c.iface>>}
           /\ c.do = "unjump" => jumps' = jumps \ {<<c.at, c.iface>>}
           /\ c.do \notin {"jump", "unjump"} => jumps' = jumps
           /\ c.do # "nft" => nft' = nft
<1>1. sets' = IF c.do = "create" THEN sets \cup {c.set} ELSE sets
  BY Zenon DEF Effect
<1> DEFINE fresh == [chains EXCEPT ![c.at] = <<>>]
           more == [chains EXCEPT ![c.at] = Append(chains[c.at], c.rule)]
<1>2. chains' = CASE c.do = "chain" /\ chains[c.at] = None -> fresh
                  [] c.do = "flush" -> fresh [] c.do = "append" -> more [] OTHER -> chains
  BY Zenon DEF Effect
<1>3. jumps' = CASE c.do = "jump"   -> jumps \cup {<<c.at, c.iface>>}
                 [] c.do = "unjump" -> jumps \ {<<c.at, c.iface>>}
                 [] OTHER           -> jumps
  BY Zenon DEF Effect
<1>4. c.do # "nft" => nft' = nft
  BY DEF Effect
<1> HIDE DEF fresh, more
<1>5. /\ c.do = "chain" /\ chains[c.at] = None => chains' = fresh
      /\ c.do = "chain" /\ chains[c.at] # None => chains' = chains
      /\ c.do = "flush" => chains' = fresh
      /\ c.do = "append" => chains' = more
      /\ c.do \notin {"chain", "flush", "append"} => chains' = chains
  BY <1>2
<1>6. /\ c.do = "jump" => jumps' = jumps \cup {<<c.at, c.iface>>}
      /\ c.do = "unjump" => jumps' = jumps \ {<<c.at, c.iface>>}
      /\ c.do \notin {"jump", "unjump"} => jumps' = jumps
  BY <1>3
<1> QED BY <1>1, <1>4, <1>5, <1>6 DEF fresh, more

\* What has been done after one more command.
LEMMA DoneMore ==
    ASSUME IInv, Command, NEW verb
    PROVE  /\ Current.do # verb => Done(verb)' = Done(verb)
           /\ Current.do = verb => Done(verb)' = Done(verb) \cup {<<Current.at, Current.iface>>}
<1>1. /\ Len(Commands) \in Nat /\ op.at \in 1..Len(Commands) /\ Current = Commands[op.at]
      /\ op'.at = op.at + 1 /\ Commands' = Commands
  BY CommandIs
<1>2. /\ Current.do # verb => DoneOf(Commands, op.at, verb) = DoneOf(Commands, op.at - 1, verb)
      /\ Current.do = verb =>
           DoneOf(Commands, op.at, verb) = DoneOf(Commands, op.at - 1, verb) \cup {<<Current.at, Current.iface>>}
  <2> DEFINE cs == Commands
             n == op.at
  <2>1. Len(cs) \in Nat /\ n \in 1..Len(cs)
    BY <1>1
  <2>2. Current = cs[n]
    BY <1>1
  <2> HIDE DEF cs, n
  <2>3. /\ cs[n].do # verb => DoneOf(cs, n, verb) = DoneOf(cs, n - 1, verb)
        /\ cs[n].do = verb =>
             DoneOf(cs, n, verb) = DoneOf(cs, n - 1, verb) \cup {<<cs[n].at, cs[n].iface>>}
    BY <2>1, DoneNext, ZenonT(60)
  <2> QED BY <2>2, <2>3 DEF cs, n
<1>3. (op.at - 1)' = op.at
  BY <1>1
<1>4. Done(verb)' = DoneOf(Commands, op.at, verb)
  BY <1>1, <1>3 DEF Done
<1> QED BY <1>2, <1>4 DEF Done

\* One jump less, or one more, on the way from one scope to the other.
LEMMA ScopeCommandKeeps == ASSUME IInv, Command, Ipset, InScope PROVE IInv'
<1>1. /\ op \in AnyOp /\ op' \in AnyOp /\ op' # None /\ up /\ op # None
      /\ op.at \in 1..Len(Commands) /\ Current = Commands[op.at]
      /\ op'.kind = op.kind /\ op'.at = op.at + 1 /\ op'.want = op.want
      /\ Effect(Current)
      /\ cfg' = cfg /\ up' = up /\ record' = record /\ faults' = faults
      /\ first' = first /\ stale' = stale /\ dirty' = dirty
      /\ (InBase' <=> InBase) /\ InScope' /\ Ipset'
  BY CommandIs
<1>2. /\ TypeInv /\ OneBackend /\ Begun /\ Fresh /\ Filled /\ JumpsMade /\ NoOtherJumps /\ Shaped
  BY DEF IInv
<1>3. ~InBase /\ record \in SUBSET Iface /\ op.want \in SUBSET Iface
      /\ Commands = SetGatedIfaces[<<record, op.want>>]
  BY <1>2, ScopeIs, ModesAre
<1>4. \/ \E t \in Place, i \in record \ op.want : Current = Change("unjump", t, i)
      \/ \E t \in Place, i \in op.want \ record : Current = Change("jump", t, i)
  <2> DEFINE d == Commands
  <2>1. d = SetGatedIfaces[<<record, op.want>>] /\ op.at \in 1..Len(d) /\ Current = d[op.at]
    BY <1>1, <1>3
  <2>2. record \in SUBSET Iface /\ op.want \in SUBSET Iface
    BY <1>3
  <2> HIDE DEF d
  <2>3. \/ \E t \in Place, i \in record \ op.want : d[op.at] = Change("unjump", t, i)
        \/ \E t \in Place, i \in op.want \ record : d[op.at] = Change("jump", t, i)
    BY <2>1, <2>2, ScopeStep
  <2> QED BY <2>1, <2>3
<1>5. PICK t \in Place, i \in Iface :
        /\ Current.at = t /\ Current.iface = i
        /\ \/ Current.do = "unjump" /\ i \in record \ op.want
           \/ Current.do = "jump" /\ i \in op.want \ record
  BY <1>3, <1>4 DEF Change
<1>6. Current.do = "unjump" \/ Current.do = "jump"
  BY <1>5
<1>7. /\ sets' = sets /\ chains' = chains /\ nft' = nft
      /\ Current.do = "jump" => jumps' = jumps \cup {<<t, i>>}
      /\ Current.do = "unjump" => jumps' = jumps \ {<<t, i>>}
  BY <1>1, <1>5, <1>6, Effects
<1>8. TypeInv'
  <2>1. jumps' \subseteq Place \X Iface
    BY <1>2, <1>6, <1>7 DEF TypeInv
  <2> QED BY <1>1, <1>2, <1>7, <2>1 DEF TypeInv
<1>9. OneBackend' /\ Begun' /\ Fresh' /\ Filled' /\ Filling' /\ Ordered' /\ Shaped' /\ NftCovers' /\ NftOnly'
  BY <1>1, <1>2, <1>3, <1>7 DEF OneBackend, Begun, Fresh, Filled, Filling, Ordered, Shaped, NftCovers, NftOnly
<1>10. /\ Current.do = "jump" => Done("jump")' = Done("jump") \cup {<<t, i>>} /\ Done("unjump")' = Done("unjump")
       /\ Current.do = "unjump" => Done("unjump")' = Done("unjump") \cup {<<t, i>>} /\ Done("jump")' = Done("jump")
  BY <1>5, DoneMore
<1>11. /\ Done("jump") \subseteq Place \X (op.want \ record)
       /\ Done("unjump") \subseteq Place \X (record \ op.want)
  <2> DEFINE d == Commands
  <2>0. d = SetGatedIfaces[<<record, op.want>>] /\ Len(d) \in Nat
    BY <1>1, <1>3, CommandIs
  <2>1. record \in SUBSET Iface /\ op.want \in SUBSET Iface
    BY <1>3
  <2> HIDE DEF d
  <2>2. \A m \in 1..Len(d) : /\ d[m].do = "jump" => <<d[m].at, d[m].iface>> \in Place \X (op.want \ record)
                             /\ d[m].do = "unjump" => <<d[m].at, d[m].iface>> \in Place \X (record \ op.want)
    <3> SUFFICES ASSUME NEW m \in 1..Len(d)
                 PROVE  /\ d[m].do = "jump" => <<d[m].at, d[m].iface>> \in Place \X (op.want \ record)
                        /\ d[m].do = "unjump" => <<d[m].at, d[m].iface>> \in Place \X (record \ op.want)
      OBVIOUS
    <3>1. CASE \E u \in Place, j \in record \ op.want : d[m] = Change("unjump", u, j)
      BY <3>1 DEF Change
    <3>2. CASE \E u \in Place, j \in op.want \ record : d[m] = Change("jump", u, j)
      BY <3>2 DEF Change
    <3>3. \/ \E u \in Place, j \in record \ op.want : d[m] = Change("unjump", u, j)
          \/ \E u \in Place, j \in op.want \ record : d[m] = Change("jump", u, j)
      <4>1. d = SetGatedIfaces[<<record, op.want>>]
        BY <2>0
      <4> QED BY <4>1, <2>1, ScopeStep
    <3> QED BY <3>1, <3>2, <3>3
  <2>3. \A n \in 1..(op.at - 1) : n <= Len(d) => n \in 1..Len(d)
    <3>1. Len(d) \in Nat
      BY <2>0
    <3> QED BY <3>1
  <2> QED BY <2>2, <2>3 DEF Done, DoneOf, d
<1>12. JumpsMade'
  <2> SUFFICES ASSUME ~dirty
               PROVE  Done("jump")' \subseteq jumps' /\ Place \X (record \cap op.want) \subseteq jumps'
    BY <1>1 DEF JumpsMade
  <2>1. Done("jump") \subseteq jumps /\ Place \X (record \cap op.want) \subseteq jumps
    BY <1>1, <1>2 DEF JumpsMade
  <2>2. CASE Current.do = "jump"
    BY <2>1, <2>2, <1>7, <1>10
  <2>3. CASE Current.do = "unjump"
    <3>1. i \in record \ op.want
      BY <2>3, <1>5
    <3>2. <<t, i>> \notin Done("jump") /\ <<t, i>> \notin Place \X (record \cap op.want)
      BY <3>1, <1>11
    <3> QED BY <3>2, <2>1, <2>3, <1>7, <1>10
  <2> QED BY <1>6, <2>2, <2>3
<1>13. NoOtherJumps'
  <2> SUFFICES ASSUME first, ~stale, ~dirty
               PROVE  jumps' \subseteq Place \X (record \cup op.want) /\ jumps' \cap Done("unjump")' = {}
    BY <1>1 DEF NoOtherJumps
  <2>1. jumps \subseteq Place \X (record \cup op.want) /\ jumps \cap Done("unjump") = {}
    BY <1>1, <1>2 DEF NoOtherJumps
  <2>2. CASE Current.do = "jump"
    <3>1. i \in op.want \ record
      BY <2>2, <1>5
    <3>2. <<t, i>> \notin Done("unjump")
      BY <3>1, <1>11
    <3> QED BY <3>1, <3>2, <2>1, <2>2, <1>7, <1>10
  <2>3. CASE Current.do = "unjump"
    BY <2>1, <2>3, <1>7, <1>10
  <2> QED BY <1>6, <2>2, <2>3
<1> QED BY <1>8, <1>9, <1>12, <1>13 DEF IInv

\* What the next command of the base rules does to a chain.
Changed(u, n, p) ==
    IF n = p THEN <<>>
    ELSE IF n > p /\ n <= p + Size(u) THEN Append(chains[u], ChainRules[u[2]][n - p])
    ELSE IF n = p - 1 /\ chains[u] = None THEN <<>>
    ELSE chains[u]

\* A command of the base rules makes a set, or changes one chain, or makes one jump.
LEMMA BaseStep ==
    ASSUME IInv, Command, Ipset, InBase
    PROVE  LET n == op.at
               p(t) == FlushAt(t, Cardinality(record))
           IN  /\ nft' = nft
               /\ chains' = [u \in Place |-> Changed(u, n, p(u))]
               /\ \/ jumps' = jumps /\ Current.do \notin {"jump", "unjump"}
                  \/ \E t \in Place, i \in record :
                       /\ n > p(t) + Size(t) /\ jumps' = jumps \cup {<<t, i>>}
                       /\ Current.do = "jump" /\ Current.at = t /\ Current.iface = i
               /\ \/ n > 3 /\ sets' = sets
                  \/ n <= 3 /\ sets' = sets \cup {<<"auth", "g4", "g6">>[n]}
<1> DEFINE c == Cardinality(record)
           e == EnsureBase[record]
           n == op.at
           p(t) == FlushAt(t, c)
<1>1. /\ n \in 1..Len(e) /\ Current = e[n] /\ Effect(Current) /\ record \in SUBSET Iface /\ c \in Nat
      /\ TypeInv
  <2>1. TypeInv
    BY DEF IInv
  <2>2. Commands = e /\ record \in SUBSET Iface /\ c \in Nat
    BY <2>1, BaseIs, ModesAre
  <2> QED BY <2>1, <2>2, CommandIs
<1>2. DOMAIN chains = Place /\ chains = [u \in Place |-> chains[u]]
  BY <1>1 DEF TypeInv
<1>3. \/ n <= 3 /\ e[n] = Create(<<"auth", "g4", "g6">>[n])
      \/ \E t \in Place : n = p(t) - 1 /\ e[n] = NewChain(t)
      \/ \E t \in Place : n = p(t) /\ e[n] = Flush(t)
      \/ \E t \in Place : \E k \in 1..Size(t) : n = p(t) + k /\ e[n] = AddRule(t, ChainRules[t[2]][k])
      \/ \E t \in Place, i \in record :
           n > p(t) + Size(t) /\ n <= p(t) + Size(t) + c /\ e[n] = Jump(t, i)
  BY <1>1, BaseCommands
<1>4. \A u \in Place : p(u) \in Nat /\ p(u) > 4 /\ Size(u) \in Nat
  BY <1>1, BasePositions
<1>5. \A t, u \in Place :
        t = u \/ p(t) + Size(t) + c < p(u) - 1 \/ p(u) + Size(u) + c < p(t) - 1
  BY <1>1, BasePositions
<1>6. n \in Nat /\ c \in Nat
  BY <1>1
<1>7. Current = e[n] /\ Effect(Current)
  BY <1>1
<1> DEFINE after == [u \in Place |-> Changed(u, n, p(u))]
           goal == /\ nft' = nft
                   /\ chains' = after
                   /\ \/ jumps' = jumps /\ Current.do \notin {"jump", "unjump"}
                      \/ \E t \in Place, i \in record :
                           /\ n > p(t) + Size(t) /\ jumps' = jumps \cup {<<t, i>>}
                           /\ Current.do = "jump" /\ Current.at = t /\ Current.iface = i
                   /\ \/ n > 3 /\ sets' = sets
                      \/ n <= 3 /\ sets' = sets \cup {<<"auth", "g4", "g6">>[n]}
<1> SUFFICES goal
  OBVIOUS
<1> HIDE DEF n, c, e, p, after, goal
<1>8. \A t, u \in Place :
        t # u /\ n >= p(t) - 1 /\ n <= p(t) + Size(t) + c => Changed(u, n, p(u)) = chains[u]
  <2> SUFFICES ASSUME NEW t \in Place, NEW u \in Place, t # u, n >= p(t) - 1, n <= p(t) + Size(t) + c
               PROVE  Changed(u, n, p(u)) = chains[u]
    OBVIOUS
  <2>1. /\ p(t) \in Nat /\ p(u) \in Nat /\ Size(t) \in Nat /\ Size(u) \in Nat
        /\ p(t) + Size(t) + c < p(u) - 1 \/ p(u) + Size(u) + c < p(t) - 1
    BY <1>4, <1>5
  <2>2. n > p(u) + Size(u) \/ n < p(u) - 1
    BY <2>1, <1>6
  <2>3. n # p(u) /\ ~(n > p(u) /\ n <= p(u) + Size(u)) /\ n # p(u) - 1
    BY <2>1, <2>2, <1>6
  <2> QED BY <2>3 DEF Changed
<1>9. CASE n <= 3 /\ e[n] = Create(<<"auth", "g4", "g6">>[n])
  <2>1. Current.do = "create" /\ Current.set = <<"auth", "g4", "g6">>[n]
    BY <1>7, <1>9, Fields
  <2>2. \A u \in Place : Changed(u, n, p(u)) = chains[u]
    BY <1>4, <1>6, <1>9 DEF Changed
  <2>3. chains' = chains /\ jumps' = jumps /\ nft' = nft /\ sets' = sets \cup {<<"auth", "g4", "g6">>[n]}
    BY <2>1, <1>7, Effects
  <2>4. chains' = after
    BY <2>2, <2>3, <1>2 DEF after
  <2>5. n <= 3 /\ Current.do \notin {"jump", "unjump"}
    BY <2>1, <1>9
  <2> QED BY <2>3, <2>4, <2>5 DEF goal
<1>10. CASE \E t \in Place : n = p(t) - 1 /\ e[n] = NewChain(t)
  <2>1. PICK t \in Place : n = p(t) - 1 /\ e[n] = NewChain(t)
    BY <1>10
  <2>2. Current.do = "chain" /\ Current.at = t
    BY <2>1, <1>7, Fields
  <2>3. /\ jumps' = jumps /\ nft' = nft /\ sets' = sets
        /\ chains[t] = None => chains' = [chains EXCEPT ![t] = <<>>]
        /\ chains[t] # None => chains' = chains
    BY <2>2, <1>7, Effects
  <2>4. p(t) \in Nat /\ Size(t) \in Nat /\ p(t) > 4
    BY <1>4
  <2>5. \A u \in Place : u # t => Changed(u, n, p(u)) = chains[u]
    BY <2>1, <2>4, <1>6, <1>8
  <2>6. Changed(t, n, p(t)) = IF chains[t] = None THEN <<>> ELSE chains[t]
    BY <2>1, <2>4, <1>6 DEF Changed
  <2>7. chains' = after
    BY <2>3, <2>5, <2>6, <1>2 DEF after
  <2>8. n > 3
    BY <2>1, <2>4, <1>6
  <2> QED BY <2>2, <2>3, <2>7, <2>8 DEF goal
<1>11. CASE \E t \in Place : n = p(t) /\ e[n] = Flush(t)
  <2>1. PICK t \in Place : n = p(t) /\ e[n] = Flush(t)
    BY <1>11
  <2>2. Current.do = "flush" /\ Current.at = t
    BY <2>1, <1>7, Fields
  <2>3. /\ jumps' = jumps /\ nft' = nft /\ sets' = sets
        /\ chains' = [chains EXCEPT ![t] = <<>>]
    BY <2>2, <1>7, Effects
  <2>4. p(t) \in Nat /\ Size(t) \in Nat /\ p(t) > 4
    BY <1>4
  <2>5. \A u \in Place : u # t => Changed(u, n, p(u)) = chains[u]
    BY <2>1, <2>4, <1>6, <1>8
  <2>6. Changed(t, n, p(t)) = <<>>
    BY <2>1 DEF Changed
  <2>7. chains' = after
    BY <2>3, <2>5, <2>6, <1>2 DEF after
  <2>8. n > 3
    BY <2>1, <2>4, <1>6
  <2> QED BY <2>2, <2>3, <2>7, <2>8 DEF goal
<1>12. CASE \E t \in Place : \E k \in 1..Size(t) : n = p(t) + k /\ e[n] = AddRule(t, ChainRules[t[2]][k])
  <2>0. PICK t \in Place : \E k \in 1..Size(t) : n = p(t) + k /\ e[n] = AddRule(t, ChainRules[t[2]][k])
    BY <1>12
  <2>1. PICK k \in 1..Size(t) : n = p(t) + k /\ e[n] = AddRule(t, ChainRules[t[2]][k])
    BY <2>0
  <2>2. Current.do = "append" /\ Current.at = t /\ Current.rule = ChainRules[t[2]][k]
    BY <2>1, <1>7, Fields
  <2>3. /\ jumps' = jumps /\ nft' = nft /\ sets' = sets
        /\ chains' = [chains EXCEPT ![t] = Append(chains[t], ChainRules[t[2]][k])]
    BY <2>2, <1>7, Effects
  <2>4. p(t) \in Nat /\ Size(t) \in Nat /\ p(t) > 4
    BY <1>4
  <2>9. n > p(t) /\ n <= p(t) + Size(t) /\ n - p(t) = k /\ n > 3 /\ n <= p(t) + Size(t) + c
    BY <2>1, <2>4, <1>6
  <2>5. \A u \in Place : u # t => Changed(u, n, p(u)) = chains[u]
    BY <2>9, <2>4, <1>6, <1>8
  <2>6. Changed(t, n, p(t)) = Append(chains[t], ChainRules[t[2]][k])
    BY <2>9, <2>4, <1>6 DEF Changed
  <2>7. chains' = after
    BY <2>3, <2>5, <2>6, <1>2 DEF after
  <2> QED BY <2>2, <2>3, <2>7, <2>9 DEF goal
<1>13. CASE \E t \in Place, i \in record :
           n > p(t) + Size(t) /\ n <= p(t) + Size(t) + c /\ e[n] = Jump(t, i)
  <2>1. PICK t \in Place, i \in record :
           n > p(t) + Size(t) /\ n <= p(t) + Size(t) + c /\ e[n] = Jump(t, i)
    BY <1>13
  <2>2. Current.do = "jump" /\ Current.at = t /\ Current.iface = i
    BY <2>1, <1>7, Fields
  <2>3. chains' = chains /\ jumps' = jumps \cup {<<t, i>>} /\ nft' = nft /\ sets' = sets
    BY <2>2, <1>7, Effects
  <2>4. p(t) \in Nat /\ Size(t) \in Nat /\ p(t) > 4
    BY <1>4
  <2>5. \A u \in Place : u # t => Changed(u, n, p(u)) = chains[u]
    BY <2>1, <2>4, <1>6, <1>8
  <2>6. Changed(t, n, p(t)) = chains[t]
    BY <2>1, <2>4, <1>6 DEF Changed
  <2>7. chains' = after
    BY <2>3, <2>5, <2>6, <1>2 DEF after
  <2>8. n > 3
    BY <2>1, <2>4, <1>6
  <2> QED BY <2>1, <2>2, <2>3, <2>7, <2>8 DEF goal
<1> QED BY <1>3, <1>9, <1>10, <1>11, <1>12, <1>13

\* One rule more of a chain.
LEMMA TakenIs ==
    ASSUME NEW t \in Place
    PROVE  /\ Size(t) \in Nat /\ Taken(t, 0) = <<>>
           /\ \A k \in 0..Size(t) : Taken(t, k) \in Seq(AnyRule)
           /\ \A k \in 1..Size(t) : Append(Taken(t, k - 1), ChainRules[t[2]][k]) = Taken(t, k)
<1>1. ChainRules[t[2]] \in Seq(AnyRule) /\ Len(ChainRules[t[2]]) = Size(t) /\ Size(t) \in Nat
  BY RulesAre
<1> DEFINE r == ChainRules[t[2]]
<1>2. Taken(t, 0) = <<>>
  BY DEF Taken
<1>3. \A k \in 0..Size(t) : \A m \in 1..k : r[m] \in AnyRule
  BY <1>1
<1> HIDE DEF r
<1>4. ASSUME NEW k \in 0..Size(t) PROVE Taken(t, k) \in Seq(AnyRule) /\ Len(Taken(t, k)) = k
  <2>1. k \in Nat
    BY <1>1
  <2>2. Taken(t, k) = [m \in 1..k |-> r[m]]
    BY DEF Taken, r
  <2> QED BY <2>1, <2>2, <1>3
<1>5. ASSUME NEW k \in 1..Size(t) PROVE Append(Taken(t, k - 1), r[k]) = Taken(t, k)
  <2>1. k \in Nat /\ k - 1 \in 0..Size(t) /\ k \in 0..Size(t)
    BY <1>1
  <2>2. Taken(t, k) = [m \in 1..k |-> r[m]] /\ Taken(t, k - 1) = [m \in 1..(k - 1) |-> r[m]]
    BY DEF Taken, r
  <2>3. k - 1 \in Nat
    BY <1>1
  <2> QED BY <2>1, <2>2, <2>3
<1> QED BY <1>1, <1>2, <1>4, <1>5 DEF r

\* A command of the base rules.
LEMMA BaseCommandKeeps == ASSUME IInv, Command, Ipset, InBase PROVE IInv'
<1> DEFINE c == Cardinality(record)
           n == op.at
           p(t) == FlushAt(t, c)
<1>1. /\ op \in AnyOp /\ op' \in AnyOp /\ op' # None /\ up /\ op # None
      /\ op'.at = n + 1
      /\ cfg' = cfg /\ up' = up /\ record' = record /\ faults' = faults
      /\ first' = first /\ stale' = stale /\ dirty' = dirty
      /\ InBase' /\ Ipset' /\ n \in Nat /\ n >= 1 /\ c \in Nat /\ record \in SUBSET Iface
  <2>1. TypeInv
    BY DEF IInv
  <2> QED BY <2>1, CommandIs, ModesAre
<1>2. /\ TypeInv /\ OneBackend /\ Begun /\ Fresh /\ Filling /\ JumpsMade /\ NoOtherJumps /\ Shaped /\ Ordered
  BY DEF IInv
<1>3. ~InScope /\ ~InScope'
  BY <1>1 DEF InBase, InScope
<1>4. /\ nft' = nft
      /\ chains' = [u \in Place |-> Changed(u, n, p(u))]
      /\ \/ jumps' = jumps /\ Current.do \notin {"jump", "unjump"}
         \/ \E t \in Place, i \in record :
              /\ n > p(t) + Size(t) /\ jumps' = jumps \cup {<<t, i>>}
              /\ Current.do = "jump" /\ Current.at = t /\ Current.iface = i
      /\ \/ n > 3 /\ sets' = sets
         \/ n <= 3 /\ sets' = sets \cup {<<"auth", "g4", "g6">>[n]}
  BY BaseStep
<1>5. \A t \in Place : p(t) \in Nat /\ p(t) > 4 /\ Size(t) \in Nat
  BY <1>1, BasePositions
<1>6. \A t \in Place : Pos(t) = p(t) /\ Pos(t)' = p(t)
  BY <1>1 DEF Pos
<1> HIDE DEF n, c, p
<1>7. ASSUME NEW t \in Place
      PROVE  /\ n + 1 > p(t) => chains'[t] = Taken(t, Least2(n - p(t), Size(t)))
             /\ n + 1 > p(t) => Least2(n - p(t), Size(t)) \in 0..Size(t)
             /\ n + 1 = p(t) => chains'[t] = IF chains[t] = None THEN <<>> ELSE chains[t]
             /\ n + 1 < p(t) => chains'[t] = chains[t]
  <2>1. chains'[t] = Changed(t, n, p(t))
    BY <1>4
  <2>2. p(t) \in Nat /\ Size(t) \in Nat /\ n \in Nat
    BY <1>1, <1>5
  <2>3. n > p(t) => chains[t] = Taken(t, Least2(n - 1 - p(t), Size(t)))
    BY <1>1, <1>2, <1>6 DEF Filling, n
  <2>4. CASE n = p(t)
    <3>1. Least2(n - p(t), Size(t)) = 0 /\ Changed(t, n, p(t)) = <<>>
      BY <2>2, <2>4 DEF Least2, Changed
    <3>2. Taken(t, 0) = <<>>
      BY TakenIs
    <3> QED BY <2>1, <2>2, <2>4, <3>1, <3>2
  <2>5. CASE n > p(t) /\ n <= p(t) + Size(t)
    <3>1. /\ Least2(n - p(t), Size(t)) = n - p(t) /\ n - p(t) \in 1..Size(t)
          /\ Least2(n - 1 - p(t), Size(t)) = (n - p(t)) - 1
          /\ Changed(t, n, p(t)) = Append(chains[t], ChainRules[t[2]][n - p(t)])
      BY <2>2, <2>5 DEF Least2, Changed
    <3>2. Append(Taken(t, (n - p(t)) - 1), ChainRules[t[2]][n - p(t)]) = Taken(t, n - p(t))
      BY <3>1, TakenIs
    <3>3. chains[t] = Taken(t, (n - p(t)) - 1)
      BY <2>3, <2>5, <3>1
    <3> QED BY <2>1, <2>2, <2>5, <3>1, <3>2, <3>3
  <2>6. CASE n > p(t) + Size(t)
    <3>1. /\ Least2(n - p(t), Size(t)) = Size(t) /\ n > p(t)
          /\ Least2(n - 1 - p(t), Size(t)) = Size(t)
          /\ Changed(t, n, p(t)) = chains[t]
      BY <2>2, <2>6 DEF Least2, Changed
    <3> QED BY <2>1, <2>2, <2>3, <2>6, <3>1
  <2>7. CASE n < p(t)
    <3>1. Changed(t, n, p(t)) = IF n = p(t) - 1 /\ chains[t] = None THEN <<>> ELSE chains[t]
      BY <2>2, <2>7 DEF Changed
    <3> QED BY <2>1, <2>2, <2>7, <3>1
  <2> QED BY <2>2, <2>4, <2>5, <2>6, <2>7
<1>8. \A t \in Place : n + 1 >= p(t) => chains'[t] # None
  <2> SUFFICES ASSUME NEW t \in Place, n + 1 >= p(t) PROVE chains'[t] # None
    OBVIOUS
  <2>1. None \notin Seq(AnyRule)
    BY NoneAssumption DEF NoneAssumption
  <2>2. CASE n + 1 > p(t)
    BY <1>7, <2>1, <2>2, TakenIs
  <2>3. CASE n + 1 = p(t)
    <3>1. <<>> \in Seq(AnyRule)
      OBVIOUS
    <3> QED BY <1>7, <2>1, <2>3, <3>1
  <2> QED BY <1>1, <1>5, <2>2, <2>3
<1>9. Begun' /\ Filling'
  <2>1. \A t \in Place : n + 1 > p(t) => chains'[t] = Taken(t, Least2(n - p(t), Size(t)))
    BY <1>7
  <2>2. Filling'
    <3>1. (n + 1) - 1 = n
      BY <1>1
    <3> QED BY <1>1, <1>6, <2>1, <3>1 DEF Filling
  <2>3. ASSUME NEW t \in Place
        PROVE  chains'[t] = None \/ \E k \in 0..Size(t) : chains'[t] = Taken(t, k)
    <3>1. chains[t] = None \/ \E k \in 0..Size(t) : chains[t] = Taken(t, k)
      BY <1>2 DEF Begun
    <3>2. 0 \in 0..Size(t) /\ Taken(t, 0) = <<>>
      BY TakenIs
    <3>3. n + 1 > p(t) \/ n + 1 = p(t) \/ n + 1 < p(t)
      BY <1>1, <1>5
    <3> QED BY <1>7, <3>1, <3>2, <3>3
  <2> QED BY <2>2, <2>3 DEF Begun
<1>10. sets' \subseteq {"auth", "g4", "g6"} /\ jumps' \subseteq Place \X record \cup jumps
       /\ jumps' \subseteq Place \X Iface /\ jumps \subseteq jumps' /\ sets \subseteq sets'
  <2>1. n <= 3 => <<"auth", "g4", "g6">>[n] \in {"auth", "g4", "g6"}
    <3>1. n <= 3 => n = 1 \/ n = 2 \/ n = 3
      BY <1>1
    <3> QED BY <3>1
  <2>2. sets \subseteq {"auth", "g4", "g6"} /\ jumps \subseteq Place \X Iface
    BY <1>2 DEF TypeInv
  <2>3. sets' \subseteq {"auth", "g4", "g6"} /\ sets \subseteq sets'
    BY <1>4, <2>1, <2>2
  <2>4. jumps' \subseteq Place \X record \cup jumps /\ jumps \subseteq jumps'
    BY <1>4
  <2> QED BY <1>1, <2>2, <2>3, <2>4
<1>11. TypeInv'
  <2>1. \A t \in Place : chains'[t] \in Seq(AnyRule) \cup {None}
    BY <1>9, TakenIs DEF Begun
  <2>2. chains' \in [Place -> Seq(AnyRule) \cup {None}]
    BY <1>4, <2>1
  <2> QED BY <1>1, <1>2, <1>4, <1>10, <2>2 DEF TypeInv
<1>12. OneBackend' /\ Fresh' /\ Filled' /\ NftCovers' /\ NftOnly' /\ Shaped'
  BY <1>1, <1>2, <1>4 DEF OneBackend, Fresh, Filled, NftCovers, NftOnly, Shaped
<1>13. JumpsMade'
  <2> SUFFICES ASSUME ~dirty PROVE Done("jump")' \subseteq jumps'
    BY <1>1, <1>3 DEF JumpsMade
  <2>1. Done("jump") \subseteq jumps
    BY <1>1, <1>2 DEF JumpsMade
  <2>2. CASE Current.do = "jump"
    BY <2>1, <2>2, <1>4, DoneMore
  <2>3. CASE Current.do # "jump"
    BY <2>1, <2>3, <1>10, DoneMore
  <2> QED BY <2>2, <2>3
<1>14. NoOtherJumps'
  <2> SUFFICES ASSUME first, ~stale, ~dirty PROVE jumps' \subseteq Place \X record
    BY <1>1, <1>3 DEF NoOtherJumps
  <2>1. jumps \subseteq Place \X record
    BY <1>2, <1>3 DEF NoOtherJumps
  <2> QED BY <2>1, <1>10
<1>15. Ordered'
  <2> SUFFICES ASSUME first, faults = 0
               PROVE  /\ \A m \in 1..3 : m < n + 1 => <<"auth", "g4", "g6">>[m] \in sets'
                      /\ \A t \in Place : n + 1 >= p(t) => chains'[t] # None
                      /\ \A j \in jumps' : n + 1 > p(j[1]) + Size(j[1])
    <3>1. \A j \in jumps' : j[1] \in Place
      BY <1>10
    <3> QED BY <1>1, <1>6, <3>1 DEF Ordered
  <2>1. /\ \A m \in 1..3 : m < n => <<"auth", "g4", "g6">>[m] \in sets
        /\ \A j \in jumps : n > Pos(j[1]) + Size(j[1])
    BY <1>2 DEF Ordered, n
  <2>2. ASSUME NEW m \in 1..3, m < n + 1 PROVE <<"auth", "g4", "g6">>[m] \in sets'
    <3>1. m < n \/ (m = n /\ n <= 3)
      BY <2>2, <1>1
    <3> QED BY <3>1, <2>1, <1>4, <1>10, <1>1
  <2>3. ASSUME NEW j \in jumps' PROVE n + 1 > p(j[1]) + Size(j[1])
    <3>1. n > p(j[1]) + Size(j[1]) /\ j[1] \in Place
      <4>1. CASE j \in jumps
        <5>1. j[1] \in Place
          BY <4>1, <1>2 DEF TypeInv
        <5> QED BY <4>1, <5>1, <2>1, <1>6
      <4>2. CASE j \notin jumps
        BY <4>2, <1>4
      <4> QED BY <4>1, <4>2
    <3> QED BY <3>1, <1>1, <1>5
  <2> QED BY <2>2, <2>3, <1>8
<1> QED BY <1>9, <1>11, <1>12, <1>13, <1>14, <1>15 DEF IInv

-----------------------------------------------------------------------------
(* The theorems                                                            *)

\* Every step keeps the invariant.
LEMMA NextKeeps == IInv /\ [Next]_vars => IInv'
<1> SUFFICES ASSUME IInv, [Next]_vars PROVE IInv'
  OBVIOUS
<1>1. CASE Start
  BY <1>1, StartKeeps
<1>2. CASE Request
  BY <1>2, RequestKeeps
<1>3. CASE Command
  <2>1. InBase \/ InScope
    BY <1>3, CommandIs
  <2> QED BY <2>1, <1>3, NftCommandKeeps, ScopeCommandKeeps, BaseCommandKeeps
<1>4. CASE Finish
  BY <1>4, FinishKeeps
<1>5. CASE Shrug
  BY <1>5, ShrugKeeps
<1>6. CASE Retry
  BY <1>6, RetryKeeps
<1>7. CASE GiveUp
  BY <1>7, GiveUpKeeps
<1>8. CASE Die
  BY <1>8, DieKeeps
<1>9. CASE Reboot
  BY <1>9, RebootKeeps
<1>10. CASE UNCHANGED vars
  <2>1. /\ cfg' = cfg /\ sets' = sets /\ chains' = chains /\ jumps' = jumps /\ nft' = nft
        /\ up' = up /\ record' = record /\ op' = op /\ faults' = faults
        /\ first' = first /\ stale' = stale /\ dirty' = dirty
    BY <1>10 DEF vars, kernel, daemon, bounds, history
  <2>2. (InBase' <=> InBase) /\ (InScope' <=> InScope) /\ (Ipset' <=> Ipset) /\ InForce' = InForce
    BY <2>1 DEF InBase, InScope, Ipset, InForce
  <2>3. Commands' = Commands /\ \A t \in Place : Pos(t)' = Pos(t)
    BY <2>1 DEF Commands, Pos
  <2>4. Done("jump")' = Done("jump") /\ Done("unjump")' = Done("unjump")
    BY <2>1, <2>3 DEF Done
  <2>5. /\ TypeInv /\ OneBackend /\ Begun /\ Filling /\ Filled /\ JumpsMade /\ NoOtherJumps
        /\ Fresh /\ Ordered /\ Shaped /\ NftCovers /\ NftOnly
    BY DEF IInv
  <2>6. TypeInv' /\ OneBackend' /\ Begun' /\ Filled' /\ Fresh' /\ Shaped'
    BY <2>1, <2>2, <2>5 DEF TypeInv, OneBackend, Begun, Filled, Fresh, Shaped
  <2>7. Filling'
    BY <2>1, <2>2, <2>3, <2>5 DEF Filling
  <2>8. JumpsMade' /\ NoOtherJumps'
    BY <2>1, <2>2, <2>4, <2>5 DEF JumpsMade, NoOtherJumps
  <2>9. Ordered'
    <3>1. \A j \in jumps : j[1] \in Place
      BY <2>5 DEF TypeInv
    <3> QED BY <2>1, <2>2, <2>3, <2>5, <3>1 DEF Ordered
  <2>10. NftCovers' /\ NftOnly'
    BY <2>1, <2>2, <2>5 DEF NftCovers, NftOnly, Covers, Only
  <2> QED BY <2>6, <2>7, <2>8, <2>9, <2>10 DEF IInv
<1> QED BY <1>1, <1>2, <1>3, <1>4, <1>5, <1>6, <1>7, <1>8, <1>9, <1>10 DEF Next, Work

\* The invariant holds in every reachable state.
THEOREM Invariance == Spec => []IInv
<1>1. Init => IInv
  BY InitOk
<1>2. IInv /\ [Next]_vars => IInv'
  BY NextKeeps
<1> QED BY <1>1, <1>2, PTL DEF Spec

\* Every packet of a gated interface fares as documented, whatever backend there is, whatever
\* commands failed, also while the scope changes, unless a change failed for good.
THEOREM GatesHold == Spec => []GateHolds
<1>1. IInv => GateHolds
  BY InvGateHolds
<1> QED BY <1>1, Invariance, PTL

\* Whatever fails, dies or is under way, the owner's network is untouched, and an authorized
\* client is never cut off or sent to the portal.
THEOREM OthersAlwaysPass == Spec => []OthersPass
<1>1. IInv => OthersPass
  BY InvOthersPass
<1> QED BY <1>1, Invariance, PTL

\* An interface out of the scope is left alone, in the first daemon since the router
\* started and as long as no removal failed.
THEOREM NothingInExcess == Spec => []NoExcess
<1>1. IInv => NoExcess
  BY InvNoExcess
<1> QED BY <1>1, Invariance, PTL

\* The first daemon's jumps lead to complete chains from the first jump on, while nothing
\* fails: a first boot has no fail-open window.
THEOREM NeverAWindow == Spec => []NoWindow
<1>1. IInv => NoWindow
  BY InvNoWindow
<1> QED BY <1>1, Invariance, PTL
=============================================================================
