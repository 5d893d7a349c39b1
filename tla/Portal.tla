------------------------------- MODULE Portal -------------------------------
(***************************************************************************)
(* The redirect responder: anybody on the hotspot gets at its port, so it  *)
(* limits the rate of each address before it forks `ip neigh`, and sends   *)
(* the client to the portal with a signed identity in the query.           *)
(***************************************************************************)
EXTENDS Naturals, Sequences, FiniteSets, SequencesExt, Neighbours

CONSTANTS
    Capacity,     \* requests a full bucket allows at once
    Unit,         \* clock ticks in which one more is allowed
    MaxKeys,      \* addresses that are tracked at once
    StoreId,      \* the store's name, a sequence of characters
    Reserved,     \* characters that mean something in a URL
    MaxTime,      \* bound: clock ticks
    MaxRequests,  \* bound: requests
    MaxChurn      \* bound: changes of the neighbour table

VARIABLES
    lines,     \* the neighbour table
    buckets,   \* the addresses tracked, with the tokens they have and since when
    now,
    pending,   \* requests admitted whose client is being looked up
    answer,    \* the last answer
    admitted,  \* history: how many requests of each address were admitted when
    requests, churn

vars == <<lines, buckets, now, pending, answer, admitted, requests, churn>>
-----------------------------------------------------------------------------
(* The rate limiter                                                        *)

LesserOf(a, b) == IF a < b THEN a ELSE b

\* What a bucket has by now; a request costs Unit, and a tick brings one.
Refilled(bucket) == LesserOf(bucket.tokens + (now - bucket.last), Capacity * Unit)

\* Mutant: buckets not used for a while are dropped, full or not.
PruneIdle ==
    IF Cardinality(DOMAIN buckets) < MaxKeys THEN buckets
    ELSE [ip \in {ip \in DOMAIN buckets : buckets[ip].last = now} |-> buckets[ip]]

\* Once the map is full, buckets that are full again are dropped.
Prune ==
    IF Cardinality(DOMAIN buckets) < MaxKeys THEN buckets
    ELSE [ip \in {ip \in DOMAIN buckets : Refilled(buckets[ip]) < Capacity * Unit} |->
             buckets[ip]]

\* check_at: what is tracked afterwards, and whether the request is admitted.  An
\* address that is not tracked starts with a full bucket, if there is a place for it.
CheckAt(ip) ==
    LET kept   == Prune
        tokens == IF ip \in DOMAIN kept THEN Refilled(kept[ip]) ELSE Capacity * Unit
        left   == IF tokens >= Unit THEN tokens - Unit ELSE tokens
    IN  IF ip \notin DOMAIN kept /\ Cardinality(DOMAIN kept) >= MaxKeys
        THEN [buckets |-> kept, allowed |-> FALSE]
        ELSE [buckets |-> [i \in DOMAIN kept \cup {ip} |->
                              IF i = ip THEN [tokens |-> left, last |-> now] ELSE kept[i]],
              allowed |-> tokens >= Unit]
-----------------------------------------------------------------------------
(* The signed location                                                     *)

\* Characters: a text is a sequence of them.  An escape is the "%XX" of a character, and
\* the digest is one character, which no two different messages or keys share.
Char(c)   == <<"char", c>>
Escape(c) == <<"escape", c>>
Digits(n) == <<"digits", n>>
Digest(message) == <<"digest", message>>

\* update_message: the message that is signed.
Message(mac, store, ts) == mac \o <<Char("|")>> \o store \o <<Char("|"), Digits(ts)>>

Sign(mac, store, ts) == <<Digest(Message(mac, store, ts))>>

Verify(mac, store, ts, sig) == sig = Sign(mac, store, ts)

\* The canonical text of an address.
MacText(m) == <<Char(m), Char(":")>>

\* Mutant: a value as it is.
EncodeAsIs(s) == s

\* encode_query_value: every reserved character becomes an escape.
Encode(s) == [n \in DOMAIN s |-> IF s[n] \in Reserved THEN Escape(s[n]) ELSE s[n]]

\* build_location, from the query on: each parameter with its value.
Parameter(key, value) == <<Char(key), Char("=")>> \o value

Location(mac, store, ts, sig) ==
    Parameter("mac", Encode(mac)) \o <<Char("&")>> \o Parameter("nas_id", Encode(store))
        \o <<Char("&")>> \o Parameter("ts", <<Digits(ts)>>)
        \o <<Char("&")>> \o Parameter("sig", Encode(sig))

\* What the control plane reads under a key: a query is cut at "&", a parameter begins
\* with its key and "=", and escapes are undone.
ValueOf(query, key) ==
    LET cuts  == {0, Len(query) + 1} \cup {n \in DOMAIN query : query[n] = Char("&")}
        start == CHOOSE n \in cuts : n < Len(query) /\ query[n + 1] = Char(key)
        end   == CHOOSE n \in cuts : n > start /\ \A k \in cuts : k > start => k >= n
        value == SubSeq(query, start + 3, end - 1)
    IN  [n \in DOMAIN value |-> IF value[n][1] = "escape" THEN value[n][2] ELSE value[n]]
-----------------------------------------------------------------------------
(* Requests                                                                *)

Answer(ip, status, mac, location) ==
    [ip |-> ip, status |-> status, mac |-> mac, location |-> location]

\* handle: the rate is checked before anything else.
Request(ip) ==
    /\ requests < MaxRequests /\ requests' = requests + 1
    /\ buckets' = CheckAt(ip).buckets
    /\ IF CheckAt(ip).allowed
       THEN /\ pending' = Append(pending, ip) /\ UNCHANGED answer
            /\ admitted' = [admitted EXCEPT ![ip][now] = @ + 1]
       ELSE /\ answer' = Answer(ip, 429, <<>>, <<>>) /\ UNCHANGED <<pending, admitted>>
    /\ UNCHANGED <<lines, now, churn>>

Done(n) == pending' = RemoveAt(pending, n)

\* respond: the lookup found somebody, who is sent to the portal ...
Redirect(n) ==
    /\ n \in DOMAIN pending /\ Resolve(lines, pending[n]) # <<>>
    /\ LET mac == MacText(Head(Resolve(lines, pending[n])).lladdr)
       IN  answer' = Answer(pending[n], 302, mac, Location(mac, StoreId, now, Sign(mac, StoreId, now)))
    /\ Done(n) /\ UNCHANGED <<lines, buckets, now, admitted, requests, churn>>

\* ... or nobody ...
Unknown(n) ==
    /\ n \in DOMAIN pending /\ Resolve(lines, pending[n]) = <<>>
    /\ answer' = Answer(pending[n], 404, <<>>, <<>>)
    /\ Done(n) /\ UNCHANGED <<lines, buckets, now, admitted, requests, churn>>

\* ... or failed.
Unavailable(n) ==
    /\ n \in DOMAIN pending /\ answer' = Answer(pending[n], 503, <<>>, <<>>)
    /\ Done(n) /\ UNCHANGED <<lines, buckets, now, admitted, requests, churn>>

\* Clients come, go and change their addresses.
Churn ==
    /\ churn < MaxChurn /\ churn' = churn + 1
    /\ \E line \in Line : lines' \in {Append(lines, line), <<line>>}
    /\ UNCHANGED <<buckets, now, pending, answer, admitted, requests>>

Clock ==
    /\ now < MaxTime /\ now' = now + 1
    /\ UNCHANGED <<lines, buckets, pending, answer, admitted, requests, churn>>

Init ==
    /\ lines = <<>> /\ buckets = <<>> /\ now = 0 /\ pending = <<>>
    /\ answer = Answer("nobody", 0, <<>>, <<>>)
    /\ admitted = [ip \in Ip |-> [t \in 0..MaxTime |-> 0]]
    /\ requests = 0 /\ churn = 0

Next ==
    \/ \E ip \in Ip : Request(ip)
    \/ \E n \in 1..MaxRequests : Redirect(n) \/ Unknown(n) \/ Unavailable(n)
    \/ Churn \/ Clock

Spec == Init /\ [][Next]_vars
-----------------------------------------------------------------------------
(* Properties                                                              *)

\* What an address got through since a moment.
Since(ip, t) == FoldFunctionOnSet(+, 0, admitted[ip], t..now)

\* In every stretch of time an address gets at most a burst and what the time allows,
\* although buckets are dropped when too many addresses call; and never are more
\* addresses tracked than the bound.
WithinRate ==
    /\ Cardinality(DOMAIN buckets) <= MaxKeys
    /\ \A ip \in Ip, t \in 0..now : Since(ip, t) * Unit <= Capacity * Unit + (now - t)

\* The portal reads from the location the identity the client had when it was looked up,
\* whatever the store's name contains, and the signature of that identity.
PortalTrusts ==
    answer.status = 302 =>
        LET read(key) == ValueOf(answer.location, key)
        IN  /\ read("mac") = answer.mac
            /\ Verify(read("mac"), read("nas_id"), read("ts")[1][2], read("sig"))
=============================================================================
