-------------------------- MODULE RebaselineProofs --------------------------
(***************************************************************************)
(* That the control plane comes to know every session (Rebaselined of      *)
(* ControlChannel), for any number of clients, commands, lost streams and  *)
(* deaths, and any size of the buffers.  The argument follows one client's *)
(* session through the frames still to be read: what the control plane     *)
(* will take for it once it has read them all agrees with the table.       *)
(***************************************************************************)
EXTENDS ControlChannelProofs, WellFoundedInduction

-----------------------------------------------------------------------------
(* What a reader makes of a sequence of frames                             *)

\* The frames that say what a client's session is, and what they say.
Tells(f, m) == f.type = "hello" \/ (f.type = "event" /\ f.kind = "granted" /\ f.mac = m)
Told(f, m)  == IF f.type = "hello" THEN f.active[m] ELSE f.id

Telling(s, m) == {n \in DOMAIN s : Tells(s[n], m)}
Latest(s, m)  == CHOOSE n \in Telling(s, m) : \A k \in Telling(s, m) : k <= n

\* What the reader holds after the last of them, if it held b before; and whether a final
\* event of that session follows.
Held(b, s, m)   == IF Telling(s, m) = {} THEN b ELSE Told(s[Latest(s, m)], m)
Ended(s, m, id) == \E n \in DOMAIN s : (\A k \in Telling(s, m) : k < n) /\ s[n] = Final(m, id)

\* What it takes for m's session when it held b and has read s.
After(b, s, m) == IF Ended(s, m, Held(b, s, m)) THEN None ELSE Held(b, s, m)

LEMMA LeastNat ==
    ASSUME NEW T \in SUBSET Nat, T # {}
    PROVE  \E n \in T : \A k \in T : n <= k
<1>1. PICK n \in T : \A k \in T : ~(<<k, n>> \in OpToRel(<, Nat))
  BY NatLessThanWellFounded, WFMin, Zenon
<1>2. ASSUME NEW k \in T PROVE n <= k
  <2>1. ~(k < n)
    BY <1>1 DEF OpToRel
  <2> QED BY <2>1
<1> QED BY <1>2

\* There is a last one.
LEMMA LatestIs ==
    ASSUME NEW S, NEW s \in Seq(S), NEW m, Telling(s, m) # {}
    PROVE  /\ Latest(s, m) \in Telling(s, m)
           /\ \A k \in Telling(s, m) : k <= Latest(s, m)
<1> DEFINE L == Len(s)
           T == {L - n : n \in Telling(s, m)}
<1>1. L \in Nat /\ Telling(s, m) \subseteq 1..L
  BY LenProperties DEF Telling
<1>2. T \in SUBSET Nat /\ T # {}
  BY <1>1
<1>3. PICK d \in T : \A e \in T : d <= e
  BY <1>2, LeastNat
<1>4. PICK n \in Telling(s, m) : d = L - n
  OBVIOUS
<1>5. ASSUME NEW k \in Telling(s, m) PROVE k <= n
  <2>1. L - n <= L - k
    BY <1>3, <1>4
  <2>2. n \in Nat /\ k \in Nat
    BY <1>1
  <2> QED BY <1>1, <2>1, <2>2
<1> QED BY <1>5 DEF Latest

LEMMA LatestOnly ==
    ASSUME NEW S, NEW s \in Seq(S), NEW m, NEW n \in Telling(s, m),
           \A k \in Telling(s, m) : k <= n
    PROVE  Latest(s, m) = n
<1>1. Latest(s, m) \in Telling(s, m) /\ n <= Latest(s, m)
  BY LatestIs
<1>2. Latest(s, m) <= n /\ n \in Nat /\ Latest(s, m) \in Nat
  BY <1>1, LenProperties DEF Telling
<1> QED BY <1>1, <1>2

\* Where the frames of a sequence in two parts are, and which of them tell.
LEMMA TellingJoined ==
    ASSUME NEW S, NEW s \in Seq(S), NEW t \in Seq(S), NEW m
    PROVE  /\ \A n \in DOMAIN s : n \in DOMAIN (s \o t) /\ (s \o t)[n] = s[n]
           /\ \A n \in DOMAIN t : n + Len(s) \in DOMAIN (s \o t) /\ (s \o t)[n + Len(s)] = t[n]
           /\ \A n \in DOMAIN (s \o t) : n \in DOMAIN s \/ \E j \in DOMAIN t : n = j + Len(s)
           /\ Len(s) \in Nat /\ DOMAIN s = 1..Len(s) /\ DOMAIN t \subseteq Nat \ {0}
           /\ \A n \in Telling(s, m) : n \in Telling(s \o t, m)
           /\ \A n \in Telling(t, m) : n + Len(s) \in Telling(s \o t, m)
           /\ \A n \in Telling(s \o t, m) : n \in Telling(s, m)
                                            \/ \E j \in Telling(t, m) : n = j + Len(s)
<1> DEFINE u == s \o t
           k == Len(s)
           l == Len(t)
<1>1. /\ k \in Nat /\ DOMAIN s = 1..k /\ l \in Nat /\ DOMAIN t = 1..l
      /\ DOMAIN u = 1..(k + l)
      /\ \A i \in 1..(k + l) : u[i] = IF i <= k THEN s[i] ELSE t[i - k]
  <2>1. /\ u \in Seq(S) /\ Len(u) = Len(s) + Len(t)
        /\ \A i \in 1..(k + l) : u[i] = IF i <= k THEN s[i] ELSE t[i - k]
    BY ConcatProperties
  <2> QED BY <2>1, LenProperties
<1> HIDE DEF u, k, l
<1>2. \A n \in DOMAIN s : n \in DOMAIN u /\ u[n] = s[n]
  BY <1>1
<1>3. \A n \in DOMAIN t : n + k \in DOMAIN u /\ u[n + k] = t[n]
  <2> SUFFICES ASSUME NEW n \in 1..l PROVE n + k \in 1..(k + l) /\ u[n + k] = t[n]
    BY <1>1
  <2>1. n + k \in 1..(k + l) /\ ~(n + k <= k) /\ (n + k) - k = n
    BY <1>1
  <2> QED BY <1>1, <2>1
<1>4. \A n \in DOMAIN u : n \in DOMAIN s \/ \E j \in DOMAIN t : n = j + k
  <2> SUFFICES ASSUME NEW n \in 1..(k + l), n \notin 1..k PROVE \E j \in 1..l : n = j + k
    BY <1>1
  <2>1. n - k \in 1..l /\ n = (n - k) + k
    BY <1>1
  <2> QED BY <2>1
<1>5. DOMAIN t \subseteq Nat \ {0}
  BY <1>1
<1>6. /\ \A n \in Telling(s, m) : n \in Telling(u, m)
      /\ \A n \in Telling(t, m) : n + k \in Telling(u, m)
  BY <1>2, <1>3 DEF Telling
<1>7. \A n \in Telling(u, m) : n \in Telling(s, m) \/ \E j \in Telling(t, m) : n = j + k
  <2> SUFFICES ASSUME NEW n \in Telling(u, m), n \notin Telling(s, m)
               PROVE  \E j \in Telling(t, m) : n = j + k
    OBVIOUS
  <2>1. n \in DOMAIN u /\ Tells(u[n], m)
    BY DEF Telling
  <2>2. n \notin DOMAIN s
    BY <1>2, <2>1 DEF Telling
  <2>3. PICK j \in DOMAIN t : n = j + k
    BY <1>4, <2>1, <2>2
  <2>4. j \in Telling(t, m)
    BY <1>3, <2>1, <2>3 DEF Telling
  <2> QED BY <2>3, <2>4
<1> QED BY <1>1, <1>2, <1>3, <1>4, <1>5, <1>6, <1>7 DEF u, k

\* To read two sequences is to read the second after the first.
LEMMA AfterJoined ==
    ASSUME NEW S, NEW s \in Seq(S), NEW t \in Seq(S), NEW m, NEW b
    PROVE  After(b, s \o t, m) = After(After(b, s, m), t, m)
<1> DEFINE u == s \o t
           k == Len(s)
           c == After(b, s, m)
<1>1. /\ \A n \in DOMAIN s : n \in DOMAIN u /\ u[n] = s[n]
      /\ \A n \in DOMAIN t : n + k \in DOMAIN u /\ u[n + k] = t[n]
      /\ \A n \in DOMAIN u : n \in DOMAIN s \/ \E j \in DOMAIN t : n = j + k
      /\ k \in Nat /\ DOMAIN s = 1..k /\ DOMAIN t \subseteq Nat \ {0}
      /\ \A n \in Telling(s, m) : n \in Telling(u, m)
      /\ \A n \in Telling(t, m) : n + k \in Telling(u, m)
      /\ \A n \in Telling(u, m) : n \in Telling(s, m) \/ \E j \in Telling(t, m) : n = j + k
  BY TellingJoined
<1>2. /\ u \in Seq(S) /\ Telling(s, m) \subseteq 1..k
      /\ Telling(t, m) \subseteq DOMAIN t
  BY <1>1, ConcatProperties DEF Telling
<1> HIDE DEF u, k
<1>3. CASE Telling(t, m) # {}
  <2> DEFINE j == Latest(t, m)
             v == Told(t[j], m)
  <2>1. j \in Telling(t, m) /\ \A i \in Telling(t, m) : i <= j
    BY <1>3, LatestIs
  <2>2. j \in DOMAIN t /\ j \in Nat
    BY <1>1, <1>2, <2>1
  <2> HIDE DEF j
  <2>3. j + k \in Telling(u, m)
    BY <1>1, <2>1
  <2>4. ASSUME NEW n \in Telling(u, m) PROVE n <= j + k
    <3>1. CASE n \in Telling(s, m)
      <4>1. n \in 1..k
        BY <1>2, <3>1
      <4> QED BY <1>1, <2>2, <4>1
    <3>2. CASE \E i \in Telling(t, m) : n = i + k
      <4>1. PICK i \in Telling(t, m) : n = i + k
        BY <3>2
      <4>2. i <= j /\ i \in Nat
        BY <1>1, <1>2, <2>1
      <4> QED BY <1>1, <2>2, <4>1, <4>2
    <3> QED BY <1>1, <3>1, <3>2
  <2>5. Latest(u, m) = j + k
    BY <1>2, <2>3, <2>4, LatestOnly
  <2>6. Held(b, u, m) = v /\ Held(c, t, m) = v
    BY <1>1, <1>3, <2>2, <2>3, <2>5 DEF Held, j
  <2>7. Ended(t, m, v) => Ended(u, m, v)
    <3> SUFFICES ASSUME NEW i \in DOMAIN t, \A n \in Telling(t, m) : n < i, t[i] = Final(m, v)
                 PROVE  Ended(u, m, v)
      BY DEF Ended
    <3>1. i + k \in DOMAIN u /\ u[i + k] = Final(m, v) /\ i \in Nat /\ j < i
      BY <1>1, <2>1
    <3>2. \A n \in Telling(u, m) : n < i + k
      <4> SUFFICES ASSUME NEW n \in Telling(u, m) PROVE n < i + k
        OBVIOUS
      <4>1. n <= j + k
        BY <2>4
      <4>2. n \in Nat
        BY <1>2, LenProperties DEF Telling
      <4> QED BY <1>1, <2>2, <3>1, <4>1, <4>2
    <3> QED BY <3>1, <3>2 DEF Ended
  <2>8. Ended(u, m, v) => Ended(t, m, v)
    <3> SUFFICES ASSUME NEW n \in DOMAIN u, \A i \in Telling(u, m) : i < n, u[n] = Final(m, v)
                 PROVE  Ended(t, m, v)
      BY DEF Ended
    <3>1. j + k < n
      BY <2>3
    <3>2. PICK i \in DOMAIN t : n = i + k
      <4>1. n \notin 1..k
        BY <1>1, <2>2, <3>1
      <4> QED BY <1>1, <4>1
    <3>3. t[i] = Final(m, v)
      BY <1>1, <3>2
    <3>4. \A h \in Telling(t, m) : h < i
      <4> SUFFICES ASSUME NEW h \in Telling(t, m) PROVE h < i
        OBVIOUS
      <4>1. h + k < i + k
        BY <1>1, <3>2
      <4>2. h \in Nat /\ i \in Nat
        BY <1>1, <1>2
      <4> QED BY <1>1, <4>1, <4>2
    <3> QED BY <3>3, <3>4 DEF Ended
  <2> QED BY <2>6, <2>7, <2>8 DEF After, u
<1>4. CASE Telling(t, m) = {}
  <2> DEFINE v == Held(b, s, m)
  <2>1. Telling(u, m) = Telling(s, m)
    BY <1>1, <1>4
  <2>2. Held(b, u, m) = v
    <3>1. CASE Telling(s, m) = {}
      BY <2>1, <3>1 DEF Held
    <3>2. CASE Telling(s, m) # {}
      <4>1. Latest(s, m) \in DOMAIN s
        BY <3>2, LatestIs DEF Telling
      <4>2. Latest(u, m) = Latest(s, m)
        BY <2>1 DEF Latest
      <4> QED BY <1>1, <2>1, <3>2, <4>1, <4>2 DEF Held
    <3> QED BY <3>1, <3>2
  <2>3. Held(c, t, m) = c
    BY <1>4 DEF Held
  <2> HIDE DEF v
  <2>4. Ended(u, m, v) <=> Ended(s, m, v) \/ Ended(t, m, v)
    <3>1. Ended(s, m, v) => Ended(u, m, v)
      BY <1>1, <2>1 DEF Ended
    <3>2. Ended(t, m, v) => Ended(u, m, v)
      <4> SUFFICES ASSUME NEW i \in DOMAIN t, t[i] = Final(m, v) PROVE Ended(u, m, v)
        BY DEF Ended
      <4>1. i + k \in DOMAIN u /\ u[i + k] = Final(m, v) /\ i \in Nat \ {0}
        BY <1>1
      <4>2. \A n \in Telling(u, m) : n < i + k
        BY <1>1, <1>2, <2>1, <4>1
      <4> QED BY <4>1, <4>2 DEF Ended
    <3>3. Ended(u, m, v) => Ended(s, m, v) \/ Ended(t, m, v)
      <4> SUFFICES ASSUME NEW n \in DOMAIN u, \A i \in Telling(u, m) : i < n, u[n] = Final(m, v)
                   PROVE  Ended(s, m, v) \/ Ended(t, m, v)
        BY DEF Ended
      <4>1. CASE n \in DOMAIN s
        BY <1>1, <2>1, <4>1 DEF Ended
      <4>2. CASE \E i \in DOMAIN t : n = i + k
        BY <1>1, <1>4, <4>2 DEF Ended
      <4> QED BY <1>1, <4>1, <4>2
    <3> QED BY <3>1, <3>2, <3>3
  <2>5. c = IF Ended(s, m, v) THEN None ELSE v
    BY DEF After, v
  <2>6. After(c, t, m) = IF Ended(t, m, c) THEN None ELSE c
    BY <2>3 DEF After
  <2>7. After(b, u, m) = IF Ended(u, m, v) THEN None ELSE v
    BY <2>2 DEF After
  <2> HIDE DEF c
  <2>8. After(b, u, m) = After(c, t, m)
    BY <2>4, <2>5, <2>6, <2>7
  <2> QED BY <2>8 DEF u, c
<1> QED BY <1>3, <1>4

\* To read nothing changes nothing, to read one frame is to take it, and a frame about
\* something else says nothing.
LEMMA AfterNothing == \A b, m : After(b, <<>>, m) = b
BY DEF After, Held, Ended, Telling

LEMMA AfterOne ==
    ASSUME NEW f, NEW b, NEW m
    PROVE  After(b, <<f>>, m) = IF Tells(f, m) THEN Told(f, m)
                                ELSE IF f = Final(m, b) THEN None ELSE b
<1> DEFINE s == <<f>>
<1>1. DOMAIN s = {1} /\ s[1] = f /\ s \in Seq({f})
  OBVIOUS
<1> HIDE DEF s
<1>2. CASE Tells(f, m)
  <2>1. Telling(s, m) = {1}
    BY <1>1, <1>2 DEF Telling
  <2>2. Latest(s, m) = 1
    BY <1>1, <2>1, LatestOnly
  <2>3. Held(b, s, m) = Told(f, m)
    BY <1>1, <2>1, <2>2 DEF Held
  <2>4. ~Ended(s, m, Told(f, m))
    BY <1>1, <2>1 DEF Ended
  <2> QED BY <1>2, <2>3, <2>4 DEF After, s
<1>3. CASE ~Tells(f, m)
  <2>1. Telling(s, m) = {}
    BY <1>1, <1>3 DEF Telling
  <2>2. Held(b, s, m) = b
    BY <2>1 DEF Held
  <2>3. Ended(s, m, b) <=> f = Final(m, b)
    BY <1>1, <2>1 DEF Ended
  <2> QED BY <1>3, <2>2, <2>3 DEF After, s
<1> QED BY <1>2, <1>3

\* A sequence that tells something makes what was held before irrelevant.
LEMMA AfterAny ==
    ASSUME NEW s, NEW m, NEW b, NEW c
    PROVE  /\ Telling(s, m) # {} => After(b, s, m) = After(c, s, m)
           /\ Telling(s, m) = {} =>
                 After(b, s, m) = IF \E n \in DOMAIN s : s[n] = Final(m, b) THEN None ELSE b
<1>1. Telling(s, m) # {} => Held(b, s, m) = Held(c, s, m)
  BY DEF Held
<1>2. Telling(s, m) = {} => Held(b, s, m) = b
  BY DEF Held
<1>3. Telling(s, m) = {} => (Ended(s, m, b) <=> \E n \in DOMAIN s : s[n] = Final(m, b))
  BY DEF Ended
<1> QED BY <1>1, <1>2, <1>3 DEF After

LEMMA AfterQuiet ==
    ASSUME NEW s, NEW m, NEW b, \A n \in DOMAIN s : s[n].type \notin {"hello", "event"}
    PROVE  After(b, s, m) = b
<1>1. Telling(s, m) = {}
  BY DEF Telling, Tells
<1>2. \A n \in DOMAIN s : s[n] # Final(m, b)
  BY DEF Final, Event
<1> QED BY <1>1, <1>2, AfterAny

\* What the control plane makes of one frame.
LEMMA LearnedIs ==
    ASSUME NEW f \in Frame, NEW m \in Mac, view \in [Mac -> SessionId \cup {None}]
    PROVE  Learned(f)[m] = After(view[m], <<f>>, m)
<1> USE DEF Learned, Tells, Told
<1>1. CASE f \in SessionEvent
  <2>0. f.type = "event" /\ f.mac \in Mac /\ f.kind \in {"granted", "final"}
        /\ f = [type |-> "event", kind |-> f.kind, mac |-> f.mac, id |-> f.id]
    BY <1>1 DEF SessionEvent
  <2>1. CASE f.kind = "granted"
    <3>1. f # Final(m, view[m])
      BY <2>1 DEF Final, Event
    <3>2. (Tells(f, m) <=> f.mac = m) /\ Told(f, m) = f.id
      BY <2>0, <2>1
    <3>3. After(view[m], <<f>>, m) = IF f.mac = m THEN f.id ELSE view[m]
      BY <3>1, <3>2, AfterOne
    <3>4. Learned(f) = [view EXCEPT ![f.mac] = f.id]
      BY <2>0, <2>1
    <3> QED BY <2>0, <3>3, <3>4
  <2>2. CASE f.kind = "final"
    <3>1. f = Final(m, view[m]) <=> f.mac = m /\ f.id = view[m]
      BY <2>0, <2>2 DEF Final, Event
    <3>2. ~Tells(f, m)
      BY <2>0, <2>2
    <3>3. After(view[m], <<f>>, m) = IF f = Final(m, view[m]) THEN None ELSE view[m]
      BY <3>2, AfterOne
    <3>4. Learned(f) = IF view[f.mac] = f.id THEN [view EXCEPT ![f.mac] = None] ELSE view
      BY <2>0, <2>2
    <3> QED BY <2>0, <3>1, <3>3, <3>4
  <2> QED BY <2>0, <2>1, <2>2
<1>2. CASE f.type = "hello"
  <2>1. Tells(f, m) /\ Told(f, m) = f.active[m] /\ Learned(f) = f.active
    BY <1>2
  <2> QED BY <2>1, AfterOne
<1>3. CASE f \notin SessionEvent /\ f.type # "hello"
  <2>1. f.type \in {"report", "row", "answer"}
    BY <1>3 DEF Frame
  <2>2. f # Final(m, view[m])
    BY <2>1 DEF Final, Event
  <2> QED BY <2>1, <2>2, AfterOne
<1> QED BY <1>1, <1>2, <1>3

\* What an event does to what is held.
LEMMA AfterEvent ==
    ASSUME NEW e \in SessionEvent, NEW b, NEW m
    PROVE  After(b, <<e>>, m) = IF e.kind = "granted" /\ e.mac = m THEN e.id
                                ELSE IF e = Final(m, b) THEN None ELSE b
<1>1. (Tells(e, m) <=> e.kind = "granted" /\ e.mac = m) /\ Told(e, m) = e.id
  BY DEF Tells, Told, SessionEvent
<1> QED BY <1>1, AfterOne

-----------------------------------------------------------------------------
(* The invariants                                                          *)

\* The event that the command in its handler is about to emit.
Unsaid == IF job = None THEN None ELSE job.event

\* The session ids in use: in the table, in a teardown, in the ring, or about to be
\* announced.  An id that a grant still brings is above all of them, and above those of
\* the grants before it.
Used(x) ==
    \/ \E m \in Mac : table[m] = x \/ <<m, x>> \in ending
    \/ \E n \in DOMAIN ring : ring[n].id = x
    \/ Unsaid # None /\ Unsaid.id = x

Fresh(k) == k \in 1..grants /\ \A x \in SessionId : Used(x) => x < k

Bringing == job # None /\ job.event = None /\ job.cmd.kind = "grant"

Ordered ==
    /\ \A x \in SessionId : Used(x) => x <= grants
    /\ Bringing => Fresh(job.cmd.id)
    /\ \A n \in DOMAIN inq : inq[n].kind = "grant" =>
          /\ Fresh(inq[n].id)
          /\ Bringing => job.cmd.id < inq[n].id
          /\ \A k \in DOMAIN inq : n < k /\ inq[k].kind = "grant" => inq[n].id < inq[k].id

\* A session in the table is not ended anywhere.
Gone ==
    \A m \in Mac, x \in SessionId \ {Adopted} :
        table[m] = x => /\ <<m, x>> \notin ending
                        /\ \A n \in DOMAIN ring : ring[n] # Final(m, x)
                        /\ Unsaid # Final(m, x)

\* A grant that is about to be announced is in the table, or its end is about to be
\* announced, or is announced already.
Announcing(m) == Unsaid # None /\ Unsaid.kind = "granted" /\ Unsaid.mac = m

Pending ==
    \A m \in Mac : Announcing(m) =>
        /\ Unsaid.id # Adopted
        /\ \/ table[m] = Unsaid.id
           \/ table[m] \in {None, Adopted} /\ (<<m, Unsaid.id>> \in ending \/ Unsaid.id \in early)

\* Its end is still to be announced, or was announced before it was.
Ending(m, v) == <<m, v>> \in ending \/ (Unsaid # None /\ Unsaid = Final(m, v)) \/ v \in early

\* What waits in the ring tells the table, to a reader that held nothing: also when the
\* oldest of it is lost.
Truth(m, seq) ==
    IF table[m] \in {None, Adopted}
    THEN After(None, seq, m) = None \/ Ending(m, After(None, seq, m))
    ELSE After(table[m], seq, m) = table[m]

RingTrue == \A m \in Mac : ~Announcing(m) => Truth(m, ring)

\* What the control plane may take for m's session when it has read every frame.
Consistent(m, v) ==
    \/ Announcing(m)
    \/ v = table[m]
    \/ table[m] \in {None, Adopted} /\ v # None /\ Ending(m, v)
    \/ table[m] = Adopted /\ v = None

Frames == (outq \o todo) \o ring

WireTrue ==
    (link = "up" \/ pc = "attach") /\ ~missed =>
        \A m \in Mac : Consistent(m, After(view[m], Frames, m))

Known == Ordered /\ Gone /\ Pending /\ RingTrue /\ WireTrue

\* With nothing on its way, what the control plane takes for the table agrees with it.
LEMMA KnownIsRebaselined == TypeInv /\ Known => Rebaselined
<1> SUFFICES ASSUME TypeInv, Known, Drained, ~missed, NEW m \in Mac PROVE Agrees(m)
  BY DEF Rebaselined
<1>1. /\ link = "up" /\ ending = {} /\ job = None /\ (ring \o todo) \o outq = <<>>
      /\ ring \in Seq(Frame) /\ todo \in Seq(Frame) /\ outq \in Seq(Frame)
  <2>1. ring \in Seq(SessionEvent) /\ SessionEvent \subseteq Frame
    BY FrameTypes DEF TypeInv, Typed
  <2>2. ring \in Seq(Frame)
    BY <2>1, SeqMonotonic
  <2> QED BY <2>2 DEF Drained, TypeInv, Typed
<1>2. ring = <<>> /\ todo = <<>> /\ outq = <<>>
  <2>1. ring \o todo \in Seq(Frame)
    BY <1>1, ConcatProperties
  <2>2. ring \o todo = <<>> /\ outq = <<>>
    BY <1>1, <2>1, ConcatEqualIffEmpty
  <2> QED BY <1>1, <2>2, ConcatEqualIffEmpty
<1>3. Frames = <<>>
  BY <1>2, ConcatEmptySeq, EmptySeq DEF Frames
<1>4. Consistent(m, view[m])
  BY <1>1, <1>3, AfterNothing DEF Known, WireTrue
<1> QED BY <1>1, <1>4 DEF Consistent, Announcing, Ending, Unsaid, Agrees

-----------------------------------------------------------------------------
(* The session ids                                                         *)

LEMMA InitKnown == Init => Known
<1> SUFFICES ASSUME Init PROVE Known
  OBVIOUS
<1> USE NoneAssumption
<1>1. ~(\E x \in SessionId : Used(x))
  BY DEF Init, Used, Unsaid
<1>2. Ordered
  BY <1>1 DEF Init, Ordered, Bringing
<1>3. Gone /\ Pending
  BY DEF Init, Gone, Pending, Announcing, Unsaid
<1>4. RingTrue
  BY AfterNothing DEF Init, RingTrue, Truth
<1>5. WireTrue
  BY DEF Init, WireTrue
<1> QED BY <1>2, <1>3, <1>4, <1>5 DEF Known

\* A step that brings no new id into use keeps them in order.
LEMMA OrderedKept ==
    ASSUME TypeInv, Ordered, grants' = grants,
           \A x \in SessionId \ {Adopted} : Used(x)' => Used(x),
           Bringing' => Bringing /\ job'.cmd = job.cmd,
           inq' = inq \/ inq' = <<>>
    PROVE  Ordered'
<1> USE DEF Adopted, SessionId
<1>0. grants \in Nat /\ MaxGrants \in Nat
  BY Bounds DEF TypeInv, Typed
<1>1. \A x \in SessionId : Used(x)' => x <= grants'
  BY <1>0 DEF Ordered
<1>2. \A k : Fresh(k) => Fresh(k)'
  BY <1>0 DEF Fresh
<1>3. Bringing' => Fresh(job.cmd.id)'
  BY <1>2 DEF Ordered
<1>4. inq' = inq => \A n \in DOMAIN inq' : inq'[n].kind = "grant" =>
          /\ Fresh(inq[n].id)'
          /\ Bringing' => job'.cmd.id < inq'[n].id
          /\ \A k \in DOMAIN inq' : n < k /\ inq'[k].kind = "grant" => inq'[n].id < inq'[k].id
  BY <1>2 DEF Ordered
<1> QED BY <1>1, <1>3, <1>4 DEF Ordered

\* A command is taken in hand: if it is a grant, it is the first of those that wait.
LEMMA TakenOrdered ==
    ASSUME TypeInv, Ordered, TakeCommand
    PROVE  Ordered'
<1> DEFINE h == Head(inq)
<1>1. /\ inq # <<>> /\ inq' = Tail(inq) /\ job = None /\ job' = [cmd |-> h, event |-> None]
      /\ UNCHANGED <<table, ending, ring, grants>>
  BY DEF TakeCommand, manager, events, bounds, TypeInv, Placed
<1>2. /\ h = inq[1] /\ 1 \in DOMAIN inq /\ inq' \in Seq(Command)
      /\ \A n \in DOMAIN inq' : n + 1 \in DOMAIN inq /\ inq'[n] = inq[n + 1] /\ 1 < n + 1 /\ n \in Nat
  <2>1. inq \in Seq(Command) /\ inq # <<>>
    BY <1>1 DEF TypeInv, Typed
  <2>2. /\ Head(inq) = inq[1] /\ Tail(inq) \in Seq(Command) /\ Len(Tail(inq)) = Len(inq) - 1
        /\ \A i \in 1..Len(Tail(inq)) : Tail(inq)[i] = inq[i + 1]
        /\ Len(inq) \in Nat \ {0} /\ DOMAIN inq = 1..Len(inq) /\ DOMAIN Tail(inq) = 1..Len(Tail(inq))
    BY <2>1, HeadTailProperties, LenProperties, EmptySeq
  <2> HIDE DEF h
  <2>3. \A n \in DOMAIN Tail(inq) : n + 1 \in DOMAIN inq /\ Tail(inq)[n] = inq[n + 1] /\ 1 < n + 1 /\ n \in Nat
    BY <2>2
  <2> QED BY <1>1, <2>2, <2>3 DEF h
<1>3. job'.cmd = h /\ job'.event = None
  BY <1>1
<1> HIDE DEF h
<1>4. \A x : Used(x)' => Used(x)
  BY <1>1, <1>3 DEF Used, Unsaid
<1>5. \A k : Fresh(k) => Fresh(k)'
  BY <1>1, <1>4 DEF Fresh
<1>6. \A n \in DOMAIN inq : inq[n].kind = "grant" =>
          /\ Fresh(inq[n].id)
          /\ \A k \in DOMAIN inq : n < k /\ inq[k].kind = "grant" => inq[n].id < inq[k].id
  BY DEF Ordered
<1>7. \A x \in SessionId : Used(x)' => x <= grants'
  BY <1>1, <1>4 DEF Ordered
<1>8. Bringing' => Fresh(job.cmd.id)'
  BY <1>2, <1>3, <1>5, <1>6 DEF Bringing
<1>9. ASSUME NEW n \in DOMAIN inq', inq'[n].kind = "grant"
      PROVE  /\ Fresh(inq[n].id)'
             /\ Bringing' => job'.cmd.id < inq'[n].id
             /\ \A k \in DOMAIN inq' : n < k /\ inq'[k].kind = "grant" => inq'[n].id < inq'[k].id
  <2>1. n + 1 \in DOMAIN inq /\ inq'[n] = inq[n + 1] /\ 1 < n + 1 /\ n \in Nat
    BY <1>2
  <2>2. Fresh(inq[n].id)'
    BY <1>5, <1>6, <1>9, <2>1
  <2>3. Bringing' => job'.cmd.id < inq'[n].id
    BY <1>2, <1>3, <1>6, <1>9, <2>1 DEF Bringing
  <2>4. ASSUME NEW k \in DOMAIN inq', n < k, inq'[k].kind = "grant" PROVE inq'[n].id < inq'[k].id
    <3>1. k + 1 \in DOMAIN inq /\ inq'[k] = inq[k + 1] /\ k \in Nat
      BY <1>2
    <3>2. n + 1 < k + 1
      BY <2>1, <2>4, <3>1
    <3> QED BY <1>6, <1>9, <2>1, <2>4, <3>1, <3>2
  <2> QED BY <2>2, <2>3, <2>4
<1> QED BY <1>7, <1>8, <1>9 DEF Ordered

\* A grant brings its id into use.
LEMMA GrantOrdered ==
    ASSUME TypeInv, Ordered, Grant
    PROVE  Ordered'
<1>1. /\ job # None /\ job.event = None /\ job.cmd.kind = "grant" /\ job.cmd \in Command
      /\ table' = [table EXCEPT ![job.cmd.mac] = job.cmd.id]
      /\ job' = [job EXCEPT !.event = Granted(job.cmd.mac, job.cmd.id)]
      /\ UNCHANGED <<ending, ring, inq, grants>>
  BY DEF Grant, Handling, events, stream, bounds, TypeInv, Typed, Placed, Job
<1>2. /\ job.cmd.mac \in Mac /\ job.cmd.id \in SessionId
      /\ Granted(job.cmd.mac, job.cmd.id) \in SessionEvent
      /\ job'.event = Granted(job.cmd.mac, job.cmd.id) /\ job'.event.id = job.cmd.id
      /\ job'.event # None /\ table \in [Mac -> SessionId \cup {None}]
  <2>1. job.cmd.mac \in Mac /\ job.cmd.id \in SessionId
    BY <1>1, JobTypes
  <2>2. Granted(job.cmd.mac, job.cmd.id) \in SessionEvent
    BY <2>1, FrameTypes
  <2>3. job'.event = Granted(job.cmd.mac, job.cmd.id)
    BY <1>1 DEF TypeInv, Typed, Job
  <2> QED BY <2>1, <2>2, <2>3, NoneAssumption DEF Granted, Event, TypeInv, Typed
<1>3. Bringing /\ ~Bringing'
  BY <1>1, <1>2 DEF Bringing
<1>4. Fresh(job.cmd.id)
  BY <1>3 DEF Ordered
<1>5. ASSUME NEW x, Used(x)' PROVE Used(x) \/ x = job.cmd.id
  <2>1. \A m \in Mac : table'[m] = table[m] \/ table'[m] = job.cmd.id
    BY <1>1, <1>2
  <2> QED BY <1>1, <1>2, <1>5, <2>1 DEF Used, Unsaid
<1>6. \A x \in SessionId : Used(x)' => x <= grants'
  BY <1>1, <1>4, <1>5 DEF Ordered, Fresh
<1>7. ASSUME NEW n \in DOMAIN inq', inq'[n].kind = "grant"
      PROVE  /\ Fresh(inq[n].id)'
             /\ \A k \in DOMAIN inq' : n < k /\ inq'[k].kind = "grant" => inq'[n].id < inq'[k].id
  <2>1. /\ Fresh(inq[n].id) /\ job.cmd.id < inq[n].id
        /\ \A k \in DOMAIN inq : n < k /\ inq[k].kind = "grant" => inq[n].id < inq[k].id
    BY <1>1, <1>3, <1>7 DEF Ordered
  <2>2. Fresh(inq[n].id)'
    BY <1>1, <1>5, <2>1 DEF Fresh
  <2> QED BY <1>1, <2>1, <2>2
<1> QED BY <1>3, <1>6, <1>7 DEF Ordered

\* The control plane gives out the next id.
LEMMA AskOrdered ==
    ASSUME TypeInv, Ordered, Ask
    PROVE  Ordered'
<1>1. UNCHANGED <<table, ending, ring, job>>
  BY DEF Ask, manager, events
<1>2. PICK cmd \in Command :
         /\ inq' = Append(inq, cmd)
         /\ cmd.kind = "grant" => grants' = grants + 1 /\ cmd.id = grants + 1
         /\ cmd.kind # "grant" => grants' = grants
  <2>1. PICK kind \in Kinds, m \in Mac :
           /\ kind = "grant" => grants < MaxGrants
           /\ grants' = IF kind = "grant" THEN grants + 1 ELSE grants
           /\ inq' = Append(inq, [kind |-> kind, mac |-> m, cid |-> asks + 1,
                                  id |-> IF kind = "grant" THEN grants + 1 ELSE 0])
    BY DEF Ask
  <2> DEFINE id == IF kind = "grant" THEN grants + 1 ELSE 0
             cmd == [kind |-> kind, mac |-> m, cid |-> asks + 1, id |-> id]
  <2>2. id \in SessionId
    <3>1. grants \in 0..MaxGrants
      BY DEF TypeInv, Typed
    <3> QED BY <2>1, <3>1, Bounds DEF SessionId
  <2>3. asks + 1 \in 1..MaxAsks
    <3>1. asks \in 0..MaxAsks /\ asks < MaxAsks
      BY DEF TypeInv, Typed, Ask
    <3> QED BY <3>1, Bounds
  <2>4. cmd \in Command /\ cmd.kind = kind /\ cmd.id = id
    BY <2>2, <2>3 DEF Command
  <2> QED BY <2>1, <2>4
<1>3. grants \in Nat /\ grants <= grants' /\ grants' \in Nat
  <2>1. grants \in Nat
    BY Bounds DEF TypeInv, Typed
  <2> QED BY <1>2, <2>1
<1>4. \A x : Used(x)' => Used(x)
  BY <1>1 DEF Used, Unsaid
<1>5. \A k : Fresh(k) => Fresh(k)'
  BY <1>3, <1>4 DEF Fresh
<1>6. \A x \in SessionId : Used(x)' => x <= grants'
  BY <1>3, <1>4, Bounds DEF Ordered, SessionId
<1>7. cmd.kind = "grant" => Fresh(cmd.id)'
  BY <1>2, <1>3, <1>4, Bounds DEF Ordered, Fresh, SessionId
<1>8. Bringing' => Bringing /\ Fresh(job.cmd.id)' /\ Fresh(job.cmd.id) /\ job'.cmd.id = job.cmd.id
  BY <1>1, <1>5 DEF Ordered, Bringing
<1>9. /\ \A n \in DOMAIN inq' : (n \in DOMAIN inq /\ inq'[n] = inq[n]) \/ (n = Len(inq) + 1 /\ inq'[n] = cmd)
      /\ \A n \in DOMAIN inq : n <= Len(inq) /\ n \in Nat
      /\ Len(inq) \in Nat
  <2>1. inq \in Seq(Command)
    BY DEF TypeInv, Typed
  <2>2. /\ inq' \in Seq(Command) /\ Len(inq') = Len(inq) + 1 /\ Len(inq) \in Nat
        /\ \A i \in 1..Len(inq) : inq'[i] = inq[i]
        /\ inq'[Len(inq) + 1] = cmd
    BY <1>2, <2>1, AppendProperties, LenProperties
  <2>3. DOMAIN inq = 1..Len(inq) /\ DOMAIN inq' = 1..(Len(inq) + 1)
    BY <2>1, <2>2, LenProperties
  <2>4. Len(inq) \in Nat
    BY <2>2
  <2>5. \A n \in 1..(Len(inq) + 1) : n \in 1..Len(inq) \/ n = Len(inq) + 1
    BY <2>4
  <2>6. \A n \in DOMAIN inq' : (n \in DOMAIN inq /\ inq'[n] = inq[n]) \/ (n = Len(inq) + 1 /\ inq'[n] = cmd)
    BY <2>2, <2>3, <2>5
  <2>7. \A n \in DOMAIN inq : n <= Len(inq) /\ n \in Nat
    BY <2>3, <2>4
  <2> QED BY <2>4, <2>6, <2>7
<1>10. \A n \in DOMAIN inq : inq[n].kind = "grant" => Fresh(inq[n].id)
  BY DEF Ordered
<1>11. ASSUME NEW n \in DOMAIN inq', inq'[n].kind = "grant"
       PROVE  /\ Fresh(inq[n].id)'
              /\ Bringing' => job'.cmd.id < inq'[n].id
              /\ \A k \in DOMAIN inq' : n < k /\ inq'[k].kind = "grant" => inq'[n].id < inq'[k].id
  <2>1. CASE n \in DOMAIN inq /\ inq'[n] = inq[n]
    <3>1. Fresh(inq[n].id) /\ (Bringing => job.cmd.id < inq[n].id)
      BY <1>11, <2>1 DEF Ordered
    <3>2. ASSUME NEW k \in DOMAIN inq', n < k, inq'[k].kind = "grant" PROVE inq'[n].id < inq'[k].id
      <4>1. CASE k \in DOMAIN inq /\ inq'[k] = inq[k]
        BY <1>11, <2>1, <3>2, <4>1 DEF Ordered
      <4>2. CASE inq'[k] = cmd
        BY <1>2, <1>3, <2>1, <3>1, <3>2, <4>2 DEF Fresh
      <4> QED BY <1>9, <4>1, <4>2
    <3> QED BY <1>5, <1>8, <2>1, <3>1, <3>2
  <2>2. CASE n = Len(inq) + 1 /\ inq'[n] = cmd
    <3>1. Bringing' => job'.cmd.id < inq'[n].id
      BY <1>2, <1>3, <1>8, <1>11, <2>2 DEF Fresh
    <3>2. \A k \in DOMAIN inq' : ~(n < k)
      BY <1>9, <2>2
    <3> QED BY <1>7, <1>11, <2>2, <3>1, <3>2
  <2> QED BY <1>9, <2>1, <2>2
<1> QED BY <1>6, <1>8, <1>11 DEF Ordered

-----------------------------------------------------------------------------
(* What the ring tells                                                     *)

LEMMA TailIs ==
    ASSUME NEW S, NEW s \in Seq(S), s # <<>>
    PROVE  Tail(s) \in Seq(S) /\ \A n \in DOMAIN Tail(s) : \E k \in DOMAIN s : Tail(s)[n] = s[k]
<1> DEFINE t == Tail(s)
           k == Len(s)
           l == Len(t)
<1>1. /\ t \in Seq(S) /\ l = k - 1 /\ k \in Nat /\ l \in Nat /\ DOMAIN s = 1..k /\ DOMAIN t = 1..l
      /\ \A i \in 1..l : t[i] = s[i + 1]
  BY HeadTailProperties, LenProperties
<1> HIDE DEF t, k, l
<1>2. \A i \in 1..l : i + 1 \in 1..k
  BY <1>1
<1>3. \A i \in 1..l : t[i] = s[i + 1]
  BY <1>1
<1>4. \A n \in DOMAIN t : \E i \in DOMAIN s : t[n] = s[i]
  BY <1>1, <1>2, <1>3
<1> QED BY <1>1, <1>4 DEF t

LEMMA AppendIs ==
    ASSUME NEW S, NEW s \in Seq(S), NEW e \in S
    PROVE  \A n \in DOMAIN Append(s, e) : Append(s, e)[n] = e \/ \E k \in DOMAIN s : Append(s, e)[n] = s[k]
<1> DEFINE t == Append(s, e)
           k == Len(s)
           l == Len(t)
<1>1. /\ l = k + 1 /\ k \in Nat /\ DOMAIN s = 1..k /\ DOMAIN t = 1..l
      /\ \A i \in 1..k : t[i] = s[i]
      /\ t[k + 1] = e
  BY AppendProperties, LenProperties
<1> HIDE DEF t, k, l
<1>2. \A n \in 1..l : n \in 1..k \/ n = k + 1
  BY <1>1
<1>3. \A n \in DOMAIN t : t[n] = e \/ \E i \in DOMAIN s : t[n] = s[i]
  BY <1>1, <1>2
<1> QED BY <1>3 DEF t

\* A broadcast appends its event, to the ring or, if that is full, to its tail.
LEMMA EmitIs ==
    ASSUME TypeInv, NEW e \in SessionEvent, Emit(e)
    PROVE  \E r \in Seq(SessionEvent) :
              /\ ring' = r \o <<e>>
              /\ r = ring \/ (ring # <<>> /\ r = Tail(ring))
              /\ ~missed' => r = ring /\ ~missed
              /\ \A n \in DOMAIN ring' : ring'[n] = e \/ \E k \in DOMAIN ring : ring'[n] = ring[k]
<1> DEFINE r == IF Len(ring) = RingSize THEN Tail(ring) ELSE ring
<1>1. ring \in Seq(SessionEvent) /\ Len(ring) \in Nat /\ (Len(ring) = RingSize => ring # <<>>)
  BY Sizes, LenProperties DEF TypeInv, Typed
<1>2. /\ r \in Seq(SessionEvent)
      /\ r = ring \/ (ring # <<>> /\ r = Tail(ring))
      /\ \A n \in DOMAIN r : \E k \in DOMAIN ring : r[n] = ring[k]
  <2>1. CASE Len(ring) = RingSize
    BY <1>1, <2>1, TailIs
  <2>2. CASE Len(ring) # RingSize
    BY <1>1, <2>2
  <2> QED BY <2>1, <2>2
<1>3. ring' = Append(r, e) /\ (~missed' => r = ring /\ ~missed)
  BY DEF Emit
<1> HIDE DEF r
<1>4. ring' = r \o <<e>>
  BY <1>2, <1>3, AppendIsConcat
<1>5. \A n \in DOMAIN ring' : ring'[n] = e \/ \E k \in DOMAIN ring : ring'[n] = ring[k]
  <2>1. \A n \in DOMAIN Append(r, e) :
           Append(r, e)[n] = e \/ \E k \in DOMAIN r : Append(r, e)[n] = r[k]
    BY <1>2, AppendIs
  <2> QED BY <1>2, <1>3, <2>1
<1>6. /\ r \in Seq(SessionEvent) /\ ring' = r \o <<e>>
      /\ r = ring \/ (ring # <<>> /\ r = Tail(ring))
      /\ ~missed' => r = ring /\ ~missed
  BY <1>2, <1>3, <1>4
<1> QED BY <1>5, <1>6, Zenon

LEMMA TailRing ==
    ASSUME TypeInv, ring # <<>>
    PROVE  /\ Tail(ring) \in Seq(SessionEvent)
           /\ \A n \in DOMAIN Tail(ring) : \E k \in DOMAIN ring : Tail(ring)[n] = ring[k]
BY TailIs DEF TypeInv, Typed

\* No final event of a session in the table waits in the ring, so that what the ring tells
\* is still told when its oldest event is gone.
LEMMA ShorterTruth ==
    ASSUME TypeInv, Gone, NEW m \in Mac, Truth(m, ring), ring # <<>>
    PROVE  Truth(m, Tail(ring))
<1> DEFINE t == Tail(ring)
           h == Head(ring)
<1>1. h \in SessionEvent /\ t \in Seq(SessionEvent) /\ ring = <<h>> \o t /\ <<h>> \in Seq(SessionEvent)
  BY HeadTailProperties, HeadFirst DEF TypeInv, Typed
<1>2. \A n \in DOMAIN t : \E k \in DOMAIN ring : t[n] = ring[k]
  BY TailRing
<1> HIDE DEF t, h
<1>3. \A b : After(b, ring, m) = After(After(b, <<h>>, m), t, m)
  <2> DEFINE g == <<h>>
  <2>1. ring = g \o t /\ g \in Seq(SessionEvent) /\ t \in Seq(SessionEvent)
    BY <1>1
  <2> HIDE DEF g
  <2>2. \A b : After(b, g \o t, m) = After(After(b, g, m), t, m)
    BY <2>1, AfterJoined
  <2> QED BY <2>1, <2>2 DEF g
<1>4. CASE Telling(t, m) # {}
  <2>1. \A b : After(b, ring, m) = After(b, t, m)
    BY <1>3, <1>4, AfterAny
  <2> QED BY <2>1 DEF Truth, t
<1>5. CASE Telling(t, m) = {}
  <2>1. \A b : After(b, t, m) = IF \E n \in DOMAIN t : t[n] = Final(m, b) THEN None ELSE b
    BY <1>5, AfterAny
  <2>2. After(None, t, m) = None
    BY <2>1
  <2>3. table[m] \notin {None, Adopted} => After(table[m], t, m) = table[m]
    <3>1. table[m] \notin {None, Adopted} => table[m] \in SessionId \ {Adopted}
      BY DEF TypeInv, Typed
    <3>2. table[m] \notin {None, Adopted} => \A n \in DOMAIN ring : ring[n] # Final(m, table[m])
      BY <3>1 DEF Gone
    <3>3. table[m] \notin {None, Adopted} => ~(\E n \in DOMAIN t : t[n] = Final(m, table[m]))
      BY <1>2, <3>2
    <3> QED BY <2>1, <3>3
  <2> QED BY <2>2, <2>3 DEF Truth, t
<1> QED BY <1>4, <1>5

\* What the ring tells a reader that holds the table.
LEMMA TruthIsConsistent ==
    ASSUME TypeInv, RingTrue, NEW m \in Mac
    PROVE  Consistent(m, After(table[m], ring, m))
<1>1. CASE Announcing(m)
  BY <1>1 DEF Consistent
<1>2. CASE ~Announcing(m) /\ table[m] \notin {None, Adopted}
  BY <1>2 DEF RingTrue, Truth, Consistent
<1>3. CASE ~Announcing(m) /\ table[m] = None
  BY <1>3 DEF RingTrue, Truth, Consistent
<1>4. CASE ~Announcing(m) /\ table[m] = Adopted
  <2>1. After(None, ring, m) = None \/ Ending(m, After(None, ring, m))
    BY <1>4 DEF RingTrue, Truth
  <2>2. CASE Telling(ring, m) # {}
    <3>1. After(table[m], ring, m) = After(None, ring, m)
      BY <2>2, AfterAny
    <3> QED BY <1>4, <2>1, <3>1 DEF Consistent
  <2>3. CASE Telling(ring, m) = {}
    <3>1. After(table[m], ring, m) \in {None, table[m]}
      BY <2>3, AfterAny
    <3> QED BY <1>4, <3>1 DEF Consistent
  <2> QED BY <2>2, <2>3
<1> QED BY <1>1, <1>2, <1>3, <1>4

-----------------------------------------------------------------------------
(* Steps                                                                   *)

LEMMA UnsaidTypes == ASSUME TypeInv PROVE Unsaid \in SessionEvent \cup {None}
BY DEF Unsaid, TypeInv, Typed, Job

\* A step that changes no session and emits nothing keeps what is known of them.
LEMMA SameSessions ==
    ASSUME Gone, Pending, RingTrue, UNCHANGED <<table, ending, ring, early, Unsaid>>
    PROVE  Gone' /\ Pending' /\ RingTrue'
<1>1. Gone'
  BY DEF Gone
<1>2. Pending'
  BY DEF Pending, Announcing
<1>3. RingTrue'
  BY DEF RingTrue, Truth, Announcing, Ending
<1> QED BY <1>1, <1>2, <1>3

LEMMA SameConsistent ==
    ASSUME UNCHANGED <<table, ending, early, Unsaid>>, NEW m, NEW v, Consistent(m, v)
    PROVE  Consistent(m, v)'
BY DEF Consistent, Announcing, Ending

\* The frames still to be read, in three parts.
LEMMA FramesIn ==
    ASSUME TypeInv
    PROVE  /\ outq \in Seq(Frame) /\ todo \in Seq(Frame) /\ ring \in Seq(Frame)
           /\ outq \o todo \in Seq(Frame) /\ Frames \in Seq(Frame)
<1>1. ring \in Seq(SessionEvent) /\ SessionEvent \subseteq Frame
  BY FrameTypes DEF TypeInv, Typed
<1>2. ring \in Seq(Frame)
  BY <1>1, SeqMonotonic
<1>3. outq \in Seq(Frame) /\ todo \in Seq(Frame)
  BY DEF TypeInv, Typed
<1>4. outq \o todo \in Seq(Frame)
  BY <1>3, ConcatProperties
<1>5. Frames \in Seq(Frame)
  BY <1>2, <1>4, ConcatProperties DEF Frames
<1> QED BY <1>2, <1>3, <1>4, <1>5

\* A step of the stream that leaves the frames as they are, or puts one that tells nothing
\* where no frame was.
LEMMA SameFrames ==
    ASSUME TypeInv, WireTrue, UNCHANGED <<table, ending, ring, missed, early, Unsaid, outq, view>>,
           link' = "up" \/ pc' = "attach" => link = "up" \/ pc = "attach",
           \/ todo' = todo
           \/ /\ todo = <<>> /\ todo' \in Seq(Frame)
              /\ \A n \in DOMAIN todo' : todo'[n].type \notin {"hello", "event"}
    PROVE  WireTrue'
<1> SUFFICES ASSUME (link = "up" \/ pc = "attach")', ~missed', NEW m \in Mac
             PROVE  Consistent(m, After(view[m], Frames, m))'
  BY DEF WireTrue
<1>0. PICK v : v = After(view[m], Frames, m)
  OBVIOUS
<1>1. Consistent(m, v)
  BY <1>0 DEF WireTrue
<1>2. v = After(view[m], Frames, m)'
  <2>1. CASE todo' = todo
    BY <1>0, <2>1 DEF Frames
  <2>2. CASE todo' # todo
    <3> DEFINE q == todo'
               r == ring
               o == outq
               b == view[m]
               oq == o \o q
    <3>1. /\ todo = <<>> /\ q \in Seq(Frame) /\ o \in Seq(Frame) /\ r \in Seq(Frame)
          /\ \A n \in DOMAIN q : q[n].type \notin {"hello", "event"}
      BY <2>2, FramesIn
    <3>2. Frames' = oq \o r /\ Frames = (o \o <<>>) \o r /\ view'[m] = b
      BY <3>1 DEF Frames
    <3> HIDE DEF q, r, o, b
    <3>3. oq \in Seq(Frame) /\ o \o <<>> = o
      BY <3>1, ConcatProperties, ConcatEmptySeq
    <3>4. After(b, oq, m) = After(After(b, o, m), q, m)
      BY <3>1, AfterJoined
    <3> HIDE DEF oq
    <3>5. After(b, oq \o r, m) = After(After(b, oq, m), r, m)
      BY <3>1, <3>3, AfterJoined
    <3>6. After(After(b, o, m), q, m) = After(b, o, m)
      BY <3>1, AfterQuiet
    <3>7. After(b, o \o r, m) = After(After(b, o, m), r, m)
      BY <3>1, AfterJoined
    <3>8. After(view'[m], Frames', m) = After(b, o \o r, m)
      BY <3>2, <3>4, <3>5, <3>6, <3>7
    <3>9. v = After(b, o \o r, m)
      BY <1>0, <3>2, <3>3 DEF b
    <3> QED BY <3>8, <3>9
  <2> QED BY <2>1, <2>2
<1>3. Consistent(m, v)'
  BY <1>1, SameConsistent
<1> QED BY <1>2, <1>3 DEF Consistent, Announcing, Ending

\* An event that is emitted is the last frame to be read, unless the ring overran.
LEMMA EmitFrames ==
    ASSUME TypeInv, NEW e \in SessionEvent, Emit(e), ~missed', UNCHANGED <<outq, view>>,
           \/ todo' = todo
           \/ /\ todo = <<>> /\ todo' \in Seq(Frame)
              /\ \A n \in DOMAIN todo' : todo'[n].type \notin {"hello", "event"},
           NEW m \in Mac
    PROVE  After(view[m], Frames, m)' = After(After(view[m], Frames, m), <<e>>, m)
<1> DEFINE o == outq
           p == todo
           q == todo'
           r == ring
           b == view[m]
           one == <<e>>
           oq == o \o q
           ore == r \o one
<1>1. /\ o \in Seq(Frame) /\ p \in Seq(Frame) /\ q \in Seq(Frame) /\ r \in Seq(Frame)
      /\ one \in Seq(Frame)
      /\ \/ p = q
         \/ p = <<>> /\ \A n \in DOMAIN q : q[n].type \notin {"hello", "event"}
  <2>1. e \in Frame
    BY FrameTypes
  <2> QED BY <2>1, FramesIn
<1>2. ring' = r \o one
  BY EmitIs
<1>3. Frames' = oq \o ore /\ Frames = (o \o p) \o r /\ view'[m] = b
  BY <1>2 DEF Frames
<1> HIDE DEF o, p, q, r, b, one
<1>4. ore \in Seq(Frame) /\ \A c : After(c, ore, m) = After(After(c, r, m), one, m)
  BY <1>1, ConcatProperties, AfterJoined
<1>5. oq \in Seq(Frame) /\ After(b, oq, m) = After(After(b, o, m), q, m)
  BY <1>1, ConcatProperties, AfterJoined
<1> HIDE DEF ore, oq
<1>6. After(b, oq \o ore, m) = After(After(b, oq, m), ore, m)
  BY <1>4, <1>5, AfterJoined
<1>7. After(After(b, o, m), q, m) = After(After(b, o, m), p, m)
  <2>1. CASE p = q
    BY <2>1
  <2>2. CASE p = <<>> /\ \A n \in DOMAIN q : q[n].type \notin {"hello", "event"}
    BY <2>2, AfterQuiet, AfterNothing
  <2> QED BY <1>1, <2>1, <2>2
<1>8. After(b, (o \o p) \o r, m) = After(After(After(b, o, m), p, m), r, m)
  <2> DEFINE op == o \o p
  <2>1. op \in Seq(Frame) /\ After(b, op, m) = After(After(b, o, m), p, m)
    BY <1>1, ConcatProperties, AfterJoined
  <2> HIDE DEF op
  <2>2. After(b, op \o r, m) = After(After(b, op, m), r, m)
    BY <1>1, <2>1, AfterJoined
  <2> QED BY <2>1, <2>2 DEF op
<1>9. After(view'[m], Frames', m) = After(After(After(After(b, o, m), p, m), r, m), one, m)
  BY <1>3, <1>4, <1>5, <1>6, <1>7
<1>10. After(view[m], Frames, m) = After(After(After(b, o, m), p, m), r, m)
  BY <1>3, <1>8 DEF b
<1> QED BY <1>9, <1>10 DEF one

\* What the control plane holds is a session id or nothing.
LEMMA HeldTypes ==
    ASSUME NEW S, NEW s \in Seq(S), S \subseteq Frame, NEW m \in Mac, NEW b \in SessionId \cup {None}
    PROVE  After(b, s, m) \in SessionId \cup {None}
<1>1. CASE Telling(s, m) = {}
  BY <1>1, AfterAny
<1>2. CASE Telling(s, m) # {}
  <2>1. Latest(s, m) \in DOMAIN s /\ Tells(s[Latest(s, m)], m)
    BY <1>2, LatestIs DEF Telling
  <2>2. s[Latest(s, m)] \in Frame
    BY <2>1, LenProperties, ElementOfSeq
  <2>3. Held(b, s, m) \in SessionId \cup {None}
    BY <1>2, <2>1, <2>2 DEF Held, Told, Tells, Frame, SessionEvent
  <2> QED BY <2>3 DEF After
<1> QED BY <1>1, <1>2

\* The end of a session: its table entry goes, and its end is to be announced.
LEMMA EndsKnown ==
    ASSUME TypeInv, Gone, Pending, RingTrue, NEW a \in Mac, table[a] # None,
           table' = [table EXCEPT ![a] = None],
           \/ /\ ending' = ending \cup {<<a, table[a]>>} /\ Unsaid' = Unsaid
           \/ ending' = ending /\ Unsaid = None /\ Unsaid' = Final(a, table[a]),
           UNCHANGED <<ring, early>>
    PROVE  /\ Gone' /\ Pending' /\ RingTrue'
           /\ \A m \in Mac : \A v : Consistent(m, v) => Consistent(m, v)'
<1>0. PICK T : T = table[a]
  OBVIOUS
<1>1. /\ table \in [Mac -> SessionId \cup {None}] /\ table' \in [Mac -> SessionId \cup {None}]
      /\ table'[a] = None /\ \A m \in Mac \ {a} : table'[m] = table[m]
      /\ table[a] \in SessionId /\ None \notin SessionId /\ Final(a, table[a]) \in SessionEvent
      /\ Final(a, table[a]) # None
  BY NoneAssumption, FrameTypes DEF TypeInv, Typed
<1>2. ASSUME NEW m PROVE Announcing(m)' <=> Announcing(m)
  BY <1>1 DEF Announcing, Final, Event
<1>3. ASSUME NEW m \in Mac, NEW v, Ending(m, v) PROVE Ending(m, v)'
  BY <1>3 DEF Ending
<1>4. Ending(a, T)'
  BY <1>0, <1>1 DEF Ending
<1>5. Gone'
  <2> SUFFICES ASSUME NEW m \in Mac, NEW x \in SessionId \ {Adopted}, table'[m] = x
               PROVE  /\ <<m, x>> \notin ending'
                      /\ \A n \in DOMAIN ring' : ring'[n] # Final(m, x)
                      /\ Unsaid' # Final(m, x)
    BY DEF Gone
  <2>1. m # a /\ table[m] = x
    BY <1>1
  <2>2. <<m, x>> # <<a, table[a]>> /\ Final(m, x) # Final(a, table[a])
    BY <2>1 DEF Final, Event
  <2> QED BY <2>1, <2>2 DEF Gone
<1>6. Pending'
  <2> SUFFICES ASSUME NEW m \in Mac, Announcing(m)
               PROVE  /\ Unsaid'.id # Adopted
                      /\ \/ table'[m] = Unsaid'.id
                         \/ table'[m] \in {None, Adopted} /\ (<<m, Unsaid'.id>> \in ending' \/ Unsaid'.id \in early')
    BY <1>2 DEF Pending
  <2>1. Unsaid' = Unsaid /\ ending' = ending \cup {<<a, table[a]>>}
    BY DEF Announcing
  <2>2. /\ Unsaid.id # Adopted
        /\ \/ table[m] = Unsaid.id
           \/ table[m] \in {None, Adopted} /\ (<<m, Unsaid.id>> \in ending \/ Unsaid.id \in early)
    BY DEF Pending
  <2> QED BY <1>1, <2>1, <2>2
<1>7. RingTrue'
  <2> SUFFICES ASSUME NEW m \in Mac, ~Announcing(m) PROVE Truth(m, ring)'
    BY <1>2 DEF RingTrue
  <2>1. Truth(m, ring)
    BY DEF RingTrue
  <2>2. CASE m # a
    <3>1. table'[m] = table[m]
      BY <1>1, <2>2
    <3>2. \A v : Ending(m, v) => Ending(m, v)'
      BY <1>3
    <3> QED BY <2>1, <3>1, <3>2 DEF Truth
  <2>3. CASE m = a /\ table[a] = Adopted
    <3>1. After(None, ring, a) = None \/ Ending(a, After(None, ring, a))
      BY <2>1, <2>3 DEF Truth
    <3>2. After(None, ring, a) = None \/ Ending(a, After(None, ring, a))'
      BY <3>1 DEF Ending
    <3> QED BY <1>1, <2>3, <3>2 DEF Truth
  <2>4. CASE m = a /\ table[a] # Adopted
    <3>1. After(table[a], ring, a) = table[a]
      BY <1>1, <2>1, <2>4 DEF Truth
    <3>2. After(None, ring, a) = None \/ After(None, ring, a) = table[a]
      BY <3>1, AfterAny
    <3>3. After(None, ring, a) = None \/ Ending(a, After(None, ring, a))'
      BY <1>0, <1>4, <3>2 DEF Ending
    <3> QED BY <1>1, <2>4, <3>3 DEF Truth
  <2> QED BY <2>2, <2>3, <2>4
<1>8. ASSUME NEW m \in Mac, NEW v, Consistent(m, v) PROVE Consistent(m, v)'
  <2>1. CASE Announcing(m)
    BY <1>2, <2>1 DEF Consistent
  <2>2. CASE m # a
    BY <1>1, <1>2, <1>3, <1>8, <2>2 DEF Consistent
  <2>3. CASE m = a /\ ~Announcing(m)
    <3>1. CASE v = table[a]
      BY <1>0, <1>1, <1>4, <2>3, <3>1 DEF Consistent
    <3>2. CASE v # None /\ Ending(a, v)
      BY <1>1, <1>3, <2>3, <3>2 DEF Consistent
    <3>3. CASE v = None
      BY <1>1, <2>3, <3>3 DEF Consistent
    <3> QED BY <1>8, <2>3, <3>1, <3>2, <3>3 DEF Consistent
  <2> QED BY <2>1, <2>2, <2>3
<1> QED BY <1>5, <1>6, <1>7, <1>8

LEMMA AdoptKnown ==
    ASSUME TypeInv, Gone, Pending, RingTrue, NEW a \in Mac, table[a] = None,
           table' = [table EXCEPT ![a] = Adopted], UNCHANGED <<ending, ring, early, Unsaid>>
    PROVE  /\ Gone' /\ Pending' /\ RingTrue'
           /\ \A m \in Mac : \A v : Consistent(m, v) => Consistent(m, v)'
<1>1. /\ table'[a] = Adopted /\ \A m \in Mac \ {a} : table'[m] = table[m]
      /\ \A m \in Mac : Announcing(m)' <=> Announcing(m)
      /\ \A m \in Mac : \A v : Ending(m, v)' <=> Ending(m, v)
  BY DEF TypeInv, Typed, Announcing, Ending
<1>2. Gone'
  BY <1>1 DEF Gone
<1>3. Unsaid \in SessionEvent \cup {None} /\ None \notin SessionId
  BY UnsaidTypes, NoneAssumption
<1>4. Pending'
  <2> SUFFICES ASSUME NEW m \in Mac, Announcing(m)
               PROVE  /\ Unsaid.id # Adopted
                      /\ \/ table'[m] = Unsaid.id
                         \/ /\ table'[m] \in {None, Adopted}
                            /\ <<m, Unsaid.id>> \in ending \/ Unsaid.id \in early
    BY <1>1 DEF Pending
  <2>1. Unsaid.id # None
    BY <1>3 DEF Announcing, SessionEvent
  <2> QED BY <1>1, <2>1 DEF Pending
<1>5. \A m \in Mac : table[m] \in {None, Adopted} => table'[m] \in {None, Adopted}
  BY <1>1
<1>6. \A m \in Mac : table[m] \notin {None, Adopted} => table'[m] = table[m]
  BY <1>1
<1>7. RingTrue'
  <2> SUFFICES ASSUME NEW m \in Mac, ~Announcing(m) PROVE Truth(m, ring)'
    BY <1>1 DEF RingTrue
  <2>1. Truth(m, ring)
    BY DEF RingTrue
  <2>2. CASE table[m] \in {None, Adopted}
    <3>1. After(None, ring, m) = None \/ Ending(m, After(None, ring, m))
      BY <2>1, <2>2 DEF Truth
    <3>2. After(None, ring, m) = None \/ Ending(m, After(None, ring, m))'
      BY <3>1 DEF Ending
    <3> QED BY <1>5, <2>2, <3>2 DEF Truth
  <2>3. CASE table[m] \notin {None, Adopted}
    BY <1>6, <2>1, <2>3 DEF Truth
  <2> QED BY <2>2, <2>3
<1>8. ASSUME NEW m \in Mac, NEW v, Consistent(m, v) PROVE Consistent(m, v)'
  BY <1>1, <1>8 DEF Consistent
<1> QED BY <1>2, <1>4, <1>7, <1>8

\* A grant takes the place of the client's session, and is about to be announced.
LEMMA GrantKnown ==
    ASSUME TypeInv, Gone, Pending, RingTrue, NEW a \in Mac, NEW id \in SessionId, Fresh(id),
           table' = [table EXCEPT ![a] = id], Unsaid = None, Unsaid' = Granted(a, id),
           UNCHANGED <<ending, ring, early>>
    PROVE  /\ Gone' /\ Pending' /\ RingTrue'
           /\ \A m \in Mac : \A v : Consistent(m, v) => Consistent(m, v)'
<1>1. /\ table'[a] = id /\ \A m \in Mac \ {a} : table'[m] = table[m]
      /\ Granted(a, id) \in SessionEvent /\ Granted(a, id) # None
      /\ \A m, x : Granted(a, id) # Final(m, x)
      /\ Granted(a, id).kind = "granted" /\ Granted(a, id).mac = a /\ Granted(a, id).id = id
  <2>1. table'[a] = id /\ \A m \in Mac \ {a} : table'[m] = table[m]
    BY DEF TypeInv, Typed
  <2>2. Granted(a, id) \in SessionEvent /\ Granted(a, id) # None
    BY FrameTypes, NoneAssumption
  <2>3. /\ \A m, x : Granted(a, id) # Final(m, x)
        /\ Granted(a, id).kind = "granted" /\ Granted(a, id).mac = a /\ Granted(a, id).id = id
    BY DEF Granted, Final, Event
  <2> QED BY <2>1, <2>2, <2>3
<1>2. /\ \A m : ~Announcing(m)
      /\ \A m : Announcing(m)' <=> m = a
      /\ \A m, v : Ending(m, v) => Ending(m, v)'
  BY <1>1 DEF Announcing, Ending
<1>3. id # Adopted /\ ~Used(id)
  <2>1. grants \in Nat /\ MaxGrants \in Nat
    BY Bounds DEF TypeInv, Typed
  <2> QED BY <2>1 DEF Fresh, Adopted, SessionId
<1>4. Gone'
  <2> SUFFICES ASSUME NEW m \in Mac, NEW x \in SessionId \ {Adopted}, table'[m] = x
               PROVE  /\ <<m, x>> \notin ending /\ \A n \in DOMAIN ring : ring[n] # Final(m, x)
    BY <1>1 DEF Gone
  <2>1. CASE m # a
    BY <1>1, <2>1 DEF Gone
  <2>2. CASE m = a
    <3>1. \A n \in DOMAIN ring : ring[n].id # id
      BY <1>3 DEF Used
    <3>2. Final(m, x).id = x
      BY DEF Final, Event
    <3> QED BY <1>1, <1>3, <2>2, <3>1, <3>2 DEF Used
  <2> QED BY <2>1, <2>2
<1>5. Pending'
  BY <1>1, <1>2, <1>3 DEF Pending
<1>6. RingTrue'
  <2> SUFFICES ASSUME NEW m \in Mac, m # a PROVE Truth(m, ring)'
    BY <1>2 DEF RingTrue
  <2>1. Truth(m, ring) /\ table'[m] = table[m]
    BY <1>1, <1>2 DEF RingTrue
  <2>2. Ending(m, After(None, ring, m)) => Ending(m, After(None, ring, m))'
    <3>1. PICK w : w = After(None, ring, m)
      OBVIOUS
    <3>2. Ending(m, w) => Ending(m, w)'
      BY <1>2
    <3> QED BY <3>1, <3>2 DEF Ending
  <2> QED BY <2>1, <2>2 DEF Truth
<1>7. ASSUME NEW m \in Mac, NEW v, Consistent(m, v) PROVE Consistent(m, v)'
  <2>1. CASE m = a
    BY <1>2, <2>1 DEF Consistent
  <2>2. CASE m # a
    BY <1>1, <1>2, <1>7, <2>2 DEF Consistent
  <2> QED BY <2>1, <2>2
<1> QED BY <1>4, <1>5, <1>6, <1>7

\* An event that is emitted ends what was to end by it, does not end a session of the table,
\* and announces the one that was to be announced.
LEMMA EmitKnown ==
    ASSUME TypeInv, Gone, RingTrue, NEW e \in SessionEvent, Emit(e), table' = table,
           \A m \in Mac : \A v : Ending(m, v) => Ending(m, v)' \/ e = Final(m, v),
           \A m \in Mac, x \in SessionId \ {Adopted} : table[m] = x => e # Final(m, x),
           \A m \in Mac : \/ /\ Announcing(m)' <=> Announcing(m)
                             /\ ~(e.kind = "granted" /\ e.mac = m)
                          \/ /\ e.kind = "granted" /\ e.mac = m /\ e.id # Adopted
                             /\ \/ table[m] = e.id
                                \/ table[m] \in {None, Adopted} /\ Ending(m, e.id)'
    PROVE  /\ RingTrue'
           /\ \A m \in Mac : \A v, w : w = After(v, <<e>>, m) /\ Consistent(m, v) => Consistent(m, w)'
<1>1. /\ \A m \in Mac : table[m] \in SessionId \cup {None}
      /\ e.id \in SessionId /\ None \notin SessionId
  BY NoneAssumption DEF TypeInv, Typed, SessionEvent
<1>2. ASSUME NEW m \in Mac, NEW v
      PROVE  After(v, <<e>>, m) = IF e.kind = "granted" /\ e.mac = m THEN e.id
                                  ELSE IF e = Final(m, v) THEN None ELSE v
  BY AfterEvent
<1>3. RingTrue'
  <2>1. PICK r \in Seq(SessionEvent) :
              /\ ring' = r \o <<e>>
              /\ r = ring \/ (ring # <<>> /\ r = Tail(ring))
    BY EmitIs
  <2> SUFFICES ASSUME NEW m \in Mac, ~Announcing(m)' PROVE Truth(m, ring)'
    BY DEF RingTrue
  <2>2. \A b : After(b, ring', m) = IF e.kind = "granted" /\ e.mac = m THEN e.id
                                    ELSE IF e = Final(m, After(b, r, m)) THEN None
                                    ELSE After(b, r, m)
    <3> DEFINE one == <<e>>
    <3>1. one \in Seq(SessionEvent)
      OBVIOUS
    <3>2. \A c : After(c, one, m) = IF e.kind = "granted" /\ e.mac = m THEN e.id
                                    ELSE IF e = Final(m, c) THEN None ELSE c
      BY <1>2
    <3> HIDE DEF one
    <3>3. \A b : After(b, r \o one, m) = After(After(b, r, m), one, m)
      BY <3>1, AfterJoined
    <3>4. ring' = r \o one
      BY <2>1 DEF one
    <3> QED BY <3>2, <3>3, <3>4
  <2>3. CASE e.kind = "granted" /\ e.mac = m
    <3>1. \A b : After(b, ring', m) = e.id
      BY <2>2, <2>3
    <3>2. /\ e.id # Adopted
          /\ \/ table[m] = e.id
             \/ table[m] \in {None, Adopted} /\ Ending(m, e.id)'
      BY <2>3
    <3>3. CASE table[m] = e.id
      <4>1. table'[m] \notin {None, Adopted}
        BY <1>1, <3>2, <3>3
      <4> QED BY <3>1, <3>3, <4>1 DEF Truth
    <3>4. CASE table[m] \in {None, Adopted} /\ Ending(m, e.id)'
      <4>1. table'[m] \in {None, Adopted} /\ After(None, ring', m) = e.id
        BY <3>1, <3>4
      <4> QED BY <3>4, <4>1 DEF Truth, Ending
    <3> QED BY <3>2, <3>3, <3>4
  <2>4. CASE ~(e.kind = "granted" /\ e.mac = m)
    <3>1. \A b : After(b, ring', m) = IF e = Final(m, After(b, r, m)) THEN None
                                      ELSE After(b, r, m)
      BY <2>2, <2>4
    <3>2. Truth(m, ring)
      BY <2>4 DEF RingTrue
    <3>3. Truth(m, r)
      BY <2>1, <3>2, ShorterTruth
    <3>4. CASE table[m] \in {None, Adopted}
      <4>1. PICK w : w = After(None, r, m)
        OBVIOUS
      <4>2. w = None \/ Ending(m, w)
        BY <3>3, <3>4, <4>1 DEF Truth
      <4>3. After(None, ring', m) = IF e = Final(m, w) THEN None ELSE w
        BY <3>1, <4>1
      <4>4. Ending(m, w) => Ending(m, w)' \/ e = Final(m, w)
        OBVIOUS
      <4> QED BY <3>4, <4>2, <4>3, <4>4 DEF Truth, Ending
    <3>5. CASE table[m] \notin {None, Adopted}
      <4>1. After(table[m], r, m) = table[m]
        BY <3>3, <3>5 DEF Truth
      <4>2. e # Final(m, table[m])
        BY <1>1, <3>5
      <4>3. After(table[m], ring', m) = table[m]
        BY <3>1, <4>1, <4>2
      <4> QED BY <3>5, <4>3 DEF Truth
    <3> QED BY <3>4, <3>5
  <2> QED BY <2>3, <2>4
<1>4. ASSUME NEW m \in Mac, NEW v, NEW w, w = After(v, <<e>>, m), Consistent(m, v)
      PROVE  Consistent(m, w)'
  <2>1. w = IF e.kind = "granted" /\ e.mac = m THEN e.id ELSE IF e = Final(m, v) THEN None ELSE v
    BY <1>2, <1>4
  <2>2. CASE e.kind = "granted" /\ e.mac = m
    <3>1. w = e.id /\ w # None
      BY <1>1, <2>1, <2>2
    <3>2. \/ table[m] = w
          \/ table[m] \in {None, Adopted} /\ Ending(m, w)'
      BY <2>2, <3>1
    <3> QED BY <3>1, <3>2 DEF Consistent
  <2>3. CASE ~(e.kind = "granted" /\ e.mac = m)
    <3>1. w = IF e = Final(m, v) THEN None ELSE v
      BY <2>1, <2>3
    <3>2. CASE Announcing(m)
      BY <2>3, <3>2 DEF Consistent
    <3>3. CASE ~Announcing(m) /\ e = Final(m, v)
      <4>1. w = None /\ table'[m] = table[m]
        BY <3>1, <3>3
      <4>2. table[m] \in {None, Adopted}
        BY <1>1, <1>4, <3>3 DEF Consistent
      <4> QED BY <4>1, <4>2 DEF Consistent
    <3>4. CASE ~Announcing(m) /\ e # Final(m, v)
      <4>1. w = v /\ table'[m] = table[m]
        BY <3>1, <3>4
      <4>2. Ending(m, v) => Ending(m, v)'
        BY <3>4
      <4> QED BY <1>4, <3>4, <4>1, <4>2 DEF Consistent
    <3> QED BY <3>2, <3>3, <3>4
  <2> QED BY <2>2, <2>3
<1> QED BY <1>3, <1>4

\* A teardown gets to its final event.
LEMMA AnnounceKnown ==
    ASSUME TypeInv, Gone, Pending, RingTrue, NEW s \in ending, Announce(s)
    PROVE  /\ Gone' /\ Pending' /\ RingTrue' /\ Final(s[1], s[2]) \in SessionEvent
           /\ \A m \in Mac : \A v, w :
                 w = After(v, <<Final(s[1], s[2])>>, m) /\ Consistent(m, v) => Consistent(m, w)'
<1>1. PICK a \in Mac, x \in SessionId : s = <<a, x>>
  BY DEF TypeInv, Typed
<1>2. PICK e \in SessionEvent : e = Final(a, x)
  BY FrameTypes
<1>3. /\ e.kind = "final" /\ e.mac = a /\ e.id = x
      /\ \A m, v : e = Final(m, v) <=> m = a /\ v = x
      /\ \A m, v : <<m, v>> = s <=> m = a /\ v = x
  BY <1>1, <1>2 DEF Final, Event
<1>4. /\ Emit(e) /\ table' = table /\ job' = job /\ ending' = ending \ {s}
      /\ early' = IF job # None /\ job.event = Granted(a, x) THEN early \cup {x} ELSE early
  BY <1>1, <1>2 DEF Announce
<1>5. Unsaid' = Unsaid /\ \A m : Announcing(m)' <=> Announcing(m)
  BY <1>4 DEF Unsaid, Announcing
<1>6. /\ \A v \in early : v \in early'
      /\ Unsaid # None /\ Unsaid = Granted(a, x) => x \in early'
  BY <1>4, NoneAssumption DEF Unsaid
<1>7. ASSUME NEW m \in Mac, NEW v, Ending(m, v) PROVE Ending(m, v)' \/ e = Final(m, v)
  BY <1>3, <1>4, <1>5, <1>6, <1>7 DEF Ending
<1>8. ASSUME NEW m \in Mac, NEW y \in SessionId \ {Adopted}, table[m] = y PROVE e # Final(m, y)
  BY <1>1, <1>3, <1>8 DEF Gone
<1>9. /\ RingTrue'
      /\ \A m \in Mac : \A v, w : w = After(v, <<e>>, m) /\ Consistent(m, v) => Consistent(m, w)'
  BY <1>3, <1>4, <1>5, <1>7, <1>8, EmitKnown
<1>10. Gone'
  <2> SUFFICES ASSUME NEW m \in Mac, NEW y \in SessionId \ {Adopted}, table[m] = y
               PROVE  /\ <<m, y>> \notin ending'
                      /\ \A n \in DOMAIN ring' : ring'[n] # Final(m, y)
                      /\ Unsaid # Final(m, y)
    BY <1>4, <1>5 DEF Gone
  <2>1. \A n \in DOMAIN ring' : ring'[n] = e \/ \E k \in DOMAIN ring : ring'[n] = ring[k]
    BY <1>4, EmitIs
  <2>2. <<m, y>> \notin ending' /\ Unsaid # Final(m, y)
    BY <1>4 DEF Gone
  <2> QED BY <1>8, <2>1, <2>2 DEF Gone
<1>11. Pending'
  <2> SUFFICES ASSUME NEW m \in Mac, Announcing(m)
               PROVE  /\ Unsaid.id # Adopted
                      /\ \/ table[m] = Unsaid.id
                         \/ table[m] \in {None, Adopted} /\ (<<m, Unsaid.id>> \in ending' \/ Unsaid.id \in early')
    BY <1>4, <1>5 DEF Pending
  <2>1. Unsaid = Granted(m, Unsaid.id) /\ Unsaid # None
    BY UnsaidTypes DEF Announcing, SessionEvent, Granted, Event
  <2>2. <<m, Unsaid.id>> \in ending => <<m, Unsaid.id>> \in ending' \/ Unsaid.id \in early'
    BY <1>3, <1>4, <1>6, <2>1
  <2> QED BY <1>6, <2>2 DEF Pending
<1> QED BY <1>1, <1>2, <1>9, <1>10, <1>11

\* A command emits its event.
LEMMA AcknowledgeKnown ==
    ASSUME TypeInv, Gone, Pending, RingTrue, Unsaid # None, Emit(Unsaid), Unsaid' = None,
           UNCHANGED <<table, ending, early>>
    PROVE  /\ Gone' /\ Pending' /\ RingTrue' /\ Unsaid \in SessionEvent
           /\ \A m \in Mac : \A v, w : w = After(v, <<Unsaid>>, m) /\ Consistent(m, v) => Consistent(m, w)'
<1>1. PICK e \in SessionEvent : e = Unsaid
  BY UnsaidTypes
<1>2. Emit(e) /\ e # None
  BY <1>1
<1>3. /\ \A m : ~Announcing(m)'
      /\ \A m : Announcing(m) <=> e.kind = "granted" /\ e.mac = m
  BY <1>1 DEF Announcing
<1>4. ASSUME NEW m \in Mac, NEW v, Ending(m, v) PROVE Ending(m, v)' \/ e = Final(m, v)
  BY <1>1, <1>4 DEF Ending
<1>5. \A m \in Mac, y \in SessionId \ {Adopted} : table[m] = y => e # Final(m, y)
  BY <1>1 DEF Gone
<1>6. ASSUME NEW m \in Mac, e.kind = "granted", e.mac = m
      PROVE  /\ e.id # Adopted
             /\ \/ table[m] = e.id
                \/ table[m] \in {None, Adopted} /\ Ending(m, e.id)'
  BY <1>1, <1>3, <1>6 DEF Pending, Ending
<1>7. /\ RingTrue'
      /\ \A m \in Mac : \A v, w : w = After(v, <<e>>, m) /\ Consistent(m, v) => Consistent(m, w)'
  BY <1>2, <1>3, <1>4, <1>5, <1>6, EmitKnown
<1>8. Gone'
  <2>1. \A n \in DOMAIN ring' : ring'[n] = e \/ \E k \in DOMAIN ring : ring'[n] = ring[k]
    BY <1>2, EmitIs
  <2>2. \A m \in Mac, y \in SessionId : Final(m, y) # None
    BY FrameTypes, NoneAssumption
  <2> QED BY <1>5, <2>1, <2>2 DEF Gone
<1>9. Pending'
  BY <1>3 DEF Pending
<1> QED BY <1>1, <1>7, <1>8, <1>9

-----------------------------------------------------------------------------
(* What is on the wire                                                     *)

LEMMA AfterThree ==
    ASSUME NEW o \in Seq(Frame), NEW p \in Seq(Frame), NEW r \in Seq(Frame), NEW m, NEW b
    PROVE  After(b, (o \o p) \o r, m) = After(After(After(b, o, m), p, m), r, m)
<1> DEFINE op == o \o p
<1>1. op \in Seq(Frame) /\ After(b, op, m) = After(After(b, o, m), p, m)
  BY ConcatProperties, AfterJoined
<1> HIDE DEF op
<1>2. After(b, op \o r, m) = After(After(b, op, m), r, m)
  BY <1>1, AfterJoined
<1> QED BY <1>1, <1>2 DEF op

\* A step that moves no frame out of the line, and after which what was consistent still is.
LEMMA SameWire ==
    ASSUME WireTrue, Frames' = Frames, view' = view, ~missed' => ~missed,
           link' = "up" \/ pc' = "attach" => link = "up" \/ pc = "attach",
           \A m \in Mac : \A v : Consistent(m, v) => Consistent(m, v)'
    PROVE  WireTrue'
<1> SUFFICES ASSUME (link = "up" \/ pc = "attach")', ~missed', NEW m \in Mac
             PROVE  Consistent(m, After(view[m], Frames, m))'
  BY DEF WireTrue
<1>1. PICK v : v = After(view[m], Frames, m)
  OBVIOUS
<1>2. Consistent(m, v)'
  BY <1>1 DEF WireTrue
<1>3. v = After(view[m], Frames, m)'
  BY <1>1
<1> QED BY <1>2, <1>3 DEF Consistent, Announcing, Ending

\* An event is emitted, after which what was consistent is so once the event is read.
LEMMA EmitWire ==
    ASSUME TypeInv, WireTrue, NEW e \in SessionEvent, Emit(e), UNCHANGED <<outq, view>>,
           link' = "up" \/ pc' = "attach" => link = "up" \/ pc = "attach",
           \/ todo' = todo
           \/ /\ todo = <<>> /\ todo' \in Seq(Frame)
              /\ \A n \in DOMAIN todo' : todo'[n].type \notin {"hello", "event"},
           \A m \in Mac : \A v, w : w = After(v, <<e>>, m) /\ Consistent(m, v) => Consistent(m, w)'
    PROVE  WireTrue'
<1> SUFFICES ASSUME (link = "up" \/ pc = "attach")', ~missed', NEW m \in Mac
             PROVE  Consistent(m, After(view[m], Frames, m))'
  BY DEF WireTrue
<1>1. PICK v : v = After(view[m], Frames, m)
  OBVIOUS
<1>2. PICK w : w = After(v, <<e>>, m)
  OBVIOUS
<1>3. ~missed
  BY EmitIs
<1>4. Consistent(m, w)'
  BY <1>1, <1>2, <1>3 DEF WireTrue
<1>5. After(view[m], Frames, m)' = After(After(view[m], Frames, m), <<e>>, m)
  BY EmitFrames
<1>6. w = After(view[m], Frames, m)'
  BY <1>1, <1>2, <1>5
<1> QED BY <1>4, <1>6 DEF Consistent, Announcing, Ending

\* The task takes the oldest event off the ring to send it.
LEMMA TakeEventKnown ==
    ASSUME TypeInv, Gone, Pending, RingTrue, WireTrue, TakeEvent
    PROVE  Gone' /\ Pending' /\ RingTrue' /\ WireTrue'
<1>1. /\ ring # <<>> /\ ring' = Tail(ring) /\ todo = <<>> /\ todo' = <<Head(ring)>>
      /\ UNCHANGED <<table, ending, early, missed, job, outq, link, view>>
      /\ pc = "select" /\ pc' = "send"
  BY DEF TakeEvent, manager, stream, plane, TypeInv, Placed
<1>2. Unsaid' = Unsaid /\ (\A m : Announcing(m)' <=> Announcing(m))
      /\ (\A m, v : Ending(m, v)' <=> Ending(m, v))
  BY <1>1 DEF Unsaid, Announcing, Ending
<1>3. Gone'
  <2>1. \A n \in DOMAIN ring' : \E k \in DOMAIN ring : ring'[n] = ring[k]
    BY <1>1, TailRing
  <2> QED BY <1>1, <1>2, <2>1 DEF Gone
<1>4. Pending'
  BY <1>1, <1>2 DEF Pending
<1>5. RingTrue'
  <2> SUFFICES ASSUME NEW m \in Mac, ~Announcing(m) PROVE Truth(m, ring)'
    BY <1>2 DEF RingTrue
  <2>1. PICK r : r = Tail(ring)
    OBVIOUS
  <2>2. Truth(m, r)
    BY <1>1, <2>1, ShorterTruth DEF RingTrue
  <2>3. Truth(m, r)'
    BY <1>1, <1>2, <2>2 DEF Truth, Ending
  <2> QED BY <1>1, <2>1, <2>3 DEF Truth, Ending
<1>6. Frames' = Frames
  <2> DEFINE o == outq
             h == <<Head(ring)>>
             t == Tail(ring)
  <2>1. h \in Seq(Frame) /\ t \in Seq(Frame) /\ ring = h \o t /\ o \in Seq(Frame)
    <3>1. ring \in Seq(Frame) /\ outq \in Seq(Frame)
      BY FramesIn
    <3>2. Head(ring) \in Frame /\ t \in Seq(Frame) /\ ring = h \o t
      BY <1>1, <3>1, HeadTailProperties, HeadFirst
    <3>3. h \in Seq(Frame)
      BY <3>2
    <3> QED BY <3>1, <3>2, <3>3
  <2>2. Frames = (o \o <<>>) \o ring /\ Frames' = (o \o h) \o t
    BY <1>1 DEF Frames
  <2> HIDE DEF o, h, t
  <2>3. o \o <<>> = o /\ (o \o h) \o t = o \o (h \o t)
    BY <2>1, ConcatEmptySeq, ConcatAssociative
  <2> QED BY <2>1, <2>2, <2>3
<1>7. \A m \in Mac : \A v : Consistent(m, v) => Consistent(m, v)'
  BY <1>1, <1>2 DEF Consistent
<1>8. WireTrue'
  BY <1>1, <1>6, <1>7, SameWire
<1> QED BY <1>3, <1>4, <1>5, <1>8

\* A frame is put into the outbound channel.
LEMMA SendFrames ==
    ASSUME TypeInv, todo # <<>>, outq' = Append(outq, Head(todo)), todo' = Tail(todo), ring' = ring
    PROVE  Frames' = Frames
<1> DEFINE o == outq
           h == <<Head(todo)>>
           t == Tail(todo)
           r == ring
<1>1. h \in Seq(Frame) /\ t \in Seq(Frame) /\ todo = h \o t /\ o \in Seq(Frame) /\ r \in Seq(Frame)
      /\ outq' = o \o h
  <2>1. todo \in Seq(Frame) /\ ring \in Seq(Frame) /\ outq \in Seq(Frame)
    BY FramesIn
  <2>2. Head(todo) \in Frame /\ t \in Seq(Frame) /\ todo = h \o t
    BY <2>1, HeadTailProperties, HeadFirst
  <2>3. h \in Seq(Frame)
    BY <2>2
  <2>4. outq' = o \o h
    BY <2>1, <2>2, AppendIsConcat
  <2> QED BY <2>1, <2>2, <2>3, <2>4
<1>2. Frames = (o \o todo) \o r /\ Frames' = ((o \o h) \o t) \o r
  BY <1>1 DEF Frames
<1> HIDE DEF o, h, t, r
<1>3. (o \o h) \o t = o \o (h \o t)
  <2>1. h \in Seq(Frame) /\ t \in Seq(Frame) /\ o \in Seq(Frame)
    BY <1>1
  <2>2. Cat(Cat(o, h), t) = Cat(o, Cat(h, t))
    BY <2>1, CatFacts
  <2> QED BY <2>2, Zenon DEF Cat
<1>4. todo = h \o t
  BY <1>1
<1> QED BY <1>2, <1>3, <1>4, Zenon

\* The control plane reads the first frame.
LEMMA ReceiveWire ==
    ASSUME TypeInv, WireTrue, Receive
    PROVE  WireTrue'
<1>1. /\ outq # <<>> /\ outq' = Tail(outq) /\ view' = Learned(Head(outq)) /\ link = "up"
      /\ UNCHANGED <<table, ending, ring, missed, early, job, todo>>
  BY DEF Receive, manager, events
<1> SUFFICES ASSUME ~missed, NEW m \in Mac
             PROVE  Consistent(m, After(view[m], Frames, m))'
  BY <1>1 DEF WireTrue
<1>2. PICK v : v = After(view[m], Frames, m)
  OBVIOUS
<1>3. Consistent(m, v)'
  <2>1. Consistent(m, v)
    BY <1>1, <1>2 DEF WireTrue
  <2>2. Unsaid' = Unsaid
    BY <1>1 DEF Unsaid
  <2> QED BY <1>1, <2>1, <2>2, SameConsistent
<1>4. v = After(view[m], Frames, m)'
  <2> DEFINE h == <<Head(outq)>>
             t == Tail(outq)
             p == todo
             r == ring
             b == view[m]
  <2>1. /\ h \in Seq(Frame) /\ t \in Seq(Frame) /\ outq = h \o t /\ p \in Seq(Frame) /\ r \in Seq(Frame)
        /\ view'[m] = After(b, h, m)
    <3>1. todo \in Seq(Frame) /\ ring \in Seq(Frame) /\ outq \in Seq(Frame)
      BY FramesIn
    <3>2. Head(outq) \in Frame /\ t \in Seq(Frame) /\ outq = h \o t
      BY <1>1, <3>1, HeadTailProperties, HeadFirst
    <3>3. h \in Seq(Frame)
      BY <3>2
    <3>4. view'[m] = After(b, h, m)
      <4>1. view \in [Mac -> SessionId \cup {None}]
        BY DEF TypeInv, Typed
      <4> QED BY <1>1, <3>2, <4>1, LearnedIs
    <3> QED BY <3>1, <3>2, <3>3, <3>4
  <2>2. Frames = (outq \o p) \o r /\ Frames' = (t \o p) \o r
    BY <1>1 DEF Frames
  <2>3. v = After(b, (outq \o p) \o r, m)
    BY <1>2, <2>2
  <2> HIDE DEF h, t, p, r, b
  <2>4. outq \in Seq(Frame)
    BY FramesIn
  <2>5. v = After(After(After(b, outq, m), p, m), r, m)
    <3> DEFINE o == outq
    <3>1. o \in Seq(Frame) /\ p \in Seq(Frame) /\ r \in Seq(Frame)
      BY <2>1, <2>4
    <3>2. v = After(b, (o \o p) \o r, m)
      BY <2>3
    <3> HIDE DEF o
    <3>3. After(b, (o \o p) \o r, m) = After(After(After(b, o, m), p, m), r, m)
      BY <3>1, AfterThree
    <3> QED BY <3>2, <3>3 DEF o
  <2>6. After(b, outq, m) = After(After(b, h, m), t, m)
    BY <2>1, AfterJoined
  <2>7. After(view'[m], (t \o p) \o r, m) = After(After(After(view'[m], t, m), p, m), r, m)
    BY <2>1, AfterThree
  <2>8. After(view'[m], Frames', m) = v
    BY <2>1, <2>2, <2>5, <2>6, <2>7
  <2> QED BY <2>8
<1> QED BY <1>3, <1>4 DEF Consistent, Announcing, Ending

\* The snapshot, with what waits in the ring, tells the table.
LEMMA DialWire ==
    ASSUME TypeInv, RingTrue, Dial
    PROVE  WireTrue'
<1>1. /\ todo = <<>> /\ outq' = <<Hello(table)>> /\ UNCHANGED <<table, ending, ring, early, job, todo, view>>
  BY DEF Dial, manager, plane, TypeInv, Placed
<1> SUFFICES ASSUME NEW m \in Mac
             PROVE  Consistent(m, After(view[m], Frames, m))'
  BY DEF WireTrue
<1>2. PICK v : v = After(table[m], ring, m)
  OBVIOUS
<1>3. Consistent(m, v)'
  <2>1. Consistent(m, v)
    BY <1>2, TruthIsConsistent
  <2>2. Unsaid' = Unsaid
    BY <1>1 DEF Unsaid
  <2> QED BY <1>1, <2>1, <2>2, SameConsistent
<1>4. v = After(view[m], Frames, m)'
  <2> DEFINE h == <<Hello(table)>>
             r == ring
             b == view[m]
             z == todo
  <2>1. h \in Seq(Frame) /\ r \in Seq(Frame) /\ z \in Seq(Frame) /\ z = <<>>
    <3>1. Hello(table) \in Frame
      BY FrameTypes DEF TypeInv, Typed
    <3>2. h \in Seq(Frame)
      BY <3>1
    <3> QED BY <1>1, <3>2, FramesIn
  <2>2. Frames' = (h \o z) \o r /\ view'[m] = b
    BY <1>1 DEF Frames
  <2>3. After(b, h, m) = table[m]
    <3>1. Tells(Hello(table), m) /\ Told(Hello(table), m) = table[m]
      BY DEF Tells, Told, Hello
    <3> QED BY <3>1, AfterOne
  <2>4. v = After(table[m], r, m)
    BY <1>2
  <2> HIDE DEF h, r, b, z
  <2>5. After(b, (h \o z) \o r, m) = After(After(After(b, h, m), z, m), r, m)
    <3>1. h \in Seq(Frame) /\ r \in Seq(Frame) /\ z \in Seq(Frame)
      BY <2>1
    <3> QED BY <3>1, AfterThree
  <2>6. After(After(b, h, m), z, m) = After(b, h, m)
    BY <2>1, AfterNothing
  <2>7. After(view'[m], Frames', m) = v
    BY <2>2, <2>3, <2>4, <2>5, <2>6
  <2> QED BY <2>7
<1> QED BY <1>3, <1>4 DEF Consistent, Announcing, Ending

\* A death leaves nothing but adopted sessions.
LEMMA DieKnown ==
    ASSUME TypeInv, Die
    PROVE  Gone' /\ Pending' /\ RingTrue' /\ WireTrue'
<1>1. /\ \A m \in Mac : table'[m] \in {None, Adopted}
      /\ ring' = <<>> /\ job' = None /\ link' = "none" /\ pc' = "backoff"
  BY DEF Die
<1>2. Unsaid' = None
  BY <1>1 DEF Unsaid
<1>3. Gone'
  BY <1>1, NoneAssumption DEF Gone, SessionId
<1>4. Pending'
  BY <1>2 DEF Pending, Announcing
<1>5. RingTrue'
  <2>1. \A m : After(None, ring', m) = None
    BY <1>1, AfterNothing
  <2> QED BY <1>1, <2>1 DEF RingTrue, Truth
<1>6. WireTrue'
  BY <1>1 DEF WireTrue
<1> QED BY <1>3, <1>4, <1>5, <1>6

-----------------------------------------------------------------------------
(* The invariant                                                           *)

\* A step of the task or the plane that touches no session, event or frame that tells.
LEMMA QuietKnown ==
    ASSUME TypeInv, Known,
           UNCHANGED <<table, ending, ring, missed, early, Unsaid, outq, view, grants>>,
           link' = "up" \/ pc' = "attach" => link = "up" \/ pc = "attach",
           \/ todo' = todo
           \/ /\ todo = <<>> /\ todo' \in Seq(Frame)
              /\ \A n \in DOMAIN todo' : todo'[n].type \notin {"hello", "event"},
           Bringing' => Bringing /\ job'.cmd = job.cmd,
           inq' = inq \/ inq' = <<>>
    PROVE  Known'
<1>1. Gone' /\ Pending' /\ RingTrue'
  BY SameSessions DEF Known
<1>2. WireTrue'
  BY SameFrames DEF Known
<1>3. Ordered'
  <2>1. \A x : Used(x)' => Used(x)
    BY DEF Used
  <2> QED BY <2>1, OrderedKept DEF Known
<1> QED BY <1>1, <1>2, <1>3 DEF Known

\* The frames a handler ends with tell nothing of a session.
LEMMA ReplyQuiet ==
    ASSUME TypeInv, NEW frames, NEW cid,
           \/ frames \in {<<>>, <<Answer(cid)>>}
           \/ \E rows \in Nat : frames = [n \in 1..rows |-> Row(cid)] \o <<Answer(cid)>>
    PROVE  \A n \in DOMAIN frames : frames[n].type \notin {"hello", "event"}
<1>1. Answer(cid).type = "answer" /\ Row(cid).type = "row"
  BY DEF Answer, Row
<1>2. CASE frames = <<>>
  BY <1>2
<1>3. CASE frames = <<Answer(cid)>>
  BY <1>1, <1>3
<1>4. CASE \E rows \in Nat : frames = [n \in 1..rows |-> Row(cid)] \o <<Answer(cid)>>
  <2> DEFINE S == {Row(cid), Answer(cid)}
             t == <<Answer(cid)>>
  <2>1. PICK rows \in Nat : frames = [n \in 1..rows |-> Row(cid)] \o t
    BY <1>4
  <2> DEFINE s == [n \in 1..rows |-> Row(cid)]
  <2>2. s \in Seq(S) /\ t \in Seq(S)
    BY SeqDef
  <2>3. (\A n \in DOMAIN s : s[n] = Row(cid)) /\ (\A n \in DOMAIN t : t[n] = Answer(cid))
    OBVIOUS
  <2> HIDE DEF s, t, S
  <2>4. /\ \A n \in DOMAIN s : n \in DOMAIN (s \o t) /\ (s \o t)[n] = s[n]
        /\ \A n \in DOMAIN t : n + Len(s) \in DOMAIN (s \o t) /\ (s \o t)[n + Len(s)] = t[n]
        /\ \A n \in DOMAIN (s \o t) : n \in DOMAIN s \/ \E j \in DOMAIN t : n = j + Len(s)
    BY <2>2, TellingJoined
  <2>5. \A n \in DOMAIN (s \o t) : (s \o t)[n] \in {Row(cid), Answer(cid)}
    BY <2>3, <2>4
  <2>6. frames = s \o t
    BY <2>1 DEF s
  <2> QED BY <1>1, <2>5, <2>6
<1> QED BY <1>2, <1>3, <1>4

\* The invariant is kept: each step is one of those above.
LEMMA StepKnown ==
    ASSUME TypeInv, TypeInv', Known, [Next]_vars
    PROVE  Known'
<1>k. Ordered /\ Gone /\ Pending /\ RingTrue /\ WireTrue
  BY DEF Known
<1>g. \A x \in SessionId : x # None
  BY NoneAssumption
<1>1. ASSUME Dial PROVE Known'
  <2>1. UNCHANGED <<table, ending, ring, early, job, grants, inq>>
    BY <1>1 DEF Dial, manager, bounds
  <2>2. Unsaid' = Unsaid
    BY <2>1 DEF Unsaid
  <2>3. Gone' /\ Pending' /\ RingTrue'
    BY <1>k, <2>1, <2>2, SameSessions
  <2>4. Ordered'
    <3>1. \A x : Used(x)' => Used(x)
      BY <2>1, <2>2 DEF Used
    <3>2. Bringing' => Bringing /\ job'.cmd = job.cmd
      BY <2>1 DEF Bringing
    <3> QED BY <1>k, <2>1, <3>1, <3>2, OrderedKept
  <2>5. WireTrue'
    BY <1>k, <1>1, DialWire
  <2> QED BY <2>3, <2>4, <2>5 DEF Known
<1>2. ASSUME Attach \/ Poll \/ UNCHANGED vars PROVE Known'
  <2>1. /\ UNCHANGED <<table, ending, ring, missed, early, job, outq, view, grants, todo, inq>>
        /\ link' = "up" \/ pc' = "attach" => link = "up" \/ pc = "attach"
    BY <1>2 DEF Attach, Poll, vars, manager, events, stream, plane, bounds
  <2>2. Unsaid' = Unsaid /\ (Bringing' => Bringing /\ job'.cmd = job.cmd)
    BY <2>1 DEF Unsaid, Bringing
  <2> QED BY <2>1, <2>2, QuietKnown
<1>3. ASSUME TakeReport PROVE Known'
  <2>1. /\ UNCHANGED <<table, ending, ring, missed, early, job, outq, view, grants, inq, link>>
        /\ pc = "select" /\ pc' = "send" /\ todo = <<>> /\ todo' = <<Report>>
    BY <1>3 DEF TakeReport, manager, events, plane, bounds, TypeInv, Placed
  <2>2. Unsaid' = Unsaid /\ (Bringing' => Bringing /\ job'.cmd = job.cmd)
    BY <2>1 DEF Unsaid, Bringing
  <2>3. todo' \in Seq(Frame) /\ \A n \in DOMAIN todo' : todo'[n].type \notin {"hello", "event"}
    BY <2>1, FrameTypes DEF Report
  <2>4. link' = "up" \/ pc' = "attach" => link = "up" \/ pc = "attach"
    BY <2>1
  <2> QED BY <2>1, <2>2, <2>3, <2>4, QuietKnown
<1>4. ASSUME GrantRefused \/ RevokeNobody \/ List \/ Other \/ Ignore PROVE Known'
  <2>1. /\ UNCHANGED <<table, ending, ring, missed, early, outq, view, grants, inq, link>>
        /\ pc = "handle" /\ job.event = None /\ job' = None /\ todo = <<>>
        /\ pc' \in {"select", "send"}
    BY <1>4
    DEF GrantRefused, RevokeNobody, List, Other, Ignore, Handling, Reply, manager, events, plane,
        bounds, TypeInv, Placed
  <2>2. Unsaid' = Unsaid /\ (Bringing' => Bringing /\ job'.cmd = job.cmd)
    BY <2>1 DEF Unsaid, Bringing
  <2>3. \A n \in DOMAIN todo' : todo'[n].type \notin {"hello", "event"}
    <3>1. PICK cid, frames : cid = job.cmd.cid /\ frames = todo'
      OBVIOUS
    <3>2. \/ frames \in {<<>>, <<Answer(cid)>>}
          \/ \E rows \in Nat : frames = [n \in 1..rows |-> Row(cid)] \o <<Answer(cid)>>
      <4>1. CASE GrantRefused \/ RevokeNobody \/ Other \/ Ignore
        BY <3>1, <4>1 DEF GrantRefused, RevokeNobody, Other, Ignore, Reply
      <4>2. CASE List
        <5> DEFINE rows == Cardinality({m \in Mac : table[m] # None})
        <5>1. rows \in Nat
          <6>1. IsFiniteSet({m \in Mac : table[m] # None})
            BY ChannelAssumption, FS_Subset DEF ChannelAssumption
          <6> QED BY <6>1, FS_CardinalityType
        <5>2. frames = [n \in 1..rows |-> Row(cid)] \o <<Answer(cid)>>
          BY <3>1, <4>2 DEF List, Reply
        <5> QED BY <5>1, <5>2
      <4> QED BY <1>4, <4>1, <4>2
    <3>3. \A n \in DOMAIN frames : frames[n].type \notin {"hello", "event"}
      BY <3>2, ReplyQuiet
    <3> QED BY <3>1, <3>3
  <2>4. todo' \in Seq(Frame)
    BY DEF TypeInv, Typed
  <2>5. link' = "up" \/ pc' = "attach" => link = "up" \/ pc = "attach"
    BY <2>1
  <2> QED BY <2>1, <2>2, <2>3, <2>4, <2>5, QuietKnown
<1>5. ASSUME Notice \/ ConnectFails \/ Break PROVE Known'
  <2>1. /\ UNCHANGED <<table, ending, ring, early, job, grants>>
        /\ inq' = <<>> /\ link' # "up" /\ pc' # "attach"
    BY <1>5 DEF Notice, ConnectFails, Break, Over, manager, events, bounds, TypeInv, Placed
  <2>2. Unsaid' = Unsaid
    BY <2>1 DEF Unsaid
  <2>3. Gone' /\ Pending' /\ RingTrue'
    BY <1>k, <2>1, <2>2, SameSessions
  <2>4. Ordered'
    <3>1. \A x : Used(x)' => Used(x)
      BY <2>1, <2>2 DEF Used
    <3>2. Bringing' => Bringing /\ job'.cmd = job.cmd
      BY <2>1 DEF Bringing
    <3> QED BY <1>k, <2>1, <3>1, <3>2, OrderedKept
  <2>5. WireTrue'
    BY <2>1 DEF WireTrue
  <2> QED BY <2>3, <2>4, <2>5 DEF Known
<1>6. ASSUME TakeCommand PROVE Known'
  <2>1. /\ UNCHANGED <<table, ending, ring, missed, early, outq, todo, view, link>>
        /\ pc = "select" /\ pc' = "handle" /\ job = None
        /\ job' = [cmd |-> Head(inq), event |-> None]
    BY <1>6 DEF TakeCommand, manager, events, plane, TypeInv, Placed
  <2>2. Unsaid' = Unsaid
    BY <2>1 DEF Unsaid
  <2>3. Gone' /\ Pending' /\ RingTrue'
    BY <1>k, <2>1, <2>2, SameSessions
  <2>4. WireTrue'
    BY <1>k, <2>1, <2>2, SameFrames
  <2>5. Ordered'
    BY <1>k, <1>6, TakenOrdered
  <2> QED BY <2>3, <2>4, <2>5 DEF Known
<1>7. ASSUME TakeEvent PROVE Known'
  <2>1. UNCHANGED <<table, ending, job, grants, inq>> /\ ring # <<>> /\ ring' = Tail(ring)
    BY <1>7 DEF TakeEvent, manager, bounds
  <2>2. Gone' /\ Pending' /\ RingTrue' /\ WireTrue'
    BY <1>k, <1>7, TakeEventKnown
  <2>3. Ordered'
    <3>1. \A n \in DOMAIN ring' : \E k \in DOMAIN ring : ring'[n] = ring[k]
      BY <2>1, TailRing
    <3>2. \A x : Used(x)' => Used(x)
      BY <2>1, <3>1 DEF Used, Unsaid
    <3>3. Bringing' => Bringing /\ job'.cmd = job.cmd
      BY <2>1 DEF Bringing
    <3> QED BY <1>k, <2>1, <3>2, <3>3, OrderedKept
  <2> QED BY <2>2, <2>3 DEF Known
<1>8. ASSUME Send PROVE Known'
  <2>1. /\ UNCHANGED <<table, ending, ring, missed, early, job, view, grants, inq, link>>
        /\ todo # <<>> /\ outq' = Append(outq, Head(todo)) /\ todo' = Tail(todo)
        /\ pc' # "attach"
    BY <1>8 DEF Send, manager, events, plane, bounds, TypeInv, Placed
  <2>2. Unsaid' = Unsaid
    BY <2>1 DEF Unsaid
  <2>3. Gone' /\ Pending' /\ RingTrue'
    BY <1>k, <2>1, <2>2, SameSessions
  <2>4. Ordered'
    <3>1. \A x : Used(x)' => Used(x)
      BY <2>1, <2>2 DEF Used
    <3>2. Bringing' => Bringing /\ job'.cmd = job.cmd
      BY <2>1 DEF Bringing
    <3> QED BY <1>k, <2>1, <3>1, <3>2, OrderedKept
  <2>5. WireTrue'
    <3>1. Frames' = Frames
      BY <2>1, SendFrames
    <3>2. \A m \in Mac : \A v : Consistent(m, v) => Consistent(m, v)'
      BY <2>1, <2>2, SameConsistent
    <3>3. /\ view' = view /\ (~missed' => ~missed)
          /\ link' = "up" \/ pc' = "attach" => link = "up" \/ pc = "attach"
      BY <2>1
    <3> QED BY <1>k, <3>1, <3>2, <3>3, SameWire
  <2> QED BY <2>3, <2>4, <2>5 DEF Known
<1>9. ASSUME Grant PROVE Known'
  <2>1. /\ job # None /\ job.event = None /\ job.cmd \in Command /\ job.cmd.kind = "grant"
        /\ table' = [table EXCEPT ![job.cmd.mac] = job.cmd.id]
        /\ job' = [job EXCEPT !.event = Granted(job.cmd.mac, job.cmd.id)]
        /\ UNCHANGED <<ending, ring, missed, early, pc, todo, outq, link, view>>
    BY <1>9 DEF Grant, Handling, events, stream, plane, TypeInv, Typed, Placed, Job
  <2>2. PICK a \in Mac, id \in SessionId : a = job.cmd.mac /\ id = job.cmd.id
    BY <2>1, JobTypes
  <2>3. Unsaid = None /\ Unsaid' = Granted(a, id)
    <3>1. job'.event = Granted(a, id)
      BY <2>1, <2>2 DEF TypeInv, Typed, Job
    <3>2. job' # None
      <4>1. Granted(a, id) # None
        BY FrameTypes, NoneAssumption
      <4>2. job' = [cmd |-> job.cmd, event |-> Granted(a, id)]
        BY <2>1, <2>2 DEF TypeInv, Typed, Job
      <4>3. job' \in Job
        <5>1. Granted(a, id) \in SessionEvent
          BY FrameTypes
        <5> QED BY <2>1, <4>2, <5>1, JobTypes
      <4> QED BY <4>3, NoneAssumption
    <3> QED BY <2>1, <3>1, <3>2 DEF Unsaid
  <2>4. Fresh(id)
    BY <1>k, <2>1, <2>2 DEF Ordered, Bringing
  <2>5. /\ Gone' /\ Pending' /\ RingTrue'
        /\ \A m \in Mac : \A v : Consistent(m, v) => Consistent(m, v)'
    BY <1>k, <2>1, <2>2, <2>3, <2>4, GrantKnown
  <2>6. WireTrue'
    <3>1. Frames' = Frames
      BY <2>1 DEF Frames
    <3> QED BY <1>k, <2>1, <2>5, <3>1, SameWire
  <2>7. Ordered'
    BY <1>k, <1>9, GrantOrdered
  <2> QED BY <2>5, <2>6, <2>7 DEF Known
<1>10. ASSUME Revoke PROVE Known'
  <2>1. /\ job # None /\ job.event = None /\ job.cmd \in Command /\ job.cmd.kind = "revoke"
        /\ table[job.cmd.mac] # None
        /\ table' = [table EXCEPT ![job.cmd.mac] = None]
        /\ job' = [job EXCEPT !.event = Final(job.cmd.mac, table[job.cmd.mac])]
        /\ UNCHANGED <<ending, ring, missed, early, pc, todo, outq, inq, link, view, grants>>
    BY <1>10 DEF Revoke, Handling, events, stream, plane, bounds, TypeInv, Typed, Placed, Job
  <2>2. PICK a \in Mac : a = job.cmd.mac
    BY <2>1, JobTypes
  <2>t. table[a] \in SessionId /\ Final(a, table[a]) \in SessionEvent /\ table[a] # None
    BY <2>1, <2>2, FrameTypes DEF TypeInv, Typed
  <2>3. Unsaid = None /\ Unsaid' = Final(a, table[a]) /\ job'.event # None
    <3>1. job' = [cmd |-> job.cmd, event |-> Final(a, table[a])]
      BY <2>1, <2>2 DEF TypeInv, Typed, Job
    <3>2. job'.event = Final(a, table[a])
      BY <3>1
    <3>3. job' \in Job
      BY <2>1, <2>t, <3>1, JobTypes
    <3>4. job' # None /\ Final(a, table[a]) # None
      BY <2>t, <3>3, NoneAssumption
    <3> QED BY <2>1, <3>2, <3>4 DEF Unsaid
  <2>4. /\ Gone' /\ Pending' /\ RingTrue'
        /\ \A m \in Mac : \A v : Consistent(m, v) => Consistent(m, v)'
    BY <1>k, <2>1, <2>2, <2>3, EndsKnown
  <2>5. WireTrue'
    <3>1. Frames' = Frames
      BY <2>1 DEF Frames
    <3> QED BY <1>k, <2>1, <2>4, <3>1, SameWire
  <2>6. Ordered'
    <3>1. \A m \in Mac, x \in SessionId : table'[m] = x => table[m] = x
      BY <1>g, <2>1, <2>2 DEF TypeInv, Typed
    <3>2. Unsaid'.id = table[a]
      BY <2>3 DEF Final, Event
    <3>3. \A x \in SessionId : Used(x)' => Used(x)
      BY <2>1, <2>2, <3>1, <3>2 DEF Used
    <3>4. ~Bringing'
      BY <2>3 DEF Bringing
    <3> QED BY <1>k, <2>1, <3>3, <3>4, OrderedKept
  <2> QED BY <2>4, <2>5, <2>6 DEF Known
<1>11. ASSUME Acknowledge PROVE Known'
  <2>1. /\ pc = "handle" /\ job # None /\ job.event # None /\ Emit(job.event)
        /\ todo = <<>> /\ job' = None /\ todo' = <<Answer(job.cmd.cid)>> /\ pc' # "attach"
        /\ UNCHANGED <<table, ending, early, outq, inq, link, view, grants>>
    BY <1>11 DEF Acknowledge, Reply, manager, plane, bounds, TypeInv, Placed
  <2>2. Unsaid = job.event /\ Unsaid # None /\ Unsaid' = None
    BY <2>1 DEF Unsaid
  <2>3. PICK e \in SessionEvent : e = Unsaid
    BY <2>2, UnsaidTypes
  <2>4. /\ Gone' /\ Pending' /\ RingTrue'
        /\ \A m \in Mac : \A v, w : w = After(v, <<Unsaid>>, m) /\ Consistent(m, v) => Consistent(m, w)'
    BY <1>k, <2>1, <2>2, AcknowledgeKnown
  <2>5. WireTrue'
    <3>1. todo' \in Seq(Frame)
      BY DEF TypeInv, Typed
    <3>2. \A n \in DOMAIN todo' : todo'[n].type \notin {"hello", "event"}
      <4>1. PICK cid, frames : cid = job.cmd.cid /\ frames = todo'
        OBVIOUS
      <4>2. \A n \in DOMAIN frames : frames[n].type \notin {"hello", "event"}
        BY <2>1, <4>1, ReplyQuiet
      <4> QED BY <4>1, <4>2
    <3>3. \A m \in Mac : \A v, w : w = After(v, <<e>>, m) /\ Consistent(m, v) => Consistent(m, w)'
      BY <2>3, <2>4
    <3>4. link' = "up" \/ pc' = "attach" => link = "up" \/ pc = "attach"
      BY <2>1
    <3> QED BY <1>k, <2>1, <2>2, <2>3, <3>1, <3>2, <3>3, <3>4, EmitWire
  <2>6. Ordered'
    <3>1. \A n \in DOMAIN ring' : ring'[n] = e \/ \E k \in DOMAIN ring : ring'[n] = ring[k]
      BY <2>1, <2>2, <2>3, EmitIs
    <3>2. \A x : Used(x)' => Used(x)
      BY <2>1, <2>2, <2>3, <3>1 DEF Used
    <3>3. ~Bringing'
      BY <2>1 DEF Bringing
    <3> QED BY <1>k, <2>1, <3>2, <3>3, OrderedKept
  <2> QED BY <2>4, <2>5, <2>6 DEF Known
<1>12. ASSUME NEW a \in Mac, End(a) PROVE Known'
  <2>1. /\ table[a] # None /\ ending' = ending \cup {<<a, table[a]>>}
        /\ table' = [table EXCEPT ![a] = None]
        /\ UNCHANGED <<ring, missed, early, pc, job, todo, outq, inq, link, view, grants>>
    BY <1>12 DEF End, events, stream, plane, bounds
  <2>2. Unsaid' = Unsaid
    BY <2>1 DEF Unsaid
  <2>3. /\ Gone' /\ Pending' /\ RingTrue'
        /\ \A m \in Mac : \A v : Consistent(m, v) => Consistent(m, v)'
    BY <1>k, <2>1, <2>2, EndsKnown
  <2>4. WireTrue'
    <3>1. Frames' = Frames
      BY <2>1 DEF Frames
    <3> QED BY <1>k, <2>1, <2>3, <3>1, SameWire
  <2>5. Ordered'
    <3>1. \A m \in Mac, x \in SessionId : table'[m] = x => table[m] = x
      BY <1>g, <2>1 DEF TypeInv, Typed
    <3>2. \A m, x : <<m, x>> \in ending' => <<m, x>> \in ending \/ (m = a /\ x = table[a])
      BY <2>1
    <3>3. \A x \in SessionId : Used(x)' => Used(x)
      BY <2>1, <2>2, <3>1, <3>2 DEF Used
    <3>4. Bringing' => Bringing /\ job'.cmd = job.cmd
      BY <2>1 DEF Bringing
    <3> QED BY <1>k, <2>1, <3>3, <3>4, OrderedKept
  <2> QED BY <2>3, <2>4, <2>5 DEF Known
<1>13. ASSUME NEW a \in Mac, Adopt(a) PROVE Known'
  <2>1. /\ table[a] = None /\ table' = [table EXCEPT ![a] = Adopted]
        /\ UNCHANGED <<ending, ring, missed, early, pc, job, todo, outq, inq, link, view, grants>>
    BY <1>13 DEF Adopt, events, stream, plane
  <2>2. Unsaid' = Unsaid
    BY <2>1 DEF Unsaid
  <2>3. /\ Gone' /\ Pending' /\ RingTrue'
        /\ \A m \in Mac : \A v : Consistent(m, v) => Consistent(m, v)'
    BY <1>k, <2>1, <2>2, AdoptKnown
  <2>4. WireTrue'
    <3>1. Frames' = Frames
      BY <2>1 DEF Frames
    <3> QED BY <1>k, <2>1, <2>3, <3>1, SameWire
  <2>5. Ordered'
    <3>1. \A m \in Mac, x \in SessionId \ {Adopted} : table'[m] = x => table[m] = x
      BY <2>1 DEF TypeInv, Typed
    <3>2. \A x \in SessionId \ {Adopted} : Used(x)' => Used(x)
      BY <2>1, <2>2, <3>1 DEF Used
    <3>3. Bringing' => Bringing /\ job'.cmd = job.cmd
      BY <2>1 DEF Bringing
    <3> QED BY <1>k, <2>1, <3>2, <3>3, OrderedKept
  <2> QED BY <2>3, <2>4, <2>5 DEF Known
<1>14. ASSUME NEW s \in ending, Announce(s) PROVE Known'
  <2>1. /\ Emit(Final(s[1], s[2])) /\ ending' = ending \ {s}
        /\ UNCHANGED <<table, pc, job, todo, outq, inq, link, view, grants>>
    BY <1>14 DEF Announce, stream, plane, bounds
  <2>2. /\ Gone' /\ Pending' /\ RingTrue' /\ Final(s[1], s[2]) \in SessionEvent
        /\ \A m \in Mac : \A v, w :
              w = After(v, <<Final(s[1], s[2])>>, m) /\ Consistent(m, v) => Consistent(m, w)'
    BY <1>k, <1>14, AnnounceKnown
  <2>3. PICK e \in SessionEvent : e = Final(s[1], s[2])
    BY <2>2
  <2>4. WireTrue'
    <3>1. \A m \in Mac : \A v, w : w = After(v, <<e>>, m) /\ Consistent(m, v) => Consistent(m, w)'
      BY <2>2, <2>3
    <3>2. Emit(e) /\ todo' = todo /\ UNCHANGED <<outq, view>>
      BY <2>1, <2>3
    <3>3. link' = "up" \/ pc' = "attach" => link = "up" \/ pc = "attach"
      BY <2>1
    <3> QED BY <1>k, <3>1, <3>2, <3>3, EmitWire
  <2>5. Ordered'
    <3>1. \A n \in DOMAIN ring' : ring'[n] = e \/ \E k \in DOMAIN ring : ring'[n] = ring[k]
      BY <2>1, <2>3, EmitIs
    <3>2. e.id = s[2] /\ s = <<s[1], s[2]>> /\ s[1] \in Mac
      BY <2>3 DEF Final, Event, TypeInv, Typed
    <3>3. Used(e.id)
      BY <3>2 DEF Used
    <3>4. Unsaid' = Unsaid
      BY <2>1 DEF Unsaid
    <3>5. \A x : Used(x)' => Used(x)
      BY <2>1, <3>1, <3>3, <3>4 DEF Used
    <3>6. Bringing' => Bringing /\ job'.cmd = job.cmd
      BY <2>1 DEF Bringing
    <3> QED BY <1>k, <2>1, <3>5, <3>6, OrderedKept
  <2> QED BY <2>2, <2>4, <2>5 DEF Known
<1>15. ASSUME Ask PROVE Known'
  <2>1. UNCHANGED <<table, ending, ring, missed, early, job, pc, outq, todo, view, link>>
    BY <1>15 DEF Ask, manager, events
  <2>2. Unsaid' = Unsaid
    BY <2>1 DEF Unsaid
  <2>3. Gone' /\ Pending' /\ RingTrue'
    BY <1>k, <2>1, <2>2, SameSessions
  <2>4. WireTrue'
    BY <1>k, <2>1, <2>2, SameFrames
  <2>5. Ordered'
    BY <1>k, <1>15, AskOrdered
  <2> QED BY <2>3, <2>4, <2>5 DEF Known
<1>16. ASSUME Receive PROVE Known'
  <2>1. UNCHANGED <<table, ending, ring, early, job, grants, inq>>
    BY <1>16 DEF Receive, manager, events, bounds
  <2>2. Unsaid' = Unsaid
    BY <2>1 DEF Unsaid
  <2>3. Gone' /\ Pending' /\ RingTrue'
    BY <1>k, <2>1, <2>2, SameSessions
  <2>4. Ordered'
    <3>1. \A x : Used(x)' => Used(x)
      BY <2>1, <2>2 DEF Used
    <3>2. Bringing' => Bringing /\ job'.cmd = job.cmd
      BY <2>1 DEF Bringing
    <3> QED BY <1>k, <2>1, <3>1, <3>2, OrderedKept
  <2>5. WireTrue'
    BY <1>k, <1>16, ReceiveWire
  <2> QED BY <2>3, <2>4, <2>5 DEF Known
<1>17. ASSUME Die PROVE Known'
  <2>1. /\ \A m \in Mac : table'[m] \in {None, Adopted}
        /\ ending' = {} /\ ring' = <<>> /\ job' = None /\ inq' = <<>> /\ grants' = grants
    BY <1>17 DEF Die
  <2>2. Gone' /\ Pending' /\ RingTrue' /\ WireTrue'
    BY <1>17, DieKnown
  <2>3. Ordered'
    <3>1. \A x \in SessionId \ {Adopted} : ~Used(x)'
      BY <1>g, <2>1 DEF Used, Unsaid
    <3>2. ~Bringing'
      BY <2>1 DEF Bringing
    <3> QED BY <1>k, <2>1, <3>1, <3>2, OrderedKept
  <2> QED BY <2>2, <2>3 DEF Known
<1> QED
  BY <1>1, <1>2, <1>3, <1>4, <1>5, <1>6, <1>7, <1>8, <1>9, <1>10, <1>11, <1>12, <1>13, <1>14,
     <1>15, <1>16, <1>17
  DEF Next, Connect, Select, Handler, Manager, Emits

\* Whatever is lost, and however often the stream breaks or the daemon dies: once all that was
\* emitted is delivered, the control plane takes for the table what is in the table, unless
\* the ring overran (channel.rs: the subscription that outlives the streams, the Hello each
\* stream begins with, the select loop that takes the events in turn; and the events that
\* the session manager and the handlers of portcullis-session emit).
THEOREM Rebaselines == Spec => []Rebaselined
<1>1. Spec => []TypeInv
  BY TypeCorrectChannel
<1>2. TypeInv /\ TypeInv' /\ Known /\ [Next]_vars => Known'
  BY StepKnown
<1> QED BY <1>1, <1>2, InitKnown, KnownIsRebaselined, PTL DEF Spec
=============================================================================
