-------------------------- MODULE OrderEventsProofs --------------------------
(***************************************************************************)
(* The numbered log and the event streams of OrderEvents, for any number   *)
(* of PATCH calls, processes and clients, and any BUFFER_LIMIT.            *)
(***************************************************************************)
EXTENDS OrderEvents, SequenceTheorems, FiniteSetTheorems, TLAPS

\* Everything the client of c was sent and has, or may still receive.
Sent(c) == got[c] \o wire[c]

Rising(s) == \A i, j \in DOMAIN s : i < j => s[i].id < s[j].id
Upto(s, n) == \A k \in DOMAIN s : s[k].id <= n
Committed(e) == e.id \in DOMAIN history /\ e.status = history[e.id]

\* The events lo + 1 to hi.
Between(lo, hi) == {[id |-> i, status |-> history[i]] : i \in lo + 1 .. hi}

\* The advisory lock lets one call number its event at a time, ...
Exclusive ==
  \A p, q \in Patches :
    pc[p] \in {"insert", "commit"} /\ pc[q] \in {"insert", "commit"} => p = q

\* ... so the number it read is still the next one when it commits.
Numbered ==
  \A p \in Patches :
    /\ pc[p] = "commit" => number[p] = Len(history) + 1
    /\ pc[p] \in {"emit", "told"} => number[p] \in DOMAIN history /\ history[number[p]] = p

\* What a stream is sent is committed and rises, and `seen' is not behind it.
Sends ==
  \A c \in Clients :
    /\ Rising(Sent(c)) /\ \A k \in DOMAIN Sent(c) : Committed(Sent(c)[k])
    /\ conn[c] = "away" => wire[c] = <<>>
    /\ conn[c] # "away" => lastId[c] <= seen[c] /\ Upto(Sent(c), seen[c])

\* The answer of since() is a piece of the log, and an event of the process that
\* it lacks has been written already.
Answered ==
  \A c \in Clients :
    conn[c] = "queried" =>
      \E hi \in 0 .. Len(history) : \E lo \in 0 .. hi :
        /\ rows[c] = Between(lo, hi)
        /\ lo = hi => hi <= seen[c]
        /\ \A p \in Patches : pc[p] = "told" /\ home[p] = at[c]
                                => number[p] <= hi \/ number[p] <= seen[c]

EventsInv ==
  /\ TypeOK /\ Exclusive /\ Numbered /\ LogIsNewestEvents
  /\ Sends /\ Answered /\ OpenStreamsAreCurrent

-----------------------------------------------------------------------------
(* Sequences of events.                                                    *)

LEMMA EventFields ==
  \A e \in Events : e.id \in Nat /\ e.id > 0 /\ e.status \in Patches
BY DEF Events

\* Later events behind earlier ones.
LEMMA RisingConcat ==
  ASSUME NEW s \in Seq(Events), NEW t \in Seq(Events), NEW n \in Nat,
         Rising(s), Rising(t), Upto(s, n), \A k \in DOMAIN t : t[k].id > n
  PROVE  Rising(s \o t)
<1>1. /\ Len(s) \in Nat /\ Len(t) \in Nat
      /\ DOMAIN s = 1 .. Len(s) /\ DOMAIN t = 1 .. Len(t)
      /\ DOMAIN (s \o t) = 1 .. Len(s) + Len(t)
      /\ \A i \in 1 .. Len(s) + Len(t) : (s \o t)[i] = IF i <= Len(s) THEN s[i] ELSE t[i - Len(s)]
  BY LenProperties, ConcatProperties
<1>2. SUFFICES ASSUME NEW i \in 1 .. Len(s) + Len(t), NEW j \in 1 .. Len(s) + Len(t), i < j
               PROVE  (s \o t)[i].id < (s \o t)[j].id
  BY <1>1 DEF Rising
<1>3. CASE j <= Len(s)
  <2>1. i \in DOMAIN s /\ j \in DOMAIN s /\ (s \o t)[i] = s[i] /\ (s \o t)[j] = s[j]
    BY <1>1, <1>2, <1>3
  <2> QED BY <1>2, <2>1 DEF Rising
<1>4. CASE i <= Len(s) /\ ~ (j <= Len(s))
  <2>1. i \in DOMAIN s /\ j - Len(s) \in DOMAIN t
        /\ (s \o t)[i] = s[i] /\ (s \o t)[j] = t[j - Len(s)]
    BY <1>1, <1>4
  <2>2. s[i].id <= n /\ t[j - Len(s)].id > n
    BY <2>1 DEF Upto
  <2>3. s[i].id \in Nat /\ t[j - Len(s)].id \in Nat
    BY <1>1, <2>1, ElementOfSeq, EventFields
  <2> QED BY <2>1, <2>2, <2>3
<1>5. CASE ~ (i <= Len(s))
  <2>1. /\ i - Len(s) \in DOMAIN t /\ j - Len(s) \in DOMAIN t /\ i - Len(s) < j - Len(s)
        /\ (s \o t)[i] = t[i - Len(s)] /\ (s \o t)[j] = t[j - Len(s)]
    BY <1>1, <1>2, <1>5
  <2> QED BY <2>1 DEF Rising
<1> QED BY <1>3, <1>4, <1>5

\* What holds of the members of both sequences holds of their concatenation.
LEMMA ConcatMembers ==
  ASSUME NEW S, NEW s \in Seq(S), NEW t \in Seq(S), NEW k \in DOMAIN (s \o t)
  PROVE  (\E i \in DOMAIN s : (s \o t)[k] = s[i]) \/ (\E i \in DOMAIN t : (s \o t)[k] = t[i])
<1>1. /\ Len(s) \in Nat /\ Len(t) \in Nat
      /\ DOMAIN s = 1 .. Len(s) /\ DOMAIN t = 1 .. Len(t)
      /\ DOMAIN (s \o t) = 1 .. Len(s) + Len(t)
      /\ (s \o t)[k] = IF k <= Len(s) THEN s[k] ELSE t[k - Len(s)]
  BY LenProperties, ConcatProperties
<1>2. CASE k <= Len(s)
  <2>1. k \in DOMAIN s /\ (s \o t)[k] = s[k]
    BY <1>1, <1>2
  <2> QED BY <2>1
<1>3. CASE ~ (k <= Len(s))
  <2>1. k - Len(s) \in DOMAIN t /\ (s \o t)[k] = t[k - Len(s)]
    BY <1>1, <1>3
  <2> QED BY <2>1
<1> QED BY <1>2, <1>3

\* A sequence is the beginning of its concatenation with another.
LEMMA ConcatBegins ==
  ASSUME NEW S, NEW s \in Seq(S), NEW t \in Seq(S)
  PROVE  \A i \in DOMAIN s : i \in DOMAIN (s \o t) /\ (s \o t)[i] = s[i]
<1>1. /\ Len(s) \in Nat /\ Len(t) \in Nat
      /\ DOMAIN s = 1 .. Len(s) /\ DOMAIN (s \o t) = 1 .. Len(s) + Len(t)
      /\ \A k \in 1 .. Len(s) + Len(t) :
           (s \o t)[k] = IF k <= Len(s) THEN s[k] ELSE t[k - Len(s)]
  BY LenProperties, ConcatProperties
<1> QED BY <1>1

\* Receiving moves an event from the wire to the client.
LEMMA ReceiveMoves ==
  ASSUME NEW S, NEW s \in Seq(S), NEW t \in Seq(S), t # <<>>
  PROVE  Append(s, Head(t)) \o Tail(t) = s \o t
<1> DEFINE l == Append(s, Head(t)) \o Tail(t)
           r == s \o t
<1>1. Head(t) \in S /\ Tail(t) \in Seq(S) /\ Len(Tail(t)) = Len(t) - 1 /\ Head(t) = t[1]
      /\ \A i \in 1 .. Len(t) - 1 : Tail(t)[i] = t[i + 1]
  BY HeadTailProperties
<1>2. Append(s, Head(t)) \in Seq(S) /\ Len(Append(s, Head(t))) = Len(s) + 1
      /\ \A i \in 1 .. Len(s) : Append(s, Head(t))[i] = s[i]
      /\ Append(s, Head(t))[Len(s) + 1] = t[1]
  BY <1>1
<1>3. Len(s) \in Nat /\ Len(t) \in Nat \ {0}
  BY LenProperties, EmptySeq
<1>4. l \in Seq(S) /\ Len(l) = Len(s) + Len(t)
      /\ \A i \in 1 .. Len(s) + Len(t) :
           l[i] = IF i <= Len(s) + 1 THEN Append(s, Head(t))[i] ELSE Tail(t)[i - (Len(s) + 1)]
  <2>1. (Len(s) + 1) + (Len(t) - 1) = Len(s) + Len(t)
    BY <1>3
  <2> QED BY <1>1, <1>2, <2>1, ConcatProperties
<1>5. r \in Seq(S) /\ Len(r) = Len(s) + Len(t)
      /\ \A i \in 1 .. Len(s) + Len(t) : r[i] = IF i <= Len(s) THEN s[i] ELSE t[i - Len(s)]
  BY ConcatProperties
<1>6. ASSUME NEW i \in 1 .. Len(s) + Len(t)
      PROVE  l[i] = r[i]
  <2> HIDE DEF l, r
  <2>1. CASE i <= Len(s)
    BY <1>2, <1>3, <1>4, <1>5, <2>1
  <2>2. CASE i = Len(s) + 1
    <3>1. i <= Len(s) + 1 /\ ~ (i <= Len(s)) /\ i - Len(s) = 1
      BY <1>3, <2>2
    <3>2. l[i] = Append(s, Head(t))[i] /\ r[i] = t[i - Len(s)]
      BY <1>4, <1>5, <3>1
    <3> QED BY <1>2, <2>2, <3>1, <3>2
  <2>3. CASE i > Len(s) + 1
    <3>1. l[i] = Tail(t)[i - (Len(s) + 1)] /\ r[i] = t[i - Len(s)]
      BY <1>3, <1>4, <1>5, <2>3
    <3>2. i - (Len(s) + 1) \in 1 .. Len(t) - 1 /\ (i - (Len(s) + 1)) + 1 = i - Len(s)
      BY <1>3, <2>3
    <3> QED BY <1>1, <3>1, <3>2
  <2> QED BY <1>3, <2>1, <2>2, <2>3
<1>7. l = r
  <2> HIDE DEF l, r
  <2> QED BY <1>4, <1>5, <1>6, SeqEqual
<1> QED BY <1>7

\* A piece of the history, put in order.
LEMMA InOrderIsReplay ==
  ASSUME history \in Seq(Patches),
         NEW hi \in 0 .. Len(history), NEW lo \in 0 .. hi
  PROVE  LET s == InOrder(Between(lo, hi)) IN
         /\ s \in Seq(Events) /\ Rising(s)
         /\ \A k \in DOMAIN s : s[k] \in Between(lo, hi)
         /\ s = <<>> <=> lo = hi
         /\ s # <<>> => Last(s) = [id |-> hi, status |-> history[hi]] /\ Upto(s, hi)
<1> DEFINE B == Between(lo, hi)
           n == hi - lo
           s == InOrder(B)
           w == [k \in 1 .. n |-> [id |-> lo + k, status |-> history[lo + k]]]
<1>1. /\ Len(history) \in Nat /\ DOMAIN history = 1 .. Len(history)
      /\ \A i \in 1 .. Len(history) : history[i] \in Patches
  BY LenProperties, ElementOfSeq
<1>2. hi \in Nat /\ lo \in Nat /\ n \in Nat /\ lo + n = hi
  BY <1>1
<1>3. \A e \in B : /\ e \in Events /\ e.id \in lo + 1 .. hi /\ e.status = history[e.id]
                   /\ e = [id |-> e.id, status |-> history[e.id]]
  BY <1>1, <1>2 DEF Between, Events
<1>4. \A i \in lo + 1 .. hi : [id |-> i, status |-> history[i]] \in B
  BY DEF Between
<1>5. w \in [1 .. n -> B] /\ \A k \in 1 .. n : w[k].id = lo + k
  <2>1. \A k \in 1 .. n : lo + k \in lo + 1 .. hi
    BY <1>2
  <2> HIDE DEF B, n
  <2> QED BY <1>4, <2>1
<1>6. IsFiniteSet(1 .. n) /\ Cardinality(1 .. n) = n
  <2> HIDE DEF n
  <2>1. /\ IsFiniteSet(1 .. n)
        /\ Cardinality(1 .. n) = IF 1 > n THEN 0 ELSE n - 1 + 1
    BY <1>2, FS_Interval
  <2> QED BY <1>2, <2>1
<1>7. IsFiniteSet(B) /\ Cardinality(B) = n
  <2>1. w \in Bijection(1 .. n, B)
    <3>1. \A i, j \in 1 .. n : w[i] = w[j] => i = j
      <4> HIDE DEF w, n
      <4>1. SUFFICES ASSUME NEW i \in 1 .. n, NEW j \in 1 .. n, w[i] = w[j] PROVE i = j
        OBVIOUS
      <4>2. lo + i = lo + j
        BY <1>5, <4>1
      <4> QED BY <1>2, <4>2
    <3>2. \A e \in B : \E k \in 1 .. n : w[k] = e
      <4> SUFFICES ASSUME NEW e \in B PROVE \E k \in 1 .. n : w[k] = e
        OBVIOUS
      <4>1. e.id - lo \in 1 .. n /\ lo + (e.id - lo) = e.id
        BY <1>2, <1>3
      <4>2. w[e.id - lo] = e
        <5> HIDE DEF B, n
        <5> QED BY <1>3, <4>1
      <4> QED BY <4>1, <4>2
    <3> HIDE DEF w, n, B
    <3> QED BY <1>5, <3>1, <3>2 DEF Bijection, Injection, Surjection, IsInjective
  <2> HIDE DEF w, n, B
  <2>2. ExistsBijection(1 .. n, B)
    BY <2>1 DEF ExistsBijection
  <2> QED BY <1>6, <2>2, FS_Bijection
<1>8. s \in [1 .. n -> B] /\ Rising(s)
  <2>1. w \in [1 .. n -> B] /\ \A i, j \in DOMAIN w : i < j => w[i].id < w[j].id
    <3> HIDE DEF B
    <3>1. \A i, j \in 1 .. n : i < j => lo + i < lo + j
      BY <1>2
    <3> QED BY <1>5, <3>1
  <2>2. s \in [1 .. n -> B] /\ \A i, j \in DOMAIN s : i < j => s[i].id < s[j].id
    <3> HIDE DEF w, B, n
    <3> QED BY <1>7, <2>1 DEF InOrder
  <2> QED BY <2>2 DEF Rising
<1> HIDE DEF s, w
<1>9. s \in Seq(Events) /\ Len(s) = n /\ DOMAIN s = 1 .. n
  <2>1. s \in [1 .. n -> Events]
    <3> HIDE DEF B, n
    <3> QED BY <1>3, <1>8
  <2> HIDE DEF B, n
  <2>2. s \in Seq(Events)
    BY <1>2, <2>1, SeqDef
  <2>3. DOMAIN s = 1 .. n /\ DOMAIN s = 1 .. Len(s) /\ Len(s) \in Nat
    BY <2>1, <2>2, LenProperties
  <2> QED BY <1>2, <2>2, <2>3
<1>10. s = <<>> <=> lo = hi
  <2>1. n = 0 <=> lo = hi
    BY <1>2
  <2> HIDE DEF n
  <2> QED BY <1>9, <2>1, EmptySeq
<1>11. ASSUME lo # hi
       PROVE  Last(s) = [id |-> hi, status |-> history[hi]] /\ Upto(s, hi)
  <2> DEFINE e == [id |-> hi, status |-> history[hi]]
  <2>1. e \in B /\ n \in 1 .. n /\ n > 0
    BY <1>2, <1>4, <1>11
  <2>2. \A i, j \in 1 .. n : s[i] = s[j] => i = j
    <3> SUFFICES ASSUME NEW i \in 1 .. n, NEW j \in 1 .. n, i # j PROVE s[i] # s[j]
      OBVIOUS
    <3>1. i < j \/ j < i
      BY <1>2
    <3>2. s[i].id < s[j].id \/ s[j].id < s[i].id
      BY <1>9, <1>8, <3>1 DEF Rising
    <3>3. s[i] \in Events
      BY <1>9, ElementOfSeq
    <3>4. s[i].id \in Nat
      BY <3>3, EventFields
    <3>5. \A m \in Nat : ~ (m < m)
      OBVIOUS
    <3> QED BY <3>2, <3>4, <3>5
  <2>3. \E k \in 1 .. n : s[k] = e
    <3>1. SUFFICES ASSUME \A k \in 1 .. n : s[k] # e PROVE FALSE
      OBVIOUS
    <3> HIDE DEF B, n, e
    <3>2. s \in Injection(1 .. n, B \ {e})
      BY <1>8, <2>2, <3>1 DEF Injection, IsInjective
    <3>3. IsFiniteSet(B \ {e}) /\ Cardinality(B \ {e}) = n - 1
      BY <1>7, <2>1, FS_RemoveElement
    <3>4. n <= n - 1
      BY <1>6, <3>2, <3>3, FS_Injection
    <3> QED BY <1>2, <3>4
  <2>4. PICK k \in 1 .. n : s[k] = e
    BY <2>3
  <2>5. s[n].id = hi
    <3>1. s[n] \in B /\ s[n].id \in lo + 1 .. hi
      BY <1>3, <1>8, <2>1
    <3>2. k = n \/ s[k].id < s[n].id
      BY <1>2, <1>8, <2>1 DEF Rising
    <3>3. s[k].id = hi
      BY <2>4
    <3> QED BY <1>2, <3>1, <3>2, <3>3
  <2>6. Last(s) = e
    <3>1. s[n] \in B
      BY <1>8, <2>1
    <3> QED BY <1>3, <1>9, <2>5, <3>1 DEF Last
  <2>7. Upto(s, hi)
    BY <1>2, <1>3, <1>8 DEF Upto
  <2> QED BY <2>6, <2>7
<1>12. \A k \in DOMAIN s : s[k] \in B
  BY <1>8
<1> QED BY <1>8, <1>9, <1>10, <1>11, <1>12 DEF s

-----------------------------------------------------------------------------
(* The log.                                                                *)

\* The number an event is given follows that of the newest one.
LEMMA NextIsLast ==
  ASSUME EventsInv
  PROVE  NextNumber = Len(history) + 1
<1> DEFINE n == Len(history)
<1>1. n \in Nat /\ BUFFER_LIMIT \in Nat \ {0}
  BY LenProperties, LimitAssumption DEF EventsInv, TypeOK
<1>2. DOMAIN log = {i \in 1 .. n : i > n - BUFFER_LIMIT}
  BY DEF EventsInv, LogIsNewestEvents
<1> HIDE DEF n
<1>3. CASE n = 0
  <2>1. DOMAIN log = {}
    BY <1>2, <1>3
  <2> QED BY <1>3, <2>1 DEF NextNumber, n
<1>4. CASE n # 0
  <2>1. n \in DOMAIN log /\ \A i \in DOMAIN log : n >= i /\ i \in Nat
    BY <1>1, <1>2, <1>4
  <2>2. Max(DOMAIN log) = n
    BY <1>1, <2>1 DEF Max
  <2> QED BY <2>1, <2>2 DEF NextNumber, n
<1> QED BY <1>3, <1>4

\* The trimming keeps the newest BUFFER_LIMIT numbers.
LEMMA RetainedAreNewest ==
  ASSUME NEW n \in Nat
  PROVE  Retained({i \in 1 .. n : i > n - BUFFER_LIMIT} \cup {n + 1})
           = {i \in 1 .. n + 1 : i > n + 1 - BUFFER_LIMIT}
<1> DEFINE ids == {i \in 1 .. n : i > n - BUFFER_LIMIT} \cup {n + 1}
<1>1. BUFFER_LIMIT \in Nat \ {0}
  BY LimitAssumption
<1>2. ids = {i \in 1 .. n + 1 : i > n - BUFFER_LIMIT}
  BY <1>1
<1>3. ASSUME NEW i \in ids
      PROVE  Cardinality({j \in ids : j > i}) < BUFFER_LIMIT <=> i > n + 1 - BUFFER_LIMIT
  <2>1. i \in 1 .. n + 1 /\ i + 1 \in Int /\ n + 1 \in Int
    BY <1>2, <1>3
  <2>2. {j \in ids : j > i} = i + 1 .. n + 1
    BY <1>1, <1>2, <1>3, <2>1
  <2>3. Cardinality(i + 1 .. n + 1) = IF i + 1 > n + 1 THEN 0 ELSE (n + 1) - (i + 1) + 1
    BY <2>1, FS_Interval
  <2>4. Cardinality(i + 1 .. n + 1) = n + 1 - i
    BY <2>1, <2>3
  <2>5. n + 1 - i < BUFFER_LIMIT <=> i > n + 1 - BUFFER_LIMIT
    BY <1>1, <2>1
  <2> HIDE DEF ids
  <2> QED BY <2>2, <2>4, <2>5
<1>4. Retained(ids) = {i \in ids : i > n + 1 - BUFFER_LIMIT}
  <2> HIDE DEF ids
  <2> QED BY <1>3 DEF Retained
<1>5. {i \in ids : i > n + 1 - BUFFER_LIMIT} = {i \in 1 .. n + 1 : i > n + 1 - BUFFER_LIMIT}
  BY <1>1, <1>2
<1> QED BY <1>4, <1>5

\* The history grows at its end.
LEMMA HistoryGrows ==
  ASSUME EventsInv, NEW p \in Patches, history' = Append(history, p)
  PROVE  /\ history' \in Seq(Patches) /\ Len(history) \in Nat /\ Len(history') = Len(history) + 1
         /\ DOMAIN history = 1 .. Len(history) /\ DOMAIN history' = 1 .. Len(history) + 1
         /\ \A i \in 1 .. Len(history) : history'[i] = history[i]
         /\ history'[Len(history) + 1] = p
<1>1. history \in Seq(Patches)
  BY DEF EventsInv, TypeOK
<1> QED BY <1>1

-----------------------------------------------------------------------------
(* The steps keep the invariant.                                           *)

LEMMA EventsInit == Init => EventsInv
<1> SUFFICES ASSUME Init PROVE EventsInv
  OBVIOUS
<1>1. <<>> \in Seq(Patches) /\ <<>> \in Seq(Events) /\ Len(<<>>) = 0
  OBVIOUS
<1>2. TypeOK
  BY <1>1, LimitAssumption DEF Init, TypeOK
<1>3. Exclusive /\ Numbered /\ Answered /\ OpenStreamsAreCurrent
  BY DEF Init, Exclusive, Numbered, Answered, OpenStreamsAreCurrent
<1>4. LogIsNewestEvents
  BY <1>1 DEF Init, LogIsNewestEvents
<1>5. Sends
  BY DEF Init, Sends, Sent, Rising
<1> QED BY <1>2, <1>3, <1>4, <1>5 DEF EventsInv

\* A step of a PATCH call that commits and emits nothing.
LEMMA PatchMoves ==
  ASSUME EventsInv, NEW p \in Patches, pc[p] \notin {"emit", "told"},
         NEW s \in {"save", "lock", "insert", "commit", "done"}, Goto(p, s),
         row' \in Patches \cup {Initial},
         home' \in [Patches -> Procs \cup {None}],
         \A q \in Patches \ {p} : home'[q] = home[q],
         number' \in [Patches -> Nat],
         \A q \in Patches \ {p} : number'[q] = number[q],
         s = "insert" => \A q \in Patches : pc[q] \notin {"insert", "commit"},
         s = "commit" => pc[p] = "insert" /\ number'[p] = Len(history) + 1,
         faults' \in 0 .. MaxFaults,
         UNCHANGED <<log, history, streamVars, clientVars>>
  PROVE  EventsInv'
<1> USE DEF streamVars, clientVars
<1>1. pc' = [pc EXCEPT ![p] = s] /\ pc \in [Patches -> {"idle", "save", "lock", "insert", "commit", "emit", "told", "done"}]
  BY DEF Goto, EventsInv, TypeOK
<1>2. pc'[p] = s /\ \A q \in Patches \ {p} : pc'[q] = pc[q]
  BY <1>1
<1>3. TypeOK'
  BY <1>1 DEF EventsInv, TypeOK, Events
<1>4. Exclusive'
  BY <1>2 DEF EventsInv, Exclusive
<1>5. Numbered'
  BY <1>2 DEF EventsInv, Numbered
<1>6. LogIsNewestEvents'
  BY DEF EventsInv, LogIsNewestEvents
<1>7. Sends'
  <2>1. Sends
    BY DEF EventsInv
  <2>2. (\A c : Sent(c)' = Sent(c)) /\ (\A e : Committed(e)' <=> Committed(e))
    BY DEF Sent, Committed
  <2>3. ASSUME NEW c \in Clients
        PROVE  /\ (Rising(Sent(c)) /\ (\A k \in DOMAIN Sent(c) : Committed(Sent(c)[k])))'
               /\ conn'[c] = "away" => wire'[c] = <<>>
               /\ conn'[c] # "away" => lastId'[c] <= seen'[c] /\ Upto(Sent(c), seen[c])'
    BY <2>1, <2>2 DEF Sends, Rising, Upto
  <2> QED BY <2>3 DEF Sends
<1>8. \A q \in Patches : pc'[q] = "told" => pc[q] = "told" /\ home'[q] = home[q] /\ number'[q] = number[q]
  BY <1>2
<1>9. Answered'
  <2>1. \A lo, hi : Between(lo, hi)' = Between(lo, hi)
    BY DEF Between
  <2>2. Answered
    BY DEF EventsInv
  <2> QED BY <1>8, <2>1, <2>2 DEF Answered
<1>10. OpenStreamsAreCurrent'
  BY <1>8 DEF EventsInv, OpenStreamsAreCurrent
<1> QED BY <1>3, <1>4, <1>5, <1>6, <1>7, <1>9, <1>10 DEF EventsInv

LEMMA RequestInv ==
  ASSUME EventsInv, NEW p \in Patches, Request(p)
  PROVE  EventsInv'
<1>1. home' \in [Patches -> Procs \cup {None}] /\ \A q \in Patches \ {p} : home'[q] = home[q]
  BY DEF Request, EventsInv, TypeOK
<1> QED BY <1>1, PatchMoves DEF Request, EventsInv, TypeOK

LEMMA SaveRowInv ==
  ASSUME EventsInv, NEW p \in Patches, SaveRow(p)
  PROVE  EventsInv'
BY PatchMoves DEF SaveRow, EventsInv, TypeOK

LEMMA LockInv ==
  ASSUME EventsInv, NEW p \in Patches, Lock(p)
  PROVE  EventsInv'
BY PatchMoves DEF Lock, EventsInv, TypeOK

LEMMA InsertInv ==
  ASSUME EventsInv, NEW p \in Patches, Insert(p)
  PROVE  EventsInv'
<1>1. number' = [number EXCEPT ![p] = Len(history) + 1] /\ Len(history) + 1 \in Nat
  <2>1. history \in Seq(Patches)
    BY DEF EventsInv, TypeOK
  <2>2. Len(history) + 1 \in Nat
    BY <2>1
  <2> QED BY <2>2, NextIsLast DEF Insert
<1>2. number' \in [Patches -> Nat] /\ number'[p] = Len(history) + 1
      /\ \A q \in Patches \ {p} : number'[q] = number[q]
  BY <1>1 DEF EventsInv, TypeOK
<1> QED BY <1>2, PatchMoves DEF Insert, EventsInv, TypeOK

LEMMA PatchFailsInv ==
  ASSUME EventsInv, NEW p \in Patches, PatchFails(p)
  PROVE  EventsInv'
<1>1. faults' \in 0 .. MaxFaults
  BY LimitAssumption DEF PatchFails, Fault, EventsInv, TypeOK
<1> QED BY <1>1, PatchMoves DEF PatchFails, EventsInv, TypeOK

\* The transaction ends: its event is the newest one.
LEMMA CommitEventInv ==
  ASSUME EventsInv, NEW p \in Patches, CommitEvent(p)
  PROVE  EventsInv'
<1> DEFINE n == Len(history)
           ids == DOMAIN log \cup {number[p]}
<1> USE DEF streamVars, clientVars
<1>1. /\ pc[p] = "commit" /\ number[p] = n + 1
      /\ log' = [i \in Retained(ids) |-> IF i = number[p] THEN p ELSE log[i]]
      /\ history' = Append(history, p)
      /\ UNCHANGED <<row, home, number, streamVars, clientVars, faults>>
  BY DEF CommitEvent, EventsInv, Numbered
<1>2. PICK s \in {"emit", "done"} : pc' = [pc EXCEPT ![p] = s]
  BY DEF CommitEvent, Goto
<1>3. /\ history' \in Seq(Patches) /\ n \in Nat /\ Len(history') = n + 1
      /\ DOMAIN history = 1 .. n /\ DOMAIN history' = 1 .. n + 1
      /\ \A i \in 1 .. n : history'[i] = history[i]
      /\ history'[n + 1] = p
  BY <1>1, HistoryGrows
<1>4. /\ DOMAIN log = {i \in 1 .. n : i > n - BUFFER_LIMIT}
      /\ \A i \in DOMAIN log : log[i] = history[i]
  BY DEF EventsInv, LogIsNewestEvents
<1>5. pc'[p] = s /\ \A q \in Patches \ {p} : pc'[q] = pc[q]
  BY <1>2 DEF EventsInv, TypeOK
<1>6. \A q \in Patches : pc'[q] = "told" => pc[q] = "told" /\ q # p
  BY <1>5
<1> HIDE DEF n
<1>7. DOMAIN log' = {i \in 1 .. n + 1 : i > n + 1 - BUFFER_LIMIT}
  BY <1>1, <1>3, <1>4, RetainedAreNewest
<1>8. \A i \in DOMAIN log' : log'[i] = history'[i]
  <2> SUFFICES ASSUME NEW i \in DOMAIN log' PROVE log'[i] = history'[i]
    OBVIOUS
  <2>1. log'[i] = IF i = number[p] THEN p ELSE log[i]
    BY <1>1
  <2>2. CASE i = n + 1
    BY <1>1, <1>3, <2>1, <2>2
  <2>3. CASE i # n + 1
    <3>1. i \in 1 .. n /\ i \in DOMAIN log
      <4>1. BUFFER_LIMIT \in Nat
        BY LimitAssumption
      <4> QED BY <1>3, <1>4, <1>7, <2>3, <4>1
    <3> QED BY <1>1, <1>3, <1>4, <2>1, <2>3, <3>1
  <2> QED BY <2>2, <2>3
<1>9. LogIsNewestEvents'
  <2> DEFINE m == Len(history')
  <2>1. DOMAIN log' = {i \in 1 .. m : i > m - BUFFER_LIMIT}
    <3>1. m = n + 1 /\ n \in Nat /\ BUFFER_LIMIT \in Nat
      BY <1>3, LimitAssumption
    <3> HIDE DEF m
    <3>2. \A i : i \in DOMAIN log' <=> i \in 1 .. m /\ i > m - BUFFER_LIMIT
      BY <1>7, <3>1
    <3> QED BY <3>2
  <2> QED BY <1>8, <2>1 DEF LogIsNewestEvents
<1>10. TypeOK'
  <2>1. DOMAIN log' \subseteq Nat \ {0}
    BY <1>3, <1>7
  <2>2. \A i \in DOMAIN log' : log'[i] \in Patches
    <3>1. \A i \in 1 .. n + 1 : history'[i] \in Patches
      BY <1>3, ElementOfSeq
    <3> QED BY <1>3, <1>7, <1>8, <3>1
  <2>3. pc' \in [Patches -> {"idle", "save", "lock", "insert", "commit", "emit", "told", "done"}]
    BY <1>2 DEF EventsInv, TypeOK
  <2> QED BY <1>1, <1>3, <2>1, <2>2, <2>3 DEF EventsInv, TypeOK, Events
<1>11. Exclusive'
  BY <1>5 DEF EventsInv, Exclusive
<1>12. Numbered'
  <2> SUFFICES ASSUME NEW q \in Patches
               PROVE  /\ pc'[q] = "commit" => number'[q] = Len(history') + 1
                      /\ pc'[q] \in {"emit", "told"}
                           => number'[q] \in DOMAIN history' /\ history'[number'[q]] = q
    BY DEF Numbered
  <2>1. CASE q = p
    BY <1>1, <1>3, <1>5, <2>1
  <2>2. CASE q # p
    <3>1. pc'[q] = pc[q] /\ number'[q] = number[q] /\ pc[q] # "commit"
      BY <1>1, <1>5, <2>2 DEF EventsInv, Exclusive
    <3>2. pc[q] \in {"emit", "told"} => number[q] \in 1 .. n /\ history[number[q]] = q
      BY <1>3 DEF EventsInv, Numbered
    <3> QED BY <1>3, <3>1, <3>2
  <2> QED BY <2>1, <2>2
<1>13. Sends'
  <2>1. \A e : Committed(e) => Committed(e)'
    BY <1>3 DEF Committed
  <2>2. \A c : Sent(c)' = Sent(c)
    BY <1>1 DEF Sent
  <2>3. \A c \in Clients : \A k \in DOMAIN Sent(c) : Committed(Sent(c)[k])
    BY DEF EventsInv, Sends
  <2>4. ASSUME NEW c \in Clients, NEW k \in DOMAIN Sent(c)'
        PROVE  Committed(Sent(c)[k])'
    <3>1. Committed(Sent(c)[k])
      BY <2>2, <2>3, <2>4
    <3> QED BY <1>3, <2>2, <3>1 DEF Committed
  <2> QED BY <1>1, <2>2, <2>4 DEF EventsInv, Sends, Rising, Upto
<1>14. Answered'
  <2>1. ASSUME NEW hi \in 0 .. n, NEW lo \in 0 .. hi
        PROVE  Between(lo, hi)' = Between(lo, hi)
    <3>1. \A i \in lo + 1 .. hi : history'[i] = history[i]
      BY <1>3
    <3> QED BY <3>1 DEF Between
  <2>2. \A hi \in 0 .. n : hi \in 0 .. n + 1
    BY <1>3
  <2> SUFFICES ASSUME NEW c \in Clients, conn'[c] = "queried"
               PROVE  \E hi \in 0 .. Len(history') : \E lo \in 0 .. hi :
                        /\ rows'[c] = Between(lo, hi)'
                        /\ lo = hi => hi <= seen'[c]
                        /\ \A q \in Patches : pc'[q] = "told" /\ home'[q] = at'[c]
                                => number'[q] <= hi \/ number'[q] <= seen'[c]
    BY DEF Answered
  <2>0. PICK hi \in 0 .. n : \E lo \in 0 .. hi :
          /\ rows[c] = Between(lo, hi)
          /\ lo = hi => hi <= seen[c]
          /\ \A q \in Patches : pc[q] = "told" /\ home[q] = at[c]
                                => number[q] <= hi \/ number[q] <= seen[c]
    BY <1>1 DEF EventsInv, Answered, n
  <2>3. PICK lo \in 0 .. hi :
          /\ rows[c] = Between(lo, hi)
          /\ lo = hi => hi <= seen[c]
          /\ \A q \in Patches : pc[q] = "told" /\ home[q] = at[c]
                                => number[q] <= hi \/ number[q] <= seen[c]
    BY <2>0
  <2>4. hi \in 0 .. Len(history')
    BY <1>3, <2>2
  <2>5. rows'[c] = Between(lo, hi)'
    BY <1>1, <2>1, <2>3
  <2> QED BY <1>1, <1>6, <2>3, <2>4, <2>5
<1>15. OpenStreamsAreCurrent'
  BY <1>1, <1>6 DEF EventsInv, OpenStreamsAreCurrent
<1> QED BY <1>9, <1>10, <1>11, <1>12, <1>13, <1>14, <1>15 DEF EventsInv

\* What a step must show that leaves the log alone and writes to streams.
LEMMA StreamsFrame ==
  ASSUME EventsInv, UNCHANGED <<row, log, history, home, number>>
  PROVE  /\ LogIsNewestEvents'
         /\ \A e : Committed(e)' <=> Committed(e)
         /\ \A lo, hi : Between(lo, hi)' = Between(lo, hi)
<1>1. LogIsNewestEvents'
  BY DEF EventsInv, LogIsNewestEvents
<1>2. \A e : Committed(e)' <=> Committed(e)
  BY DEF Committed
<1>3. \A lo, hi : Between(lo, hi)' = Between(lo, hi)
  BY DEF Between
<1> QED BY <1>1, <1>2, <1>3

\* One more committed event behind all that a client was sent.
LEMMA OneMore ==
  ASSUME NEW s \in Seq(Events), NEW n \in Nat, NEW e \in Events,
         Rising(s), Upto(s, n), e.id > n
  PROVE  Rising(Append(s, e)) /\ Upto(Append(s, e), e.id)
<1> DEFINE l == Len(s)
<1>1. /\ l \in Nat /\ DOMAIN s = 1 .. l /\ DOMAIN Append(s, e) = 1 .. l + 1
      /\ \A i \in 1 .. l : Append(s, e)[i] = s[i]
      /\ Append(s, e)[l + 1] = e
  OBVIOUS
<1>2. \A i \in 1 .. l : s[i].id \in Nat /\ s[i].id <= n
  BY <1>1, ElementOfSeq, EventFields DEF Upto
<1>3. e.id \in Nat
  BY EventFields
<1> HIDE DEF l
<1>4. Upto(Append(s, e), e.id)
  <2> SUFFICES ASSUME NEW k \in 1 .. l + 1 PROVE Append(s, e)[k].id <= e.id
    BY <1>1 DEF Upto
  <2>1. CASE k = l + 1
    BY <1>1, <1>3, <2>1
  <2>2. CASE k # l + 1
    <3>1. k \in 1 .. l
      BY <1>1, <2>2
    <3> QED BY <1>1, <1>2, <1>3, <3>1
  <2> QED BY <2>1, <2>2
<1>5. Rising(Append(s, e))
  <2> SUFFICES ASSUME NEW i \in 1 .. l + 1, NEW j \in 1 .. l + 1, i < j
               PROVE  Append(s, e)[i].id < Append(s, e)[j].id
    BY <1>1 DEF Rising
  <2>1. i \in 1 .. l /\ Append(s, e)[i] = s[i]
    BY <1>1
  <2>2. CASE j = l + 1
    BY <1>1, <1>2, <1>3, <2>1, <2>2
  <2>3. CASE j # l + 1
    <3>1. j \in 1 .. l /\ Append(s, e)[j] = s[j]
      BY <1>1, <2>3
    <3> QED BY <1>1, <2>1, <3>1 DEF Rising
  <2> QED BY <2>2, <2>3
<1> QED BY <1>4, <1>5

\* Every stream of the process has been sent the event now, or a newer one.
LEMMA EmitInv ==
  ASSUME EventsInv, NEW p \in Patches, Emit(p)
  PROVE  EventsInv'
<1> DEFINE e == [id |-> number[p], status |-> p]
           hears(c) == Listens(c, home[p]) /\ Fresh(c, {e}) # {}
<1>1. /\ pc[p] = "emit" /\ pc' = [pc EXCEPT ![p] = "told"]
      /\ wire' = [c \in Clients |-> IF hears(c) THEN Append(wire[c], e) ELSE wire[c]]
      /\ seen' = [c \in Clients |-> IF hears(c) THEN e.id ELSE seen[c]]
      /\ UNCHANGED <<row, log, history, home, number, conn, at, lastId, rows, got, faults>>
  BY DEF Emit, Goto
<1>2. e \in Events /\ Committed(e) /\ e.id = number[p] /\ number[p] \in Nat
  <2>1. number[p] \in DOMAIN history /\ history[number[p]] = p
    BY <1>1 DEF EventsInv, Numbered
  <2>2. number[p] \in Nat \ {0}
    BY <2>1, LenProperties DEF EventsInv, TypeOK
  <2> QED BY <2>1, <2>2 DEF Committed, Events
<1>3. TypeOK
  BY DEF EventsInv
<1>4. ASSUME NEW c \in Clients
      PROVE  hears(c) <=> conn[c] # "away" /\ at[c] = home[p] /\ number[p] > seen[c]
  BY <1>2 DEF Listens, Fresh
<1>5. pc'[p] = "told" /\ \A q \in Patches \ {p} : pc'[q] = pc[q]
  BY <1>1, <1>3 DEF TypeOK
<1>6. ASSUME NEW c \in Clients
      PROVE  /\ hears(c) => wire'[c] = Append(wire[c], e) /\ seen'[c] = number[p]
             /\ ~ hears(c) => wire'[c] = wire[c] /\ seen'[c] = seen[c]
             /\ seen[c] \in Nat /\ seen'[c] \in Nat /\ seen[c] <= seen'[c]
  <2>1. seen[c] \in Nat
    BY <1>3 DEF TypeOK
  <2>2. /\ hears(c) => wire'[c] = Append(wire[c], e) /\ seen'[c] = number[p]
        /\ ~ hears(c) => wire'[c] = wire[c] /\ seen'[c] = seen[c]
    BY <1>1, <1>2
  <2>3. hears(c) => number[p] > seen[c]
    BY <1>4
  <2> HIDE DEF hears
  <2> QED BY <1>2, <2>1, <2>2, <2>3
<1>7. ASSUME NEW c \in Clients
      PROVE  /\ got[c] \in Seq(Events) /\ wire[c] \in Seq(Events) /\ Sent(c) \in Seq(Events)
             /\ hears(c) => Sent(c)' = Append(Sent(c), e)
             /\ ~ hears(c) => Sent(c)' = Sent(c)
  <2>1. got[c] \in Seq(Events) /\ wire[c] \in Seq(Events)
    BY <1>3 DEF TypeOK
  <2>2. Sent(c) \in Seq(Events)
    BY <2>1 DEF Sent
  <2>3. \A s, t \in Seq(Events) : s \o Append(t, e) = Append(s \o t, e)
    <3> HIDE DEF e
    <3> QED BY <1>2
  <2>4. Sent(c)' = got[c] \o wire'[c]
    BY <1>1 DEF Sent
  <2> HIDE DEF hears, e
  <2> QED BY <1>6, <2>1, <2>2, <2>3, <2>4 DEF Sent
<1> HIDE DEF hears, e
<1>8. TypeOK'
  <2>1. pc' \in [Patches -> {"idle", "save", "lock", "insert", "commit", "emit", "told", "done"}]
    BY <1>1, <1>3 DEF TypeOK
  <2>2. wire' \in [Clients -> Seq(Events)] /\ seen' \in [Clients -> Nat]
    <3>1. \A s \in Seq(Events) : Append(s, e) \in Seq(Events)
      BY <1>2
    <3> QED BY <1>1, <1>2, <1>7, <1>3, <3>1 DEF TypeOK
  <2> QED BY <1>1, <1>3, <2>1, <2>2 DEF TypeOK
<1>9. Exclusive' /\ Numbered'
  BY <1>1, <1>5 DEF EventsInv, Exclusive, Numbered
<1>10. LogIsNewestEvents' /\ (\A d : Committed(d)' <=> Committed(d))
       /\ (\A lo, hi : Between(lo, hi)' = Between(lo, hi))
  BY <1>1, StreamsFrame
<1>11. Sends'
  <2> SUFFICES ASSUME NEW c \in Clients
               PROVE  /\ Rising(Sent(c)') /\ \A k \in DOMAIN Sent(c)' : Committed(Sent(c)'[k])
                      /\ conn'[c] = "away" => wire'[c] = <<>>
                      /\ conn'[c] # "away" => lastId'[c] <= seen'[c] /\ Upto(Sent(c)', seen'[c])
    BY <1>10 DEF Sends, Rising, Upto
  <2>1. /\ Rising(Sent(c)) /\ \A k \in DOMAIN Sent(c) : Committed(Sent(c)[k])
        /\ conn[c] = "away" => wire[c] = <<>>
        /\ conn[c] # "away" => lastId[c] <= seen[c] /\ Upto(Sent(c), seen[c])
    BY DEF EventsInv, Sends
  <2>2. lastId[c] \in Nat
    BY <1>3 DEF TypeOK
  <2>3. CASE hears(c)
    <3>1. conn[c] # "away" /\ number[p] > seen[c]
      BY <1>4, <2>3
    <3>2. Rising(Append(Sent(c), e)) /\ Upto(Append(Sent(c), e), number[p])
      BY <1>2, <1>6, <1>7, <2>1, <3>1, OneMore
    <3>3. \A k \in DOMAIN Append(Sent(c), e) : Committed(Append(Sent(c), e)[k])
      <4>1. \A k \in DOMAIN Append(Sent(c), e) :
              \/ Append(Sent(c), e)[k] = e
              \/ k \in DOMAIN Sent(c) /\ Append(Sent(c), e)[k] = Sent(c)[k]
        BY <1>7
      <4> QED BY <1>2, <2>1, <4>1
    <3>4. Sent(c)' = Append(Sent(c), e) /\ seen'[c] = number[p]
      BY <1>6, <1>7, <2>3
    <3>5. lastId[c] <= number[p]
      <4>1. lastId[c] <= seen[c] /\ seen[c] \in Nat
        BY <1>6, <2>1, <3>1
      <4> QED BY <1>2, <2>2, <3>1, <4>1
    <3> QED BY <1>1, <3>1, <3>2, <3>3, <3>4, <3>5
  <2>4. CASE ~ hears(c)
    BY <1>1, <1>6, <1>7, <2>1, <2>4
  <2> QED BY <2>3, <2>4
<1>12. ASSUME NEW c \in Clients, conn[c] # "away", home[p] = at[c]
       PROVE  number[p] <= seen'[c]
  BY <1>2, <1>4, <1>6, <1>12
<1>13. \A q \in Patches : number[q] \in Nat
  BY <1>3 DEF TypeOK
<1>14. Answered'
  <2> SUFFICES ASSUME NEW c \in Clients, conn'[c] = "queried"
               PROVE  \E hi \in 0 .. Len(history') : \E lo \in 0 .. hi :
                        /\ rows'[c] = Between(lo, hi)'
                        /\ lo = hi => hi <= seen'[c]
                        /\ \A q \in Patches : pc'[q] = "told" /\ home'[q] = at'[c]
                                => number'[q] <= hi \/ number'[q] <= seen'[c]
    BY DEF Answered
  <2>1. PICK hi \in 0 .. Len(history) : \E lo \in 0 .. hi :
          /\ rows[c] = Between(lo, hi)
          /\ lo = hi => hi <= seen[c]
          /\ \A q \in Patches : pc[q] = "told" /\ home[q] = at[c]
                                => number[q] <= hi \/ number[q] <= seen[c]
    BY <1>1 DEF EventsInv, Answered
  <2>2. PICK lo \in 0 .. hi :
          /\ rows[c] = Between(lo, hi)
          /\ lo = hi => hi <= seen[c]
          /\ \A q \in Patches : pc[q] = "told" /\ home[q] = at[c]
                                => number[q] <= hi \/ number[q] <= seen[c]
    BY <2>1
  <2>3. ASSUME NEW q \in Patches, pc'[q] = "told", home[q] = at[c]
        PROVE  number[q] <= hi \/ number[q] <= seen'[c]
    <3>1. CASE q = p
      BY <1>1, <1>12, <2>3, <3>1
    <3>2. CASE q # p
      <4>1. number[q] <= hi \/ number[q] <= seen[c]
        BY <1>5, <2>2, <2>3, <3>2
      <4> QED BY <1>6, <1>13, <4>1
    <3> QED BY <3>1, <3>2
  <2>4. lo = hi => hi <= seen'[c]
    <3>1. hi \in Nat
      BY <1>3, LenProperties DEF TypeOK
    <3> QED BY <1>6, <2>2, <3>1
  <2> QED BY <1>1, <1>10, <2>2, <2>3, <2>4
<1>15. OpenStreamsAreCurrent'
  <2> SUFFICES ASSUME NEW c \in Clients, NEW q \in Patches,
                      conn[c] = "open", pc'[q] = "told", home[q] = at[c]
               PROVE  seen'[c] >= number[q]
    BY <1>1 DEF OpenStreamsAreCurrent
  <2>1. CASE q = p
    BY <1>6, <1>12, <1>13, <2>1
  <2>2. CASE q # p
    <3>1. seen[c] >= number[q]
      BY <1>5, <2>2 DEF EventsInv, OpenStreamsAreCurrent
    <3> QED BY <1>6, <1>13, <3>1
  <2> QED BY <2>1, <2>2
<1> QED BY <1>8, <1>9, <1>10, <1>11, <1>14, <1>15 DEF EventsInv

-----------------------------------------------------------------------------
(* The steps of a stream.                                                  *)

\* What the invariant says of one client's stream.
StreamOK(c) ==
  /\ Rising(Sent(c)) /\ \A k \in DOMAIN Sent(c) : Committed(Sent(c)[k])
  /\ conn[c] = "away" => wire[c] = <<>>
  /\ conn[c] # "away" => lastId[c] <= seen[c] /\ Upto(Sent(c), seen[c])
  /\ conn[c] = "queried" =>
       \E hi \in 0 .. Len(history) : \E lo \in 0 .. hi :
         /\ rows[c] = Between(lo, hi)
         /\ lo = hi => hi <= seen[c]
         /\ \A p \in Patches : pc[p] = "told" /\ home[p] = at[c]
                                => number[p] <= hi \/ number[p] <= seen[c]
  /\ conn[c] = "open" =>
       \A p \in Patches : pc[p] = "told" /\ home[p] = at[c] => seen[c] >= number[p]

LEMMA StreamsOK ==
  ASSUME EventsInv, NEW c \in Clients
  PROVE  StreamOK(c)
BY DEF EventsInv, Sends, Answered, OpenStreamsAreCurrent, StreamOK

\* A step that leaves the log and the calls alone, or ends calls: it is enough
\* to look at the streams it touches.
LEMMA StreamStep ==
  ASSUME EventsInv, TypeOK', UNCHANGED <<row, log, history, home, number>>,
         NEW D \in SUBSET Patches,
         pc' = [p \in Patches |-> IF p \in D THEN "done" ELSE pc[p]],
         NEW C \in SUBSET Clients, \A c \in C : StreamOK(c)',
         \A c \in Clients \ C :
           /\ conn'[c] = conn[c] /\ at'[c] = at[c] /\ lastId'[c] = lastId[c]
           /\ seen'[c] = seen[c] /\ rows'[c] = rows[c]
           /\ wire'[c] = wire[c] /\ got'[c] = got[c]
  PROVE  EventsInv'
<1>1. LogIsNewestEvents' /\ (\A e : Committed(e)' <=> Committed(e))
      /\ (\A lo, hi : Between(lo, hi)' = Between(lo, hi))
  BY StreamsFrame
<1>2. \A p \in Patches : pc'[p] = pc[p] \/ pc'[p] = "done"
  OBVIOUS
<1>3. Exclusive'
  BY <1>2 DEF EventsInv, Exclusive
<1>4. Numbered'
  BY <1>2 DEF EventsInv, Numbered
<1>5. ASSUME NEW c \in Clients \ C
      PROVE  StreamOK(c)'
  <2>1. StreamOK(c)
    BY StreamsOK
  <2>2. Sent(c)' = Sent(c)
    BY DEF Sent
  <2>3. /\ Rising(Sent(c))' /\ (\A k \in DOMAIN Sent(c) : Committed(Sent(c)[k]))'
        /\ conn'[c] = "away" => wire'[c] = <<>>
        /\ conn'[c] # "away" => lastId'[c] <= seen'[c] /\ Upto(Sent(c)', seen'[c])
    BY <1>1, <2>1, <2>2 DEF StreamOK
  <2>4. conn'[c] = "queried" =>
          \E hi \in 0 .. Len(history') : \E lo \in 0 .. hi :
            /\ rows'[c] = Between(lo, hi)'
            /\ lo = hi => hi <= seen'[c]
            /\ \A p \in Patches : pc'[p] = "told" /\ home'[p] = at'[c]
                                => number'[p] <= hi \/ number'[p] <= seen'[c]
    BY <1>1, <1>2, <2>1 DEF StreamOK
  <2>5. conn'[c] = "open" =>
          \A p \in Patches : pc'[p] = "told" /\ home'[p] = at'[c] => seen'[c] >= number'[p]
    BY <1>2, <2>1 DEF StreamOK
  <2> QED BY <2>3, <2>4, <2>5 DEF StreamOK, Rising, Upto
<1>6. \A c \in Clients : StreamOK(c)'
  BY <1>5
<1>7. Sends' /\ Answered' /\ OpenStreamsAreCurrent'
  <2>1. Sends'
    BY <1>6 DEF Sends, StreamOK
  <2>2. Answered'
    BY <1>6 DEF Answered, StreamOK
  <2>3. OpenStreamsAreCurrent'
    BY <1>6 DEF OpenStreamsAreCurrent, StreamOK
  <2> QED BY <2>1, <2>2, <2>3
<1> QED BY <1>1, <1>3, <1>4, <1>7 DEF EventsInv

\* A step of one stream.
LEMMA OneStream ==
  ASSUME EventsInv, TypeOK', UNCHANGED patchVars, NEW c \in Clients, StreamOK(c)',
         \A d \in Clients \ {c} :
           /\ conn'[d] = conn[d] /\ at'[d] = at[d] /\ lastId'[d] = lastId[d]
           /\ seen'[d] = seen[d] /\ rows'[d] = rows[d]
           /\ wire'[d] = wire[d] /\ got'[d] = got[d]
  PROVE  EventsInv'
<1>1. UNCHANGED <<row, log, history, home, number>> /\ pc' = pc
  BY DEF patchVars
<1> DEFINE C == {c}
           D == {}
<1>2. pc' = [p \in Patches |-> IF p \in D THEN "done" ELSE pc[p]]
  BY <1>1 DEF EventsInv, TypeOK
<1>3. C \in SUBSET Clients /\ D \in SUBSET Patches /\ \A d \in C : StreamOK(d)'
  OBVIOUS
<1>4. \A d \in Clients \ C :
        /\ conn'[d] = conn[d] /\ at'[d] = at[d] /\ lastId'[d] = lastId[d]
        /\ seen'[d] = seen[d] /\ rows'[d] = rows[d]
        /\ wire'[d] = wire[d] /\ got'[d] = got[d]
  OBVIOUS
<1> HIDE DEF C, D
<1> QED BY <1>1, <1>2, <1>3, <1>4, StreamStep

\* A client comes back with the newest event it has.
LEMMA ConnectInv ==
  ASSUME EventsInv, NEW c \in Clients, Connect(c)
  PROVE  EventsInv'
<1> USE DEF patchVars, clientVars
<1>1. PICK n \in Procs : at' = [at EXCEPT ![c] = n]
  BY DEF Connect
<1>2. /\ conn[c] = "away" /\ conn' = [conn EXCEPT ![c] = "subscribed"]
      /\ lastId' = [lastId EXCEPT ![c] = LastGot(c)]
      /\ seen' = [seen EXCEPT ![c] = LastGot(c)]
      /\ UNCHANGED <<patchVars, rows, clientVars, faults>>
  BY DEF Connect
<1>3. TypeOK /\ StreamOK(c) /\ got[c] \in Seq(Events) /\ wire[c] = <<>>
  BY <1>2, StreamsOK DEF EventsInv, TypeOK, StreamOK
<1>4. Sent(c) = got[c] /\ Sent(c)' = got[c]
  <2>1. got[c] \o <<>> = got[c]
    BY <1>3, ConcatEmptySeq
  <2> QED BY <1>2, <1>3, <2>1 DEF Sent
<1>5. LastGot(c) \in Nat /\ Upto(got[c], LastGot(c))
  <2> DEFINE s == got[c]
             l == Len(s)
  <2>1. l \in Nat /\ DOMAIN s = 1 .. l /\ (s # <<>> => l # 0) /\ \A i \in 1 .. l : s[i].id \in Nat
    BY <1>3, LenProperties, EmptySeq, ElementOfSeq, EventFields
  <2>2. Rising(s)
    BY <1>3, <1>4 DEF StreamOK
  <2>3. LastGot(c) = IF s = <<>> THEN 0 ELSE s[l].id
    BY DEF LastGot, Last
  <2>4. s = <<>> => l = 0
    OBVIOUS
  <2> HIDE DEF s, l
  <2>5. CASE s = <<>>
    BY <2>1, <2>3, <2>4, <2>5 DEF Upto, s
  <2>6. CASE s # <<>>
    <3>1. l \in 1 .. l /\ LastGot(c) = s[l].id
      BY <2>1, <2>3, <2>6
    <3>2. ASSUME NEW i \in 1 .. l PROVE s[i].id <= s[l].id
      <4>1. i = l \/ s[i].id < s[l].id
        BY <2>1, <2>2, <3>1 DEF Rising
      <4> QED BY <2>1, <3>1, <4>1
    <3> QED BY <2>1, <3>1, <3>2 DEF Upto, s
  <2> QED BY <2>5, <2>6
<1>6. TypeOK'
  BY <1>1, <1>2, <1>3, <1>5 DEF TypeOK, Events
<1>7. StreamOK(c)'
  <2>1. conn'[c] = "subscribed" /\ lastId'[c] = LastGot(c) /\ seen'[c] = LastGot(c)
    BY <1>2, <1>3 DEF TypeOK
  <2>2. \A e : Committed(e)' <=> Committed(e)
    BY <1>2 DEF Committed
  <2>3. Rising(got[c]) /\ \A k \in DOMAIN got[c] : Committed(got[c][k])
    BY <1>3, <1>4 DEF StreamOK
  <2>4. Rising(Sent(c))' /\ (\A k \in DOMAIN Sent(c) : Committed(Sent(c)[k]))'
        /\ Upto(Sent(c), seen[c])'
    BY <1>4, <1>5, <2>1, <2>2, <2>3 DEF Rising, Upto
  <2> QED BY <1>5, <2>1, <2>4 DEF StreamOK
<1>8. \A d \in Clients \ {c} :
        /\ conn'[d] = conn[d] /\ at'[d] = at[d] /\ lastId'[d] = lastId[d]
        /\ seen'[d] = seen[d] /\ rows'[d] = rows[d]
        /\ wire'[d] = wire[d] /\ got'[d] = got[d]
  BY <1>1, <1>2, <1>3 DEF TypeOK
<1> QED BY <1>2, <1>6, <1>7, <1>8, OneStream

\* since() reads a piece of the log up to its newest event.
LEMMA QueryInv ==
  ASSUME EventsInv, NEW c \in Clients, Query(c)
  PROVE  EventsInv'
<1> USE DEF patchVars, clientVars
<1> DEFINE answer == {[id |-> i, status |-> log[i]] : i \in {j \in DOMAIN log : j > lastId[c]}}
<1>1. /\ conn[c] = "subscribed" /\ conn' = [conn EXCEPT ![c] = "queried"]
      /\ rows' = [rows EXCEPT ![c] = answer]
      /\ UNCHANGED <<patchVars, at, lastId, seen, clientVars, faults>>
  BY DEF Query
<1>2. TypeOK /\ StreamOK(c) /\ lastId[c] \in Nat
  BY StreamsOK DEF EventsInv, TypeOK
<1>3. Len(history) \in Nat /\ DOMAIN history = 1 .. Len(history) /\ BUFFER_LIMIT \in Nat \ {0}
  BY <1>2, LenProperties, LimitAssumption DEF TypeOK
<1>4. \E lo \in 0 .. Len(history) :
        /\ answer = Between(lo, Len(history))
        /\ lo = Len(history) => Len(history) <= lastId[c]
  <2> DEFINE n == Len(history)
             a == IF n - BUFFER_LIMIT > lastId[c] THEN n - BUFFER_LIMIT ELSE lastId[c]
             lo == IF a > n THEN n ELSE a
  <2>1. lo \in 0 .. n /\ (lo = n => n <= lastId[c])
    <3> HIDE DEF n
    <3>1. n \in Nat
      BY <1>3 DEF n
    <3> QED BY <1>2, <1>3, <3>1
  <2>2. {j \in DOMAIN log : j > lastId[c]} = lo + 1 .. n
    <3>1. DOMAIN log = {i \in 1 .. n : i > n - BUFFER_LIMIT}
      BY DEF EventsInv, LogIsNewestEvents
    <3> HIDE DEF n
    <3> QED BY <1>2, <1>3, <3>1 DEF n
  <2>3. \A j \in lo + 1 .. n : log[j] = history[j]
    BY <2>2 DEF EventsInv, LogIsNewestEvents
  <2> HIDE DEF lo
  <2>4. answer = Between(lo, n)
    BY <2>2, <2>3 DEF Between
  <2> QED BY <2>1, <2>4
<1>5. TypeOK'
  <2>1. answer \subseteq Events
    BY <1>2 DEF Events, TypeOK
  <2> HIDE DEF answer
  <2> QED BY <1>1, <1>2, <2>1 DEF TypeOK, Events
<1>6. StreamOK(c)'
  <2>1. conn'[c] = "queried" /\ rows'[c] = answer
    BY <1>1, <1>2 DEF TypeOK
  <2>2. Sent(c)' = Sent(c) /\ (\A e : Committed(e)' <=> Committed(e))
        /\ (\A lo, hi : Between(lo, hi)' = Between(lo, hi))
    BY <1>1 DEF Committed, Between, Sent
  <2>3. Rising(Sent(c)) /\ (\A k \in DOMAIN Sent(c) : Committed(Sent(c)[k]))
        /\ lastId[c] <= seen[c] /\ Upto(Sent(c), seen[c])
    BY <1>1, <1>2 DEF StreamOK
  <2>4. Rising(Sent(c))' /\ (\A k \in DOMAIN Sent(c) : Committed(Sent(c)[k]))'
        /\ Upto(Sent(c), seen[c])' /\ (lastId[c] <= seen[c])'
    BY <1>1, <2>2, <2>3 DEF Rising, Upto
  <2>5. \A p \in Patches : pc[p] = "told" => number[p] <= Len(history)
    BY <1>3 DEF EventsInv, Numbered
  <2>6. Len(history) \in 0 .. Len(history)
    BY <1>3
  <2> HIDE DEF answer
  <2>7. \E hi \in 0 .. Len(history') : \E lo \in 0 .. hi :
          /\ rows'[c] = Between(lo, hi)'
          /\ lo = hi => hi <= seen'[c]
          /\ \A p \in Patches : pc'[p] = "told" /\ home'[p] = at'[c]
                                => number'[p] <= hi \/ number'[p] <= seen'[c]
    <3>1. PICK lo \in 0 .. Len(history) :
            answer = Between(lo, Len(history)) /\ (lo = Len(history) => Len(history) <= lastId[c])
      <4> HIDE DEF answer
      <4> QED BY <1>4
    <3>2. lo = Len(history) => Len(history) <= seen[c]
      BY <1>2, <1>3, <2>3, <3>1 DEF TypeOK
    <3> QED BY <1>1, <2>1, <2>2, <2>5, <2>6, <3>1, <3>2
  <2> QED BY <2>1, <2>4, <2>7 DEF StreamOK
<1>7. \A d \in Clients \ {c} :
        /\ conn'[d] = conn[d] /\ at'[d] = at[d] /\ lastId'[d] = lastId[d]
        /\ seen'[d] = seen[d] /\ rows'[d] = rows[d]
        /\ wire'[d] = wire[d] /\ got'[d] = got[d]
  BY <1>1, <1>2 DEF TypeOK
<1> QED BY <1>1, <1>5, <1>6, <1>7, OneStream

\* The rows of the answer that are not yet seen, in order.
LEMMA FreshReplay ==
  ASSUME EventsInv, NEW c \in Clients, NEW hi \in 0 .. Len(history), NEW lo \in 0 .. hi,
         rows[c] = Between(lo, hi), lo = hi => hi <= seen[c]
  PROVE  \E a \in 0 .. hi : /\ Fresh(c, rows[c]) = Between(a, hi)
                            /\ \A e \in Between(a, hi) : e.id > seen[c]
                            /\ a # hi => seen[c] < hi
                            /\ a = hi => hi <= seen[c]
<1> DEFINE b == IF seen[c] > lo THEN seen[c] ELSE lo
           a == IF b > hi THEN hi ELSE b
<1>1. seen[c] \in Nat /\ Len(history) \in Nat
  BY LenProperties DEF EventsInv, TypeOK
<1>2. hi \in Nat /\ lo \in Nat /\ lo <= hi
  BY <1>1
<1>3. a \in 0 .. hi /\ (a # hi => seen[c] < hi) /\ (a = hi => hi <= seen[c])
  BY <1>1, <1>2
<1>4. \A i : i \in a + 1 .. hi <=> i \in lo + 1 .. hi /\ i > seen[c]
  BY <1>1, <1>2
<1> HIDE DEF a
<1>5. Fresh(c, Between(lo, hi)) = Between(a, hi)
  BY <1>4 DEF Fresh, Between
<1>6. \A e \in Between(a, hi) : e.id > seen[c]
  BY <1>4 DEF Between
<1> QED BY <1>3, <1>5, <1>6

\* The replay brings the stream up to the answer.
LEMMA ReplayInv ==
  ASSUME EventsInv, NEW c \in Clients, Replay(c)
  PROVE  EventsInv'
<1> USE DEF patchVars
<1> DEFINE new == InOrder(Fresh(c, rows[c]))
<1>1. /\ conn[c] = "queried" /\ conn' = [conn EXCEPT ![c] = "open"]
      /\ wire' = [wire EXCEPT ![c] = wire[c] \o new]
      /\ seen' = [seen EXCEPT ![c] = IF new = <<>> THEN seen[c] ELSE Last(new).id]
      /\ UNCHANGED <<patchVars, at, lastId, rows, got, faults>>
  BY DEF Replay
<1>2. /\ TypeOK /\ StreamOK(c) /\ lastId[c] \in Nat /\ seen[c] \in Nat
      /\ got[c] \in Seq(Events) /\ wire[c] \in Seq(Events) /\ Sent(c) \in Seq(Events)
      /\ history \in Seq(Patches)
  BY StreamsOK DEF EventsInv, TypeOK, Sent
<1>3. PICK hi \in 0 .. Len(history) : \E lo \in 0 .. hi :
        /\ rows[c] = Between(lo, hi)
        /\ lo = hi => hi <= seen[c]
        /\ \A p \in Patches : pc[p] = "told" /\ home[p] = at[c]
                               => number[p] <= hi \/ number[p] <= seen[c]
  BY <1>1, <1>2 DEF StreamOK
<1>4. PICK lo \in 0 .. hi :
        /\ rows[c] = Between(lo, hi)
        /\ lo = hi => hi <= seen[c]
        /\ \A p \in Patches : pc[p] = "told" /\ home[p] = at[c]
                               => number[p] <= hi \/ number[p] <= seen[c]
  BY <1>3
<1>5. PICK a \in 0 .. hi : /\ Fresh(c, rows[c]) = Between(a, hi)
                           /\ \A e \in Between(a, hi) : e.id > seen[c]
                           /\ a # hi => seen[c] < hi
                           /\ a = hi => hi <= seen[c]
  BY <1>4, FreshReplay
<1>6. /\ new \in Seq(Events) /\ Rising(new)
      /\ \A k \in DOMAIN new : new[k] \in Between(a, hi)
      /\ new = <<>> <=> a = hi
      /\ new # <<>> => Last(new).id = hi /\ Upto(new, hi)
  BY <1>2, <1>5, InOrderIsReplay
<1>7. hi \in Nat /\ Len(history) \in Nat /\ DOMAIN history = 1 .. Len(history) /\ hi <= Len(history)
  BY <1>2, LenProperties
<1> DEFINE top == IF new = <<>> THEN seen[c] ELSE Last(new).id
<1>8. top \in Nat /\ seen[c] <= top /\ Upto(new, top)
  <2>1. CASE new = <<>>
    BY <1>2, <2>1 DEF Upto
  <2>2. CASE new # <<>>
    BY <1>2, <1>5, <1>6, <1>7, <2>2
  <2> QED BY <2>1, <2>2
<1> HIDE DEF new
<1>9. Sent(c)' = Sent(c) \o new
  <2>1. wire'[c] = wire[c] \o new /\ got'[c] = got[c]
    BY <1>1, <1>2 DEF TypeOK
  <2>2. Sent(c) = got[c] \o wire[c] /\ Sent(c)' = got[c] \o (wire[c] \o new)
    BY <2>1 DEF Sent
  <2>3. (got[c] \o wire[c]) \o new = got[c] \o (wire[c] \o new)
    <3>1. ASSUME NEW s \in Seq(Events), NEW t \in Seq(Events), NEW u \in Seq(Events)
          PROVE  (s \o t) \o u = s \o (t \o u)
      BY ConcatAssociative, SMTT(30)
    <3>2. new \in Seq(Events) /\ got[c] \in Seq(Events) /\ wire[c] \in Seq(Events)
      BY <1>2, <1>6
    <3> QED BY <3>1, <3>2, Zenon
  <2> QED BY <2>2, <2>3
<1> HIDE DEF top
<1>10. TypeOK'
  <2>1. wire[c] \o new \in Seq(Events)
    BY <1>2, <1>6
  <2> QED BY <1>1, <1>2, <1>8, <2>1 DEF TypeOK, top, Events
<1>11. conn'[c] = "open" /\ seen'[c] = top
  BY <1>1, <1>2 DEF TypeOK, top
<1>12. /\ Rising(Sent(c)) /\ \A k \in DOMAIN Sent(c) : Committed(Sent(c)[k])
       /\ lastId[c] <= seen[c] /\ Upto(Sent(c), seen[c])
  BY <1>1, <1>2 DEF StreamOK
<1>13. \A k \in DOMAIN new : new[k].id > seen[c] /\ Committed(new[k])
  <2>1. \A e \in Between(a, hi) : Committed(e)
    BY <1>7 DEF Between, Committed
  <2> QED BY <1>5, <1>6, <2>1
<1>14. Rising(Sent(c) \o new)
  BY <1>2, <1>6, <1>12, <1>13, RisingConcat
<1>15. \A k \in DOMAIN (Sent(c) \o new) :
         Committed((Sent(c) \o new)[k]) /\ (Sent(c) \o new)[k].id <= top
  <2> SUFFICES ASSUME NEW k \in DOMAIN (Sent(c) \o new)
               PROVE  Committed((Sent(c) \o new)[k]) /\ (Sent(c) \o new)[k].id <= top
    OBVIOUS
  <2>1. CASE \E i \in DOMAIN Sent(c) : (Sent(c) \o new)[k] = Sent(c)[i]
    <3>1. PICK i \in DOMAIN Sent(c) : (Sent(c) \o new)[k] = Sent(c)[i]
      BY <2>1
    <3>2. Sent(c)[i].id <= seen[c] /\ Committed(Sent(c)[i])
      BY <1>12 DEF Upto
    <3>3. Sent(c)[i].id \in Nat
      BY <1>2, LenProperties, ElementOfSeq, EventFields
    <3> QED BY <1>2, <1>8, <3>1, <3>2, <3>3
  <2>2. CASE \E i \in DOMAIN new : (Sent(c) \o new)[k] = new[i]
    BY <1>8, <1>13, <2>2 DEF Upto
  <2> QED BY <1>2, <1>6, <2>1, <2>2, ConcatMembers
<1>16. ASSUME NEW p \in Patches, pc[p] = "told", home[p] = at[c]
       PROVE  top >= number[p]
  <2>1. number[p] \in Nat
    BY <1>2 DEF TypeOK
  <2>2. number[p] <= hi \/ number[p] <= seen[c]
    BY <1>4, <1>16
  <2>3. hi <= top
    <3>1. CASE a = hi
      <4>1. hi <= seen[c]
        BY <1>5, <3>1
      <4> QED BY <1>2, <1>7, <1>8, <4>1
    <3>2. CASE a # hi
      BY <1>6, <1>7, <3>2 DEF top
    <3> QED BY <3>1, <3>2
  <2> QED BY <1>2, <1>7, <1>8, <2>1, <2>2, <2>3
<1>17. StreamOK(c)'
  <2>1. (Rising(Sent(c)) /\ (\A k \in DOMAIN Sent(c) : Committed(Sent(c)[k])))'
    BY <1>1, <1>9, <1>14, <1>15 DEF Rising, Committed
  <2>2. (Upto(Sent(c), seen[c]))'
    BY <1>9, <1>11, <1>15 DEF Upto
  <2>3. lastId'[c] <= seen'[c]
    BY <1>1, <1>2, <1>8, <1>11, <1>12
  <2>4. \A p \in Patches : pc'[p] = "told" /\ home'[p] = at'[c] => seen'[c] >= number'[p]
    BY <1>1, <1>11, <1>16
  <2> QED BY <1>11, <2>1, <2>2, <2>3, <2>4 DEF StreamOK
<1>18. \A d \in Clients \ {c} :
        /\ conn'[d] = conn[d] /\ at'[d] = at[d] /\ lastId'[d] = lastId[d]
        /\ seen'[d] = seen[d] /\ rows'[d] = rows[d]
        /\ wire'[d] = wire[d] /\ got'[d] = got[d]
  BY <1>1, <1>2 DEF TypeOK
<1> QED BY <1>1, <1>10, <1>17, <1>18, OneStream

\* The client takes what was on the wire.
LEMMA ReceiveInv ==
  ASSUME EventsInv, NEW c \in Clients, Receive(c)
  PROVE  EventsInv'
<1> USE DEF patchVars, streamVars
<1>1. /\ wire[c] # <<>>
      /\ got' = [got EXCEPT ![c] = Append(got[c], Head(wire[c]))]
      /\ wire' = [wire EXCEPT ![c] = Tail(wire[c])]
      /\ UNCHANGED <<patchVars, streamVars, faults>>
  BY DEF Receive
<1>2. TypeOK /\ StreamOK(c) /\ got[c] \in Seq(Events) /\ wire[c] \in Seq(Events)
  BY StreamsOK DEF EventsInv, TypeOK
<1>3. /\ Append(got[c], Head(wire[c])) \in Seq(Events) /\ Tail(wire[c]) \in Seq(Events)
      /\ Append(got[c], Head(wire[c])) \o Tail(wire[c]) = got[c] \o wire[c]
  <2>1. Head(wire[c]) \in Events /\ Tail(wire[c]) \in Seq(Events)
    BY <1>1, <1>2, HeadTailProperties
  <2>2. \A s \in Seq(Events), e \in Events : Append(s, e) \in Seq(Events)
    OBVIOUS
  <2>3. \A s, t \in Seq(Events) : t # <<>> => Append(s, Head(t)) \o Tail(t) = s \o t
    BY ReceiveMoves
  <2> QED BY <1>1, <1>2, <2>1, <2>2, <2>3
<1>4. TypeOK'
  BY <1>1, <1>2, <1>3 DEF TypeOK, Events
<1>5. Sent(c)' = Sent(c)
  <2>1. got'[c] = Append(got[c], Head(wire[c])) /\ wire'[c] = Tail(wire[c])
    BY <1>1, <1>2 DEF TypeOK
  <2> QED BY <1>3, <2>1 DEF Sent
<1>6. StreamOK(c)'
  <2>1. conn[c] # "away"
    BY <1>1, <1>2 DEF StreamOK
  <2>2. (\A e : Committed(e)' <=> Committed(e)) /\ (\A lo, hi : Between(lo, hi)' = Between(lo, hi))
    BY <1>1 DEF Committed, Between
  <2>3. (Rising(Sent(c)) /\ (\A k \in DOMAIN Sent(c) : Committed(Sent(c)[k])))'
    BY <1>2, <1>5, <2>2 DEF StreamOK, Rising
  <2>4. lastId'[c] <= seen'[c] /\ Upto(Sent(c), seen[c])'
    BY <1>1, <1>2, <1>5, <2>1 DEF StreamOK, Upto
  <2>5. conn'[c] = "queried" =>
          \E hi \in 0 .. Len(history') : \E lo \in 0 .. hi :
            /\ rows'[c] = Between(lo, hi)'
            /\ lo = hi => hi <= seen'[c]
            /\ \A p \in Patches : pc'[p] = "told" /\ home'[p] = at'[c]
                                => number'[p] <= hi \/ number'[p] <= seen'[c]
    BY <1>1, <1>2, <2>2 DEF StreamOK
  <2>6. conn'[c] = "open" =>
          \A p \in Patches : pc'[p] = "told" /\ home'[p] = at'[c] => seen'[c] >= number'[p]
    BY <1>1, <1>2 DEF StreamOK
  <2> QED BY <1>1, <2>1, <2>3, <2>4, <2>5, <2>6 DEF StreamOK
<1>7. \A d \in Clients \ {c} :
        /\ conn'[d] = conn[d] /\ at'[d] = at[d] /\ lastId'[d] = lastId[d]
        /\ seen'[d] = seen[d] /\ rows'[d] = rows[d]
        /\ wire'[d] = wire[d] /\ got'[d] = got[d]
  BY <1>1, <1>2 DEF TypeOK
<1> QED BY <1>1, <1>4, <1>6, <1>7, OneStream

\* A stream that is gone takes with it what its client had not received.
LEMMA DropInv ==
  ASSUME EventsInv, NEW D \in SUBSET Patches, NEW C \in SUBSET Clients, Drop(C), Fault,
         pc' = [p \in Patches |-> IF p \in D THEN "done" ELSE pc[p]],
         UNCHANGED <<row, log, history, home, number, got>>
  PROVE  EventsInv'
<1>1. TypeOK
  BY DEF EventsInv
<1>2. TypeOK'
  <2>1. faults' \in 0 .. MaxFaults
    BY <1>1, LimitAssumption DEF Fault, TypeOK
  <2>2. <<>> \in Seq(Events)
    OBVIOUS
  <2>3. pc' \in [Patches -> {"idle", "save", "lock", "insert", "commit", "emit", "told", "done"}]
    BY <1>1 DEF TypeOK
  <2>4. /\ conn' \in [Clients -> {"away", "subscribed", "queried", "open"}]
        /\ at' \in [Clients -> Procs \cup {None}]
        /\ lastId' \in [Clients -> Nat] /\ seen' \in [Clients -> Nat]
    BY <1>1 DEF Drop, TypeOK
  <2>5. rows' \in [Clients -> SUBSET Events] /\ wire' \in [Clients -> Seq(Events)]
    BY <1>1, <2>2 DEF Drop, TypeOK
  <2> QED BY <1>1, <2>1, <2>3, <2>4, <2>5 DEF TypeOK, Events
<1>3. ASSUME NEW c \in C
      PROVE  StreamOK(c)'
  <2>1. StreamOK(c) /\ got[c] \in Seq(Events) /\ wire[c] \in Seq(Events)
    BY <1>1, StreamsOK DEF TypeOK
  <2>2. conn'[c] = "away" /\ wire'[c] = <<>>
    BY DEF Drop
  <2>3. Sent(c)' = got[c]
    <3>1. \A s \in Seq(Events) : s \o <<>> = s
      BY ConcatEmptySeq
    <3>2. Sent(c)' = got[c] \o <<>>
      BY <2>2 DEF Sent
    <3> QED BY <2>1, <3>1, <3>2
  <2>4. \A i \in DOMAIN got[c] : i \in DOMAIN Sent(c) /\ Sent(c)[i] = got[c][i]
    <3> DEFINE g == got[c]
               w == wire[c]
    <3>1. g \in Seq(Events) /\ w \in Seq(Events)
      BY <2>1
    <3> HIDE DEF g, w
    <3>2. \A i \in DOMAIN g : i \in DOMAIN (g \o w) /\ (g \o w)[i] = g[i]
      BY <3>1, ConcatBegins
    <3> QED BY <3>2 DEF g, w, Sent
  <2>5. Rising(got[c]) /\ \A i \in DOMAIN got[c] : Committed(got[c][i])
    BY <2>1, <2>4 DEF StreamOK, Rising
  <2>6. (Rising(Sent(c)) /\ (\A k \in DOMAIN Sent(c) : Committed(Sent(c)[k])))'
    BY <2>3, <2>5 DEF Rising, Committed
  <2> QED BY <2>2, <2>6 DEF StreamOK
<1>4. \A c \in Clients \ C :
        /\ conn'[c] = conn[c] /\ at'[c] = at[c] /\ lastId'[c] = lastId[c]
        /\ seen'[c] = seen[c] /\ rows'[c] = rows[c]
        /\ wire'[c] = wire[c] /\ got'[c] = got[c]
  BY DEF Drop
<1> QED BY <1>2, <1>3, <1>4, StreamStep

LEMMA DisconnectInv ==
  ASSUME EventsInv, NEW c \in Clients, Disconnect(c)
  PROVE  EventsInv'
<1> DEFINE C == {c}
           D == {}
<1>1. C \in SUBSET Clients /\ D \in SUBSET Patches
  OBVIOUS
<1>2. Drop(C) /\ Fault
  BY DEF Disconnect
<1>3. UNCHANGED <<row, log, history, home, number, got>>
  BY DEF Disconnect, patchVars
<1>4. pc' = [p \in Patches |-> IF p \in D THEN "done" ELSE pc[p]]
  BY DEF Disconnect, patchVars, EventsInv, TypeOK
<1> HIDE DEF C, D
<1> QED BY <1>1, <1>2, <1>3, <1>4, DropInv

LEMMA KillInv ==
  ASSUME EventsInv, NEW n \in Procs, Kill(n)
  PROVE  EventsInv'
<1> DEFINE C == {c \in Clients : at[c] = n}
           D == {p \in Patches : home[p] = n}
<1>1. C \in SUBSET Clients /\ D \in SUBSET Patches
  OBVIOUS
<1>2. /\ Drop(C) /\ Fault
      /\ UNCHANGED <<row, log, history, home, number, got>>
  BY DEF Kill
<1>3. pc' = [p \in Patches |-> IF p \in D THEN "done" ELSE pc[p]]
  BY DEF Kill
<1> HIDE DEF C, D
<1> QED BY <1>1, <1>2, <1>3, DropInv

\* EventsInv is inductive.
LEMMA EventsNext == EventsInv /\ [Next]_vars => EventsInv'
<1> SUFFICES ASSUME EventsInv, [Next]_vars PROVE EventsInv'
  OBVIOUS
<1>1. ASSUME NEW p \in Patches, Request(p) \/ PatchStep(p) \/ PatchFails(p)
      PROVE  EventsInv'
  BY <1>1, RequestInv, SaveRowInv, LockInv, InsertInv, CommitEventInv, EmitInv, PatchFailsInv
     DEF PatchStep
<1>2. ASSUME NEW c \in Clients,
             Connect(c) \/ Query(c) \/ Replay(c) \/ Receive(c) \/ Disconnect(c)
      PROVE  EventsInv'
  BY <1>2, ConnectInv, QueryInv, ReplayInv, ReceiveInv, DisconnectInv
<1>3. ASSUME NEW n \in Procs, Kill(n)
      PROVE  EventsInv'
  BY <1>3, KillInv
<1>4. CASE UNCHANGED vars
  <2> USE <1>4 DEF vars, patchVars, streamVars, clientVars
  <2>1. TypeOK'
    BY DEF EventsInv, TypeOK, Events
  <2>2. Exclusive' /\ Numbered' /\ LogIsNewestEvents'
    BY DEF EventsInv, Exclusive, Numbered, LogIsNewestEvents
  <2>3. Sends'
    BY DEF EventsInv, Sends, Sent, Rising, Upto, Committed
  <2>4. Answered' /\ OpenStreamsAreCurrent'
    BY DEF EventsInv, Answered, OpenStreamsAreCurrent, Between
  <2> QED BY <2>1, <2>2, <2>3, <2>4 DEF EventsInv
<1> QED BY <1>1, <1>2, <1>3, <1>4 DEF Next

\* What a stream was sent and still will be follows the log.
LEMMA SendsFollowLog ==
  ASSUME EventsInv
  PROVE  StreamsFollowLog
<1> SUFFICES ASSUME NEW c \in Clients
             PROVE  LET s == got[c] \o wire[c] IN
                    /\ \A k \in DOMAIN s : s[k].id \in DOMAIN history /\ s[k].status = history[s[k].id]
                    /\ \A k \in 1 .. Len(s) - 1 : s[k].id < s[k + 1].id
  BY DEF StreamsFollowLog
<1> DEFINE s == got[c] \o wire[c]
<1>1. Rising(s) /\ \A k \in DOMAIN s : Committed(s[k])
  BY DEF EventsInv, Sends, Sent
<1>2. s \in Seq(Events)
  BY DEF EventsInv, TypeOK
<1> HIDE DEF s
<1>3. Len(s) \in Nat /\ DOMAIN s = 1 .. Len(s)
  BY <1>2, LenProperties
<1>4. \A k \in 1 .. Len(s) - 1 : s[k].id < s[k + 1].id
  <2> SUFFICES ASSUME NEW k \in 1 .. Len(s) - 1 PROVE s[k].id < s[k + 1].id
    OBVIOUS
  <2>1. k \in DOMAIN s /\ k + 1 \in DOMAIN s /\ k < k + 1
    BY <1>3
  <2> QED BY <1>1, <2>1 DEF Rising
<1>5. \A k \in DOMAIN s : s[k].id \in DOMAIN history /\ s[k].status = history[s[k].id]
  BY <1>1 DEF Committed
<1> QED BY <1>4, <1>5 DEF s

=============================================================================
