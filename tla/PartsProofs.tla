----------------------------- MODULE PartsProofs -----------------------------
(***************************************************************************)
(* The properties of the parts, one after the other, for any number of     *)
(* requests, processes, callers, dumps, rows and walks.                    *)
(***************************************************************************)
EXTENDS MCParts, InductionLemmas, SequenceTheorems

-----------------------------------------------------------------------------
(* IdempotentOrders: the map of a process and the table of keys.           *)

\* A finite set of numbers that is not empty has a greatest and a least member.
LEMMA Extremes ==
  ASSUME NEW S, IsFiniteSet(S), S # {}
  PROVE  S \subseteq Nat =>
           /\ Max(S) \in S /\ \A y \in S : y <= Max(S)
           /\ Min(S) \in S /\ \A y \in S : Min(S) <= y
<1> DEFINE Has(T) == /\ \E x \in T : \A y \in T : x >= y
                     /\ \E x \in T : \A y \in T : x <= y
           F == {T \in SUBSET S : T # {} /\ ~ Has(T)}
<1>1. F # {} => \E T \in F : \A U \in F : U \subseteq T => U = T
  <2>1. F \in SUBSET (SUBSET S)
    OBVIOUS
  <2> HIDE DEF F
  <2> QED BY <2>1, LeastSubset
<1>2. SUFFICES ASSUME S \subseteq Nat
               PROVE  /\ Max(S) \in S /\ \A y \in S : y <= Max(S)
                      /\ Min(S) \in S /\ \A y \in S : Min(S) <= y
  OBVIOUS
<1>3. Has(S)
  <2> SUFFICES ASSUME ~ Has(S) PROVE FALSE
    OBVIOUS
  <2>1. PICK T \in F : \A U \in F : U \subseteq T => U = T
    BY <1>1
  <2>2. PICK x \in T : TRUE
    BY <2>1
  <2>3. x \in Nat /\ T \subseteq Nat
    BY <1>2, <2>1, <2>2
  <2>4. CASE T \ {x} = {}
    <3>1. T = {x}
      BY <2>2, <2>4
    <3> QED BY <2>1, <2>3, <3>1
  <2>5. CASE T \ {x} # {}
    <3>1. T \ {x} \notin F
      BY <2>1, <2>2
    <3>2. PICK a \in T \ {x} : \A y \in T \ {x} : a >= y
      BY <2>1, <2>5, <3>1
    <3>3. PICK b \in T \ {x} : \A y \in T \ {x} : b <= y
      BY <2>1, <2>5, <3>1
    <3>4. \E z \in T : \A y \in T : z >= y
      BY <2>2, <2>3, <3>2
    <3>5. \E z \in T : \A y \in T : z <= y
      BY <2>2, <2>3, <3>3
    <3> QED BY <2>1, <3>4, <3>5
  <2> QED BY <2>4, <2>5
<1>4. Max(S) \in S /\ \A y \in S : Max(S) >= y
  BY <1>3 DEF Max
<1>5. Min(S) \in S /\ \A y \in S : Min(S) <= y
  BY <1>3 DEF Min
<1> QED BY <1>2, <1>4, <1>5

KeyTypes ==
  /\ map \in [Procs -> Seq(Records)]
  /\ keyRow \in [Keys -> Requests \cup {None}]
  /\ pc \in [Requests -> {"idle", "create", "findOne", "done"}]
  /\ at \in [Requests -> Procs \cup {None}]
  /\ order \in [Requests -> Requests \cup {None}]
  /\ expiresAt \in [Requests -> Nat]
  /\ answer \in [Requests -> {"none", "created", "in_flight", "key_reuse", "failed"}]
  /\ reply \in [Requests -> Requests \cup {None}]
  /\ now \in 0 .. MaxTime /\ kills \in 0 .. MaxKills

\* A map is in the order of expiry, and has a key once, at time t.
InExpiryOrder(m, t) ==
  /\ \A i, j \in 1 .. Len(m) : i < j => m[i].expiresAt <= m[j].expiresAt
  /\ \A i, j \in 1 .. Len(m) : m[i].key = m[j].key => i = j
  /\ \A i \in 1 .. Len(m) : m[i].expiresAt <= t + KEY_TTL

\* Somebody has sent key k with body b, where the requests are at p.
Sent(k, b, p) == \E v \in Requests : Key[v] = k /\ Body[v] = b /\ p[v] # "idle"

\* A record has a body that was sent with its key, and the answer in it is the
\* order that the table, tab, has for the key.
RecordIsTrue(rec, tab, p) ==
  /\ Sent(rec.key, rec.body, p)
  /\ rec.state = "done" =>
       /\ rec.order \in Requests /\ tab[rec.key] = rec.order
       /\ \E v \in Requests : Body[v] = rec.body /\ Dto[v] = Dto[rec.order]

MapsAreTrue ==
  \A n \in Procs : /\ InExpiryOrder(map[n], now)
                   /\ \A i \in 1 .. Len(map[n]) : RecordIsTrue(map[n][i], keyRow, pc)

\* A call has its record in the map of its process as long as it runs.
CallHasRecord(r) ==
  /\ at[r] \in Procs
  /\ now < expiresAt[r] /\ expiresAt[r] <= now + KEY_TTL
  /\ \E i \in 1 .. Len(map[at[r]]) : map[at[r]][i] = Record(r, "in-flight", None, expiresAt[r])

CallsHaveRecords == \A r \in Requests : Running(r) => CallHasRecord(r)

\* So one process runs one call per key.
OneCallPerKey ==
  \A r, u \in Requests : Running(r) /\ Running(u) /\ at[r] = at[u] /\ Key[r] = Key[u] => r = u

OrdersAreRows ==
  /\ \A k \in Keys : keyRow[k] # None => Key[keyRow[k]] = k /\ pc[keyRow[k]] # "idle"
  /\ \A r \in Requests : pc[r] = "findOne" =>
       order[r] \in Requests /\ keyRow[Key[r]] = order[r] /\ Dto[order[r]] = Dto[r]

AnswersHold ==
  \A r \in Requests :
    /\ pc[r] # "done" => answer[r] = "none"
    /\ answer[r] = "created" <=> reply[r] # None
    /\ answer[r] = "created" => /\ reply[r] \in Requests /\ keyRow[Key[r]] = reply[r]
                                /\ Dto[reply[r]] = Dto[r]
    /\ answer[r] = "key_reuse" =>
         \E v \in Requests : Key[v] = Key[r] /\ pc[v] # "idle" /\ Body[v] # Body[r]

KeysInv ==
  KeyTypes /\ MapsAreTrue /\ CallsHaveRecords /\ OneCallPerKey /\ OrdersAreRows /\ AnswersHold

LEMMA KeysInitInv ==
  ASSUME Init
  PROVE  KeysInv
<1> USE RequestsAssumption, TimesAssumption DEF Init
<1>1. <<>> \in Seq(Records) /\ Len(<<>>) = 0
  OBVIOUS
<1>2. KeyTypes
  BY <1>1 DEF KeyTypes
<1>3. MapsAreTrue
  BY <1>1 DEF MapsAreTrue, InExpiryOrder
<1>4. CallsHaveRecords /\ OneCallPerKey
  BY DEF CallsHaveRecords, OneCallPerKey, Running
<1>5. OrdersAreRows /\ AnswersHold
  BY DEF OrdersAreRows, AnswersHold
<1> QED BY <1>2, <1>3, <1>4, <1>5 DEF KeysInv

\* s is m without some of its first records, all of which had expired.
SweptTo(m, s) ==
  \E k \in Nat :
    /\ Len(s) + k = Len(m)
    /\ \A i \in 1 .. Len(s) : i + k \in 1 .. Len(m) /\ s[i] = m[i + k]
    /\ \A j \in 1 .. Len(m) : m[j].expiresAt > now => j - k \in 1 .. Len(s)

LEMMA SweptFacts ==
  ASSUME NEW m \in Seq(Records)
  PROVE  Swept(m) \in Seq(Records) /\ SweptTo(m, Swept(m))
<1> DEFINE n == Len(m)
           fresh == {i \in DOMAIN m : m[i].expiresAt > now}
<1>1. n \in Nat /\ DOMAIN m = 1 .. n /\ fresh \subseteq 1 .. n
  OBVIOUS
<1>2. Swept(m) = IF fresh = {} THEN <<>> ELSE SubSeq(m, Min(fresh), n)
  BY DEF Swept
<1>3. CASE fresh = {}
  <2>1. Swept(m) = <<>> /\ Len(<<>>) = 0 /\ <<>> \in Seq(Records)
    BY <1>2, <1>3
  <2>2. \A j \in 1 .. n : ~ (m[j].expiresAt > now)
    BY <1>3
  <2> HIDE DEF fresh
  <2>3. /\ 0 + n = n
        /\ \A i \in 1 .. 0 : i + n \in 1 .. n /\ Swept(m)[i] = m[i + n]
        /\ \A j \in 1 .. n : m[j].expiresAt > now => j - n \in 1 .. 0
    BY <1>1, <2>2
  <2> QED BY <1>1, <2>1, <2>3 DEF SweptTo
<1>4. CASE fresh # {}
  <2> DEFINE a == Min(fresh)
             k == a - 1
  <2>1. IsFiniteSet(fresh) /\ fresh \subseteq Nat
    <3>1. fresh \in SUBSET Nat /\ \A j \in fresh : j <= n
      BY <1>1
    <3> HIDE DEF fresh
    <3> QED BY <1>1, <3>1, FS_BoundedSetOfNaturals
  <2>2. a \in fresh /\ \A j \in fresh : a <= j
    <3> HIDE DEF fresh
    <3> QED BY <1>4, <2>1, Extremes
  <2>3. Swept(m) = SubSeq(m, a, n)
    BY <1>2, <1>4
  <2>4. \A j \in 1 .. n : m[j].expiresAt > now => a <= j
    BY <2>2
  <2>5. a \in 1 .. n
    BY <1>1, <2>2
  <2> HIDE DEF a, fresh
  <2>6. \A i \in a .. n : m[i] \in Records
    BY <1>1, <2>5
  <2>7. /\ Swept(m) \in Seq(Records) /\ Len(Swept(m)) = n - a + 1
        /\ \A i \in 1 .. n - a + 1 : Swept(m)[i] = m[a + i - 1]
    BY <1>1, <2>3, <2>5, <2>6, SubSeqProperties
  <2>8. k \in Nat /\ n - a + 1 + k = n
    BY <1>1, <2>5
  <2>9. \A i \in 1 .. n - a + 1 : i + k \in 1 .. n /\ i + k = a + i - 1
    BY <1>1, <2>5
  <2>10. \A j \in 1 .. n : m[j].expiresAt > now => j - k \in 1 .. n - a + 1
    BY <1>1, <2>4, <2>5
  <2> HIDE DEF k
  <2> QED BY <2>7, <2>8, <2>9, <2>10 DEF SweptTo
<1> QED BY <1>3, <1>4

\* What sweep leaves of a map.
LEMMA SweepKeeps ==
  ASSUME NEW m \in Seq(Records), InExpiryOrder(m, now), now \in Nat, KEY_TTL \in Nat
  PROVE  /\ Swept(m) \in Seq(Records) /\ InExpiryOrder(Swept(m), now)
         /\ \A i \in 1 .. Len(Swept(m)) : \E j \in 1 .. Len(m) : Swept(m)[i] = m[j]
         /\ \A j \in 1 .. Len(m) : m[j].expiresAt > now =>
              \E i \in 1 .. Len(Swept(m)) : Swept(m)[i] = m[j]
<1> DEFINE s == Swept(m)
<1>1. s \in Seq(Records) /\ SweptTo(m, s)
  BY SweptFacts
<1> HIDE DEF s
<1>2. Len(s) \in Nat /\ Len(m) \in Nat
  BY <1>1
<1>3. PICK k \in Nat :
        /\ Len(s) + k = Len(m)
        /\ \A i \in 1 .. Len(s) : i + k \in 1 .. Len(m) /\ s[i] = m[i + k]
        /\ \A j \in 1 .. Len(m) : m[j].expiresAt > now => j - k \in 1 .. Len(s)
  BY <1>1 DEF SweptTo
<1>4. InExpiryOrder(s, now)
  <2>1. \A i, j \in 1 .. Len(s) : i < j => s[i].expiresAt <= s[j].expiresAt
    <3> SUFFICES ASSUME NEW i \in 1 .. Len(s), NEW j \in 1 .. Len(s), i < j
                 PROVE  s[i].expiresAt <= s[j].expiresAt
      OBVIOUS
    <3>1. i + k < j + k
      BY <1>2
    <3> QED BY <1>3, <3>1 DEF InExpiryOrder
  <2>2. \A i, j \in 1 .. Len(s) : s[i].key = s[j].key => i = j
    <3> SUFFICES ASSUME NEW i \in 1 .. Len(s), NEW j \in 1 .. Len(s), s[i].key = s[j].key
                 PROVE  i = j
      OBVIOUS
    <3>1. i + k = j + k
      BY <1>3 DEF InExpiryOrder
    <3> QED BY <1>2, <3>1
  <2>3. \A i \in 1 .. Len(s) : s[i].expiresAt <= now + KEY_TTL
    BY <1>3 DEF InExpiryOrder
  <2> QED BY <2>1, <2>2, <2>3 DEF InExpiryOrder
<1>5. \A i \in 1 .. Len(s) : \E j \in 1 .. Len(m) : s[i] = m[j]
  BY <1>3
<1>6. ASSUME NEW j \in 1 .. Len(m), m[j].expiresAt > now
      PROVE  \E i \in 1 .. Len(s) : s[i] = m[j]
  <2>1. j - k \in 1 .. Len(s) /\ (j - k) + k = j
    BY <1>2, <1>3, <1>6
  <2> QED BY <1>3, <2>1
<1> QED BY <1>1, <1>4, <1>5, <1>6 DEF s

LEMMA GetFacts ==
  ASSUME NEW m \in Seq(Records), NEW k, Holds(m, k)
  PROVE  \E i \in 1 .. Len(m) : Get(m, k) = m[i] /\ m[i].key = k
<1>1. DOMAIN m = 1 .. Len(m)
  OBVIOUS
<1>2. \E i \in DOMAIN m : m[i].key = k
  BY DEF Holds
<1> QED BY <1>1, <1>2 DEF Get

LEMMA RecordType ==
  ASSUME NEW r \in Requests, NEW s \in {"in-flight", "done"}, NEW o \in Requests \cup {None},
         NEW e \in Nat
  PROVE  Record(r, s, o, e) \in Records
<1>1. Key[r] \in Keys /\ Body[r] \in Range(Body)
  BY RequestsAssumption DEF Range
<1> QED BY <1>1 DEF Record, Records

\* Rows of the table and requests that were sent stay what they are.
LEMMA RecordStaysTrue ==
  ASSUME NEW rec, NEW tab, NEW tab2, NEW p, NEW q, RecordIsTrue(rec, tab, p),
         \A k : tab[k] # None => tab2[k] = tab[k],
         \A v \in Requests : p[v] # "idle" => q[v] # "idle"
  PROVE  RecordIsTrue(rec, tab2, q)
BY RequestsAssumption DEF RecordIsTrue, Sent

\* The end of a call, when what its process remembers is right.
LEMMA OverInv ==
  ASSUME KeysInv, NEW r \in Requests, NEW o \in Requests \cup {None},
         NEW a \in {"created", "in_flight", "key_reuse", "failed"},
         Done(r, a, o), UNCHANGED <<keyRow, now, kills>>,
         map' \in [Procs -> Seq(Records)],
         \A n \in Procs : /\ InExpiryOrder(map'[n], now)
                          /\ \A i \in 1 .. Len(map'[n]) : RecordIsTrue(map'[n][i], keyRow, pc'),
         \A u \in Requests \ {r} : Running(u) =>
           \E i \in 1 .. Len(map'[at[u]]) :
             map'[at[u]][i] = Record(u, "in-flight", None, expiresAt[u]),
         a = "created" <=> o # None,
         a = "created" => keyRow[Key[r]] = o /\ Dto[o] = Dto[r],
         a = "key_reuse" => \E v \in Requests : Key[v] = Key[r] /\ pc[v] # "idle" /\ Body[v] # Body[r]
  PROVE  KeysInv'
<1> USE RequestsAssumption
<1>1. /\ pc' = [pc EXCEPT ![r] = "done"] /\ answer' = [answer EXCEPT ![r] = a]
      /\ reply' = [reply EXCEPT ![r] = o] /\ at' = [at EXCEPT ![r] = None]
      /\ order' = [order EXCEPT ![r] = None] /\ expiresAt' = [expiresAt EXCEPT ![r] = 0]
  BY DEF Done
<1>2. KeyTypes
  BY DEF KeysInv
<1>3. /\ pc'[r] = "done" /\ answer'[r] = a /\ reply'[r] = o
      /\ \A u \in Requests \ {r} : /\ pc'[u] = pc[u] /\ answer'[u] = answer[u] /\ reply'[u] = reply[u]
                                   /\ at'[u] = at[u] /\ order'[u] = order[u]
                                   /\ expiresAt'[u] = expiresAt[u]
  BY <1>1, <1>2 DEF KeyTypes
<1>4. KeyTypes'
  BY <1>1, <1>2 DEF KeyTypes
<1>5. MapsAreTrue'
  BY DEF MapsAreTrue
<1>6. CallsHaveRecords'
  <2> SUFFICES ASSUME NEW u \in Requests, Running(u)' PROVE CallHasRecord(u)'
    BY DEF CallsHaveRecords
  <2>1. u # r /\ Running(u) /\ pc'[u] = pc[u] /\ at'[u] = at[u] /\ expiresAt'[u] = expiresAt[u]
    BY <1>3 DEF Running
  <2>2. CallHasRecord(u)
    BY <2>1 DEF KeysInv, CallsHaveRecords
  <2> QED BY <2>1, <2>2 DEF CallHasRecord, Record
<1>7. OneCallPerKey'
  BY <1>3 DEF KeysInv, OneCallPerKey, Running
<1>8. OrdersAreRows'
  <2>1. \A k \in Keys : keyRow[k] # None => Key[keyRow[k]] = k /\ pc'[keyRow[k]] # "idle"
    <3> SUFFICES ASSUME NEW k \in Keys, keyRow[k] # None
                 PROVE  Key[keyRow[k]] = k /\ pc'[keyRow[k]] # "idle"
      OBVIOUS
    <3>1. keyRow[k] \in Requests
      BY <1>2 DEF KeyTypes
    <3> QED BY <1>3, <3>1 DEF KeysInv, OrdersAreRows
  <2>2. \A u \in Requests : pc'[u] = "findOne" =>
          order'[u] \in Requests /\ keyRow[Key[u]] = order'[u] /\ Dto[order'[u]] = Dto[u]
    BY <1>3 DEF KeysInv, OrdersAreRows
  <2> QED BY <2>1, <2>2 DEF OrdersAreRows
<1>9. AnswersHold'
  <2> SUFFICES ASSUME NEW u \in Requests
               PROVE  /\ pc'[u] # "done" => answer'[u] = "none"
                      /\ answer'[u] = "created" <=> reply'[u] # None
                      /\ answer'[u] = "created" =>
                           /\ reply'[u] \in Requests /\ keyRow[Key[u]] = reply'[u]
                           /\ Dto[reply'[u]] = Dto[u]
                      /\ answer'[u] = "key_reuse" =>
                           \E v \in Requests : Key[v] = Key[u] /\ pc'[v] # "idle" /\ Body[v] # Body[u]
    BY DEF AnswersHold
  <2>1. \A v \in Requests : pc[v] # "idle" => pc'[v] # "idle"
    BY <1>3
  <2>2. CASE u = r
    BY <1>3, <2>1, <2>2
  <2>3. CASE u # r
    BY <1>3, <2>1, <2>3 DEF KeysInv, AnswersHold
  <2> QED BY <2>2, <2>3
<1> QED BY <1>4, <1>5, <1>6, <1>7, <1>8, <1>9 DEF KeysInv

\* The map a call finds when it has swept it.
LEMMA ArriveSweeps ==
  ASSUME KeysInv, NEW n \in Procs
  PROVE  /\ Swept(map[n]) \in Seq(Records) /\ InExpiryOrder(Swept(map[n]), now)
         /\ \A i \in 1 .. Len(Swept(map[n])) : RecordIsTrue(Swept(map[n])[i], keyRow, pc)
         /\ \A u \in Requests : Running(u) /\ at[u] = n =>
              \E i \in 1 .. Len(Swept(map[n])) :
                Swept(map[n])[i] = Record(u, "in-flight", None, expiresAt[u])
<1>1. map[n] \in Seq(Records) /\ InExpiryOrder(map[n], now) /\ now \in Nat /\ KEY_TTL \in Nat
  BY TimesAssumption DEF KeysInv, KeyTypes, MapsAreTrue
<1>2. /\ Swept(map[n]) \in Seq(Records) /\ InExpiryOrder(Swept(map[n]), now)
      /\ \A i \in 1 .. Len(Swept(map[n])) : \E j \in 1 .. Len(map[n]) : Swept(map[n])[i] = map[n][j]
      /\ \A j \in 1 .. Len(map[n]) : map[n][j].expiresAt > now =>
           \E i \in 1 .. Len(Swept(map[n])) : Swept(map[n])[i] = map[n][j]
  BY <1>1, SweepKeeps
<1>3. \A i \in 1 .. Len(Swept(map[n])) : RecordIsTrue(Swept(map[n])[i], keyRow, pc)
  BY <1>2 DEF KeysInv, MapsAreTrue
<1>4. ASSUME NEW u \in Requests, Running(u), at[u] = n
      PROVE  \E i \in 1 .. Len(Swept(map[n])) :
               Swept(map[n])[i] = Record(u, "in-flight", None, expiresAt[u])
  <2>1. CallHasRecord(u)
    BY <1>4 DEF KeysInv, CallsHaveRecords
  <2>2. PICK j \in 1 .. Len(map[n]) : map[n][j] = Record(u, "in-flight", None, expiresAt[u])
    BY <1>4, <2>1 DEF CallHasRecord
  <2>3. map[n][j].expiresAt = expiresAt[u]
    BY <2>2 DEF Record
  <2>4. map[n][j].expiresAt > now
    BY <1>1, <2>1, <2>3 DEF CallHasRecord, KeysInv, KeyTypes
  <2> QED BY <1>2, <2>2, <2>4
<1> QED BY <1>2, <1>3, <1>4

\* A call that the map answers.
LEMMA HitInv ==
  ASSUME KeysInv, NEW r \in Requests, NEW n \in Procs, pc[r] = "idle",
         Holds(Swept(map[n]), Key[r]), Hit(r, Get(Swept(map[n]), Key[r])),
         map' = [map EXCEPT ![n] = Swept(map[n])], UNCHANGED <<keyRow, now, kills>>
  PROVE  KeysInv'
<1> DEFINE s == Swept(map[n])
           rec == Get(s, Key[r])
<1>1. /\ s \in Seq(Records) /\ InExpiryOrder(s, now)
      /\ \A i \in 1 .. Len(s) : RecordIsTrue(s[i], keyRow, pc)
      /\ \A u \in Requests : Running(u) /\ at[u] = n =>
           \E i \in 1 .. Len(s) : s[i] = Record(u, "in-flight", None, expiresAt[u])
  BY ArriveSweeps
<1>2. map' = [map EXCEPT ![n] = s] /\ map \in [Procs -> Seq(Records)] 
      /\ pc \in [Requests -> {"idle", "create", "findOne", "done"}]
  BY DEF KeysInv, KeyTypes
<1>3. Hit(r, rec)
  OBVIOUS
<1>4. PICK i \in 1 .. Len(s) : rec = s[i] /\ s[i].key = Key[r]
  <2>1. Holds(s, Key[r])
    OBVIOUS
  <2> HIDE DEF s
  <2> QED BY <1>1, <2>1, GetFacts
<1> HIDE DEF s, rec
<1>5. map' \in [Procs -> Seq(Records)] /\ map'[n] = s /\ \A m \in Procs : m # n => map'[m] = map[m]
  BY <1>1, <1>2
<1>6. RecordIsTrue(rec, keyRow, pc) /\ rec.key = Key[r] /\ rec \in Records
  BY <1>1, <1>4
<1>7. PICK a \in {"created", "in_flight", "key_reuse"}, o \in Requests \cup {None} :
        /\ Done(r, a, o)
        /\ a = "created" <=> o # None
        /\ a = "created" => rec.body = Body[r] /\ rec.state = "done" /\ o = rec.order
        /\ a = "key_reuse" => rec.body # Body[r]
  <2>1. CASE rec.body # Body[r]
    BY <1>3, <2>1 DEF Hit
  <2>2. CASE rec.body = Body[r] /\ rec.state = "in-flight"
    BY <1>3, <2>2 DEF Hit
  <2>3. CASE rec.body = Body[r] /\ rec.state # "in-flight"
    <3>1. rec.state = "done"
      BY <1>6, <2>3 DEF Records
    <3>2. rec.order \in Requests /\ rec.order # None
      BY <1>6, <3>1, RequestsAssumption DEF RecordIsTrue
    <3> QED BY <1>3, <2>3, <3>1, <3>2 DEF Hit
  <2> QED BY <2>1, <2>2, <2>3
<1>8. \A v \in Requests : pc[v] # "idle" => pc'[v] # "idle"
  BY <1>2, <1>7 DEF Done
<1>9. \A m \in Procs : /\ InExpiryOrder(map'[m], now)
                       /\ \A j \in 1 .. Len(map'[m]) : RecordIsTrue(map'[m][j], keyRow, pc')
  <2>1. \A m \in Procs : /\ InExpiryOrder(map'[m], now)
                         /\ \A j \in 1 .. Len(map'[m]) : RecordIsTrue(map'[m][j], keyRow, pc)
    BY <1>1, <1>5 DEF KeysInv, MapsAreTrue
  <2> QED BY <1>8, <2>1, RecordStaysTrue
<1>10. \A u \in Requests \ {r} : Running(u) =>
         \E j \in 1 .. Len(map'[at[u]]) : map'[at[u]][j] = Record(u, "in-flight", None, expiresAt[u])
  BY <1>1, <1>5 DEF KeysInv, CallsHaveRecords, CallHasRecord
<1>11. a = "created" => keyRow[Key[r]] = o /\ Dto[o] = Dto[r]
  BY <1>6, <1>7, SameBodySameDto DEF RecordIsTrue
<1>12. a = "key_reuse" => \E v \in Requests : Key[v] = Key[r] /\ pc[v] # "idle" /\ Body[v] # Body[r]
  BY <1>6, <1>7 DEF RecordIsTrue, Sent
<1> QED BY <1>5, <1>7, <1>9, <1>10, <1>11, <1>12, OverInv

\* A call that the map does not answer: its record comes last, and expires last.
LEMMA MissInv ==
  ASSUME KeysInv, NEW r \in Requests, NEW n \in Procs, pc[r] = "idle",
         ~ Holds(Swept(map[n]), Key[r]),
         map' = [map EXCEPT ![n] = Set(Swept(map[n]), Record(r, "in-flight", None, now + KEY_TTL))],
         at' = [at EXCEPT ![r] = n], expiresAt' = [expiresAt EXCEPT ![r] = now + KEY_TTL],
         pc' = [pc EXCEPT ![r] = "create"],
         UNCHANGED <<keyRow, order, answers, now, kills>>
  PROVE  KeysInv'
<1> USE RequestsAssumption, TimesAssumption
<1> DEFINE s == Swept(map[n])
           e == now + KEY_TTL
           rec == Record(r, "in-flight", None, e)
           t == Append(s, rec)
<1>1. /\ s \in Seq(Records) /\ InExpiryOrder(s, now)
      /\ \A i \in 1 .. Len(s) : RecordIsTrue(s[i], keyRow, pc)
      /\ \A u \in Requests : Running(u) /\ at[u] = n =>
           \E i \in 1 .. Len(s) : s[i] = Record(u, "in-flight", None, expiresAt[u])
  BY ArriveSweeps
<1>2. KeyTypes /\ now \in Nat /\ e \in Nat /\ e > now
  BY DEF KeysInv, KeyTypes
<1>3. rec \in Records /\ rec.key = Key[r] /\ rec.body = Body[r] /\ rec.state = "in-flight"
      /\ rec.expiresAt = e
  <2>1. rec \in Records
    BY <1>2, RecordType
  <2> QED BY <2>1 DEF Record
<1>4. \A i \in 1 .. Len(s) : s[i].key # Key[r]
  <2>1. DOMAIN s = 1 .. Len(s)
    BY <1>1
  <2> QED BY <2>1 DEF Holds
<1>5. map' = [map EXCEPT ![n] = t]
  BY <1>3 DEF Set
<1> HIDE DEF s, rec, e
<1>6. /\ t \in Seq(Records) /\ Len(t) = Len(s) + 1 /\ t[Len(s) + 1] = rec
      /\ \A i \in 1 .. Len(s) : i \in 1 .. Len(t) /\ t[i] = s[i]
      /\ \A i \in 1 .. Len(t) : i = Len(s) + 1 \/ i \in 1 .. Len(s)
      /\ Len(s) \in Nat /\ Len(s) + 1 \in 1 .. Len(t)
  BY <1>1, <1>3
<1> HIDE DEF t
<1>7. map' \in [Procs -> Seq(Records)] /\ map'[n] = t /\ \A m \in Procs : m # n => map'[m] = map[m]
  BY <1>2, <1>5, <1>6 DEF KeyTypes
<1>8. /\ pc'[r] = "create" /\ at'[r] = n /\ expiresAt'[r] = e
      /\ \A u \in Requests \ {r} : /\ pc'[u] = pc[u] /\ at'[u] = at[u]
                                   /\ expiresAt'[u] = expiresAt[u]
      /\ ~ Running(r)
  BY <1>2 DEF KeyTypes, Running, e
<1>9. KeyTypes'
  BY <1>2, <1>7 DEF KeyTypes, answers, e
<1>10. InExpiryOrder(t, now)
  <2>1. \A i \in 1 .. Len(s) : s[i].expiresAt <= e
    BY <1>1 DEF InExpiryOrder, e
  <2>2. \A i, j \in 1 .. Len(t) : i < j => t[i].expiresAt <= t[j].expiresAt
    <3> SUFFICES ASSUME NEW i \in 1 .. Len(t), NEW j \in 1 .. Len(t), i < j
                 PROVE  t[i].expiresAt <= t[j].expiresAt
      OBVIOUS
    <3>1. i \in 1 .. Len(s)
      BY <1>6
    <3> QED BY <1>1, <1>3, <1>6, <2>1, <3>1 DEF InExpiryOrder
  <2>3. \A i, j \in 1 .. Len(t) : t[i].key = t[j].key => i = j
    BY <1>1, <1>3, <1>4, <1>6 DEF InExpiryOrder
  <2>4. \A i \in 1 .. Len(t) : t[i].expiresAt <= now + KEY_TTL
    BY <1>2, <1>3, <1>6, <2>1 DEF e
  <2> QED BY <2>2, <2>3, <2>4 DEF InExpiryOrder
<1>11. MapsAreTrue'
  <2>1. \A v \in Requests : pc[v] # "idle" => pc'[v] # "idle"
    BY <1>8
  <2>2. RecordIsTrue(rec, keyRow, pc')
    <3>1. Key[r] = rec.key /\ Body[r] = rec.body /\ pc'[r] # "idle"
      BY <1>3, <1>8
    <3> QED BY <1>3, <3>1 DEF RecordIsTrue, Sent
  <2>3. \A i \in 1 .. Len(t) : RecordIsTrue(t[i], keyRow, pc')
    <3>1. \A i \in 1 .. Len(s) : RecordIsTrue(s[i], keyRow, pc')
      <4>1. ASSUME NEW x, RecordIsTrue(x, keyRow, pc) PROVE RecordIsTrue(x, keyRow, pc')
        BY <2>1, <4>1, RecordStaysTrue
      <4> QED BY <1>1, <4>1
    <3> QED BY <1>6, <2>2, <3>1
  <2>4. \A m \in Procs : \A i \in 1 .. Len(map[m]) : RecordIsTrue(map[m][i], keyRow, pc')
    <3>1. \A m \in Procs : \A i \in 1 .. Len(map[m]) : RecordIsTrue(map[m][i], keyRow, pc)
      BY DEF KeysInv, MapsAreTrue
    <3> QED BY <2>1, <3>1, RecordStaysTrue
  <2>5. \A m \in Procs : /\ InExpiryOrder(map'[m], now)
                         /\ \A i \in 1 .. Len(map'[m]) : RecordIsTrue(map'[m][i], keyRow, pc')
    BY <1>7, <1>10, <2>3, <2>4 DEF KeysInv, MapsAreTrue
  <2>6. keyRow' = keyRow /\ now' = now
    OBVIOUS
  <2> QED BY ONLY <2>5, <2>6 DEF MapsAreTrue
<1>12. CallsHaveRecords'
  <2> SUFFICES ASSUME NEW u \in Requests, Running(u)' PROVE CallHasRecord(u)'
    BY DEF CallsHaveRecords
  <2>1. CASE u = r
    <3>1. map'[at'[r]][Len(s) + 1] = Record(r, "in-flight", None, expiresAt'[r])
      BY <1>6, <1>7, <1>8 DEF rec
    <3>2. Len(s) + 1 \in 1 .. Len(map'[at'[r]])
      BY <1>6, <1>7, <1>8
    <3>3. now < expiresAt'[r] /\ expiresAt'[r] <= now + KEY_TTL
      BY <1>2, <1>8 DEF e
    <3> QED BY <1>8, <2>1, <3>1, <3>2, <3>3 DEF CallHasRecord, Record
  <2>2. CASE u # r
    <3>1. Running(u) /\ at'[u] = at[u] /\ expiresAt'[u] = expiresAt[u]
      BY <1>8, <2>2 DEF Running
    <3>2. CallHasRecord(u)
      BY <3>1 DEF KeysInv, CallsHaveRecords
    <3>3. \E i \in 1 .. Len(map'[at[u]]) : map'[at[u]][i] = Record(u, "in-flight", None, expiresAt[u])
      <4>1. CASE at[u] = n
        <5>1. PICK i \in 1 .. Len(s) : s[i] = Record(u, "in-flight", None, expiresAt[u])
          BY <1>1, <3>1, <4>1
        <5>2. i \in 1 .. Len(t) /\ t[i] = s[i] /\ map'[at[u]] = t
          BY <1>6, <1>7, <4>1
        <5> QED BY <5>1, <5>2
      <4>2. CASE at[u] # n
        BY <1>7, <3>2, <4>2 DEF CallHasRecord
      <4> QED BY <4>1, <4>2
    <3> QED BY <3>1, <3>2, <3>3 DEF CallHasRecord, Record
  <2> QED BY <2>1, <2>2
<1>13. OneCallPerKey'
  <2>1. \A u \in Requests : Running(u) /\ at[u] = n => Key[u] # Key[r]
    <3> SUFFICES ASSUME NEW u \in Requests, Running(u), at[u] = n PROVE Key[u] # Key[r]
      OBVIOUS
    <3>1. PICK i \in 1 .. Len(s) : s[i] = Record(u, "in-flight", None, expiresAt[u])
      BY <1>1
    <3>2. s[i].key = Key[u]
      BY <3>1 DEF Record
    <3> QED BY <1>4, <3>2
  <2>2. \A u \in Requests \ {r} : Running(u)' => Running(u)
    BY <1>8 DEF Running
  <2> QED BY <1>8, <2>1, <2>2 DEF KeysInv, OneCallPerKey
<1>14. OrdersAreRows'
  <2>1. \A k \in Keys : keyRow[k] # None => Key[keyRow[k]] = k /\ pc'[keyRow[k]] # "idle"
    <3> SUFFICES ASSUME NEW k \in Keys, keyRow[k] # None
                 PROVE  Key[keyRow[k]] = k /\ pc'[keyRow[k]] # "idle"
      OBVIOUS
    <3>1. keyRow[k] \in Requests
      BY <1>2 DEF KeyTypes
    <3> QED BY <1>8, <3>1 DEF KeysInv, OrdersAreRows
  <2>2. \A u \in Requests : pc'[u] = "findOne" =>
          order[u] \in Requests /\ keyRow[Key[u]] = order[u] /\ Dto[order[u]] = Dto[u]
    BY <1>8 DEF KeysInv, OrdersAreRows
  <2> QED BY <2>1, <2>2 DEF OrdersAreRows
<1>15. AnswersHold'
  <2>1. \A v \in Requests : pc[v] # "idle" => pc'[v] # "idle"
    BY <1>8
  <2>2. \A v \in Requests : pc'[v] # "done" => pc[v] # "done"
    BY <1>8
  <2> QED BY <2>1, <2>2 DEF KeysInv, AnswersHold, answers
<1> QED BY <1>9, <1>11, <1>12, <1>13, <1>14, <1>15 DEF KeysInv

LEMMA ArriveInv ==
  ASSUME KeysInv, NEW r \in Requests, NEW n \in Procs, Arrive(r, n)
  PROVE  KeysInv'
<1>1. pc[r] = "idle" /\ UNCHANGED <<keyRow, now, kills>>
  BY DEF Arrive
<1>2. CASE Holds(Swept(map[n]), Key[r])
  BY <1>1, <1>2, HitInv DEF Arrive
<1>3. CASE ~ Holds(Swept(map[n]), Key[r])
  BY <1>1, <1>3, MissInv DEF Arrive
<1> QED BY <1>2, <1>3

\* create() returns an order: its own, which the key now has, or the key's.
LEMMA CreatedInv ==
  ASSUME KeysInv, NEW r \in Requests, NEW o \in Requests, pc[r] = "create",
         \/ keyRow[Key[r]] = None /\ o = r /\ keyRow' = [keyRow EXCEPT ![Key[r]] = r]
         \/ keyRow[Key[r]] = o /\ keyRow' = keyRow,
         Dto[o] = Dto[r], order' = [order EXCEPT ![r] = o], pc' = [pc EXCEPT ![r] = "findOne"],
         UNCHANGED <<map, at, expiresAt, answers, now, kills>>
  PROVE  KeysInv'
<1> USE RequestsAssumption
<1>1. KeyTypes /\ Key[r] \in Keys /\ o # None
  BY DEF KeysInv
<1>2. /\ pc'[r] = "findOne" /\ order'[r] = o
      /\ \A u \in Requests \ {r} : pc'[u] = pc[u] /\ order'[u] = order[u]
      /\ \A v \in Requests : pc[v] # "idle" => pc'[v] # "idle"
  BY <1>1 DEF KeyTypes
<1>3. /\ keyRow'[Key[r]] = o /\ \A k \in Keys \ {Key[r]} : keyRow'[k] = keyRow[k]
      /\ \A k \in Keys : keyRow[k] # None => keyRow'[k] = keyRow[k]
      /\ keyRow' \in [Keys -> Requests \cup {None}]
  BY <1>1 DEF KeyTypes
<1>4. KeyTypes'
  BY <1>1, <1>3 DEF KeyTypes, answers
<1>5. MapsAreTrue'
  <2>1. \A m \in Procs : \A i \in 1 .. Len(map[m]) :
          map[m][i].key \in Keys /\ RecordIsTrue(map[m][i], keyRow, pc)
    <3>1. \A m \in Procs : \A i \in 1 .. Len(map[m]) : map[m][i] \in Records
      BY <1>1 DEF KeyTypes
    <3> QED BY <3>1 DEF Records, KeysInv, MapsAreTrue
  <2>2. ASSUME NEW rec, rec.key \in Keys, RecordIsTrue(rec, keyRow, pc)
        PROVE  RecordIsTrue(rec, keyRow', pc')
    BY <1>2, <1>3, <2>2 DEF RecordIsTrue, Sent
  <2>3. \A m \in Procs : \A i \in 1 .. Len(map[m]) : RecordIsTrue(map[m][i], keyRow', pc')
    BY <2>1, <2>2
  <2>4. \A m \in Procs : InExpiryOrder(map[m], now)
    BY DEF KeysInv, MapsAreTrue
  <2> QED BY <2>3, <2>4 DEF MapsAreTrue
<1>6. \A u \in Requests : Running(u)' => Running(u)
  BY <1>2 DEF Running
<1>7. CallsHaveRecords' /\ OneCallPerKey'
  BY <1>6 DEF KeysInv, CallsHaveRecords, CallHasRecord, OneCallPerKey, Record
<1>8. OrdersAreRows'
  <2>1. \A k \in Keys : keyRow'[k] # None => Key[keyRow'[k]] = k /\ pc'[keyRow'[k]] # "idle"
    <3> SUFFICES ASSUME NEW k \in Keys, keyRow'[k] # None
                 PROVE  Key[keyRow'[k]] = k /\ pc'[keyRow'[k]] # "idle"
      OBVIOUS
    <3>1. CASE keyRow[k] # None
      <4>1. keyRow[k] \in Requests /\ keyRow'[k] = keyRow[k]
        BY <1>1, <1>3, <3>1 DEF KeyTypes
      <4> QED BY <1>2, <3>1, <4>1 DEF KeysInv, OrdersAreRows
    <3>2. CASE keyRow[k] = None
      <4>1. k = Key[r] /\ keyRow'[k] = o
        BY <1>3, <3>2
      <4>2. o = r
        BY <1>1, <3>2, <4>1
      <4> QED BY <1>2, <4>1, <4>2
    <3> QED BY <3>1, <3>2
  <2>2. \A u \in Requests : pc'[u] = "findOne" =>
          order'[u] \in Requests /\ keyRow'[Key[u]] = order'[u] /\ Dto[order'[u]] = Dto[u]
    <3> SUFFICES ASSUME NEW u \in Requests, pc'[u] = "findOne"
                 PROVE  order'[u] \in Requests /\ keyRow'[Key[u]] = order'[u] /\ Dto[order'[u]] = Dto[u]
      OBVIOUS
    <3>1. CASE u = r
      BY <1>2, <1>3, <3>1
    <3>2. CASE u # r
      <4>1. order[u] \in Requests /\ keyRow[Key[u]] = order[u] /\ Dto[order[u]] = Dto[u]
        BY <1>2, <3>2 DEF KeysInv, OrdersAreRows
      <4> QED BY <1>2, <1>3, <3>2, <4>1
    <3> QED BY <3>1, <3>2
  <2> QED BY <2>1, <2>2 DEF OrdersAreRows
<1>9. AnswersHold'
  <2> SUFFICES ASSUME NEW u \in Requests
               PROVE  /\ pc'[u] # "done" => answer[u] = "none"
                      /\ answer[u] = "created" <=> reply[u] # None
                      /\ answer[u] = "created" =>
                           /\ reply[u] \in Requests /\ keyRow'[Key[u]] = reply[u]
                           /\ Dto[reply[u]] = Dto[u]
                      /\ answer[u] = "key_reuse" =>
                           \E v \in Requests : Key[v] = Key[u] /\ pc'[v] # "idle" /\ Body[v] # Body[u]
    BY DEF AnswersHold, answers
  <2>1. Key[u] \in Keys
    OBVIOUS
  <2> QED BY <1>2, <1>3, <2>1 DEF KeysInv, AnswersHold
<1> QED BY <1>4, <1>5, <1>7, <1>8, <1>9 DEF KeysInv

\* Where the call of r is over, what the maps remember may stay.
LEMMA MapsStay ==
  ASSUME KeysInv, NEW r \in Requests, pc' = [pc EXCEPT ![r] = "done"], map' = map
  PROVE  /\ map' \in [Procs -> Seq(Records)]
         /\ \A n \in Procs : /\ InExpiryOrder(map'[n], now)
                             /\ \A i \in 1 .. Len(map'[n]) : RecordIsTrue(map'[n][i], keyRow, pc')
         /\ \A u \in Requests \ {r} : Running(u) =>
              \E i \in 1 .. Len(map'[at[u]]) :
                map'[at[u]][i] = Record(u, "in-flight", None, expiresAt[u])
<1>1. \A v \in Requests : pc[v] # "idle" => pc'[v] # "idle"
  BY DEF KeysInv, KeyTypes
<1>2. \A n \in Procs : /\ InExpiryOrder(map[n], now)
                       /\ \A i \in 1 .. Len(map[n]) : RecordIsTrue(map[n][i], keyRow, pc)
  BY DEF KeysInv, MapsAreTrue
<1>3. \A n \in Procs : \A i \in 1 .. Len(map[n]) : RecordIsTrue(map[n][i], keyRow, pc')
  BY <1>1, <1>2, RecordStaysTrue
<1>4. map \in [Procs -> Seq(Records)]
  BY DEF KeysInv, KeyTypes
<1>5. \A u \in Requests : Running(u) =>
        \E i \in 1 .. Len(map[at[u]]) : map[at[u]][i] = Record(u, "in-flight", None, expiresAt[u])
  BY DEF KeysInv, CallsHaveRecords, CallHasRecord
<1> QED BY <1>2, <1>3, <1>4, <1>5

LEMMA CreateInv ==
  ASSUME KeysInv, NEW r \in Requests, Create(r)
  PROVE  KeysInv'
<1> USE RequestsAssumption
<1> DEFINE u == keyRow[Key[r]]
<1>1. pc[r] = "create" /\ UNCHANGED <<map, now, kills>> /\ u \in Requests \cup {None}
  BY DEF Create, KeysInv, KeyTypes
<1>2. CASE /\ u = None
           /\ keyRow' = [keyRow EXCEPT ![Key[r]] = r]
           /\ order' = [order EXCEPT ![r] = r]
           /\ pc' = [pc EXCEPT ![r] = "findOne"]
           /\ UNCHANGED <<at, expiresAt, answers>>
  BY <1>1, <1>2, CreatedInv
<1>3. CASE /\ u # None /\ Dto[u] = Dto[r]
           /\ order' = [order EXCEPT ![r] = u]
           /\ pc' = [pc EXCEPT ![r] = "findOne"]
           /\ UNCHANGED <<keyRow, at, expiresAt, answers>>
  BY <1>1, <1>3, CreatedInv
<1>4. CASE u # None /\ Dto[u] # Dto[r] /\ Done(r, "key_reuse", None) /\ UNCHANGED keyRow
  <2>1. u \in Requests /\ Key[r] \in Keys
    BY <1>1, <1>4
  <2>2. Key[u] = Key[r] /\ pc[u] # "idle" /\ Body[u] # Body[r]
    BY <1>4, <2>1, SameBodySameDto DEF KeysInv, OrdersAreRows
  <2>3. \E v \in Requests : Key[v] = Key[r] /\ pc[v] # "idle" /\ Body[v] # Body[r]
    BY <2>1, <2>2
  <2>4. pc' = [pc EXCEPT ![r] = "done"]
    BY <1>4 DEF Done
  <2> HIDE DEF u
  <2> QED BY <1>1, <1>4, <2>3, <2>4, MapsStay, OverInv
<1>5. CASE Done(r, "failed", None) /\ UNCHANGED keyRow
  <2>1. pc' = [pc EXCEPT ![r] = "done"]
    BY <1>5 DEF Done
  <2> QED BY <1>1, <1>5, <2>1, MapsStay, OverInv
<1> QED BY <1>2, <1>3, <1>4, <1>5 DEF Create

\* findOne: the record of the call becomes the answer, in its place.
LEMMA FindOneInv ==
  ASSUME KeysInv, NEW r \in Requests, FindOne(r)
  PROVE  KeysInv'
<1> USE RequestsAssumption
<1>1. pc[r] = "findOne" /\ UNCHANGED <<keyRow, now, kills>>
  BY DEF FindOne
<1>2. CASE Done(r, "failed", None) /\ UNCHANGED map
  <2>1. pc' = [pc EXCEPT ![r] = "done"]
    BY <1>2 DEF Done
  <2> QED BY <1>1, <1>2, <2>1, MapsStay, OverInv
<1>3. CASE /\ Done(r, "created", order[r])
           /\ map' = [map EXCEPT ![at[r]] = Set(map[at[r]], Record(r, "done", order[r], expiresAt[r]))]
  <2> DEFINE n == at[r]
             m == map[n]
             rec == Record(r, "done", order[r], expiresAt[r])
             t == [i \in DOMAIN m |-> IF m[i].key = rec.key THEN rec ELSE m[i]]
  <2>1. /\ order[r] \in Requests /\ keyRow[Key[r]] = order[r] /\ Dto[order[r]] = Dto[r]
        /\ expiresAt[r] \in Nat
    BY <1>1 DEF KeysInv, OrdersAreRows, KeyTypes
  <2>2. n \in Procs /\ \E i \in 1 .. Len(m) : m[i] = Record(r, "in-flight", None, expiresAt[r])
    BY <1>1 DEF KeysInv, CallsHaveRecords, CallHasRecord, Running
  <2>3. m \in Seq(Records) /\ DOMAIN m = 1 .. Len(m) /\ Len(m) \in Nat
    BY <2>2 DEF KeysInv, KeyTypes
  <2>4. /\ rec \in Records /\ rec.key = Key[r] /\ rec.body = Body[r] /\ rec.state = "done"
        /\ rec.order = order[r] /\ rec.expiresAt = expiresAt[r]
    <3>1. rec \in Records
      BY <2>1, RecordType
    <3> QED BY <3>1 DEF Record
  <2>5. PICK i \in 1 .. Len(m) : m[i].key = Key[r] /\ m[i].expiresAt = expiresAt[r]
    BY <2>2 DEF Record
  <2>6. map' = [map EXCEPT ![n] = t]
    <3>1. Holds(m, rec.key)
      BY <2>3, <2>4, <2>5 DEF Holds
    <3> QED BY <1>3, <3>1 DEF Set
  <2> HIDE DEF rec
  <2>7. /\ t \in Seq(Records) /\ Len(t) = Len(m)
        /\ \A j \in 1 .. Len(m) : t[j] = IF m[j].key = rec.key THEN rec ELSE m[j]
    BY <2>3, <2>4
  <2> HIDE DEF t
  <2>8. InExpiryOrder(m, now) /\ \A j \in 1 .. Len(m) : RecordIsTrue(m[j], keyRow, pc)
    BY <2>2 DEF KeysInv, MapsAreTrue
  <2>9. t[i] = rec /\ \A j \in 1 .. Len(m) : j # i => t[j] = m[j]
    BY <2>4, <2>5, <2>7, <2>8 DEF InExpiryOrder
  <2>10. map' \in [Procs -> Seq(Records)] /\ map'[n] = t /\ \A k \in Procs : k # n => map'[k] = map[k]
    BY <2>2, <2>6, <2>7 DEF KeysInv, KeyTypes
  <2>11. \A v \in Requests : pc[v] # "idle" => pc'[v] # "idle"
    BY <1>3 DEF Done, KeysInv, KeyTypes
  <2>12. InExpiryOrder(t, now)
    <3>1. \A j \in 1 .. Len(m) : t[j].key = m[j].key /\ t[j].expiresAt = m[j].expiresAt
      BY <2>4, <2>5, <2>9
    <3> QED BY <2>7, <2>8, <3>1 DEF InExpiryOrder
  <2>13. RecordIsTrue(rec, keyRow, pc')
    <3>1. Key[r] = rec.key /\ Body[r] = rec.body /\ pc'[r] # "idle"
      BY <1>1, <2>4, <2>11
    <3>2. Sent(rec.key, rec.body, pc')
      BY <3>1 DEF Sent
    <3>3. Body[r] = rec.body /\ Dto[r] = Dto[rec.order]
      BY <2>1, <2>4
    <3> QED BY <2>1, <2>4, <3>2, <3>3 DEF RecordIsTrue
  <2>14. \A j \in 1 .. Len(t) : RecordIsTrue(t[j], keyRow, pc')
    <3>1. \A j \in 1 .. Len(m) : RecordIsTrue(m[j], keyRow, pc')
      BY <2>8, <2>11, RecordStaysTrue
    <3> QED BY <2>7, <2>9, <2>13, <3>1
  <2>15. \A k \in Procs : /\ InExpiryOrder(map'[k], now)
                          /\ \A j \in 1 .. Len(map'[k]) : RecordIsTrue(map'[k][j], keyRow, pc')
    <3>1. \A k \in Procs : \A j \in 1 .. Len(map[k]) : RecordIsTrue(map[k][j], keyRow, pc)
      BY DEF KeysInv, MapsAreTrue
    <3>2. \A k \in Procs : \A j \in 1 .. Len(map[k]) : RecordIsTrue(map[k][j], keyRow, pc')
      BY <2>11, <3>1, RecordStaysTrue
    <3> QED BY <2>10, <2>12, <2>14, <3>2 DEF KeysInv, MapsAreTrue
  <2>16. ASSUME NEW u \in Requests \ {r}, Running(u)
         PROVE  \E j \in 1 .. Len(map'[at[u]]) :
                  map'[at[u]][j] = Record(u, "in-flight", None, expiresAt[u])
    <3>1. at[u] \in Procs /\ \E j \in 1 .. Len(map[at[u]]) :
            map[at[u]][j] = Record(u, "in-flight", None, expiresAt[u])
      BY <2>16 DEF KeysInv, CallsHaveRecords, CallHasRecord
    <3>2. CASE at[u] # n
      BY <2>10, <3>1, <3>2
    <3>3. CASE at[u] = n
      <4>1. PICK j \in 1 .. Len(m) : m[j] = Record(u, "in-flight", None, expiresAt[u])
        BY <3>1, <3>3
      <4>2. m[j].key = Key[u]
        BY <4>1 DEF Record
      <4>3. Key[u] # Key[r]
        BY <1>1, <2>16, <3>3 DEF KeysInv, OneCallPerKey, Running
      <4>4. j # i
        BY <2>5, <4>2, <4>3
      <4>5. t[j] = Record(u, "in-flight", None, expiresAt[u]) /\ map'[at[u]] = t /\ j \in 1 .. Len(t)
        BY <2>7, <2>9, <2>10, <2>2, <3>3, <4>1, <4>4
      <4> QED BY <4>5
    <3> QED BY <3>2, <3>3
  <2>17. order[r] # None
    BY <2>1
  <2> QED BY <1>1, <1>3, <2>1, <2>10, <2>15, <2>16, <2>17, OverInv
<1> QED BY <1>2, <1>3 DEF FindOne

\* A process that dies takes its map and its calls with it.
LEMMA KillInv ==
  ASSUME KeysInv, NEW n \in Procs, Kill(n)
  PROVE  KeysInv'
<1> USE RequestsAssumption, TimesAssumption
<1> DEFINE lost == {r \in Requests : Running(r) /\ at[r] = n}
<1>1. /\ kills < MaxKills /\ kills' = kills + 1 /\ map' = [map EXCEPT ![n] = <<>>]
      /\ pc' = [r \in Requests |-> IF r \in lost THEN "done" ELSE pc[r]]
      /\ answer' = [r \in Requests |-> IF r \in lost THEN "failed" ELSE answer[r]]
      /\ at' = [r \in Requests |-> IF r \in lost THEN None ELSE at[r]]
      /\ order' = [r \in Requests |-> IF r \in lost THEN None ELSE order[r]]
      /\ expiresAt' = [r \in Requests |-> IF r \in lost THEN 0 ELSE expiresAt[r]]
      /\ UNCHANGED <<keyRow, reply, now>>
  BY DEF Kill
<1>2. KeyTypes /\ <<>> \in Seq(Records) /\ Len(<<>>) = 0
  BY DEF KeysInv
<1>3. /\ map'[n] = <<>> /\ \A m \in Procs : m # n => map'[m] = map[m]
      /\ map' \in [Procs -> Seq(Records)]
  BY <1>1, <1>2 DEF KeyTypes
<1>4. \A r \in Requests : r \notin lost =>
        /\ pc'[r] = pc[r] /\ answer'[r] = answer[r] /\ at'[r] = at[r]
        /\ order'[r] = order[r] /\ expiresAt'[r] = expiresAt[r]
  BY <1>1
<1>5. \A r \in Requests : r \in lost => pc'[r] = "done" /\ answer'[r] = "failed" /\ Running(r)
  BY <1>1
<1>6. \A r \in Requests : Running(r)' => Running(r) /\ r \notin lost /\ at[r] # n
  BY <1>4, <1>5 DEF Running
<1>7. \A v \in Requests : pc[v] # "idle" => pc'[v] # "idle"
  BY <1>4, <1>5
<1>8. \A r \in Requests : r \in lost => reply[r] = None
  <2>1. \A r \in Requests : Running(r) => answer[r] # "created"
    BY DEF KeysInv, AnswersHold, Running
  <2> QED BY <1>5, <2>1 DEF KeysInv, AnswersHold
<1> HIDE DEF lost
<1>9. KeyTypes'
  BY <1>1, <1>2, <1>3 DEF KeyTypes
<1>10. MapsAreTrue'
  <2>1. \A m \in Procs : \A i \in 1 .. Len(map[m]) : RecordIsTrue(map[m][i], keyRow, pc)
    BY DEF KeysInv, MapsAreTrue
  <2>2. \A m \in Procs : \A i \in 1 .. Len(map[m]) : RecordIsTrue(map[m][i], keyRow, pc')
    BY <1>7, <2>1, RecordStaysTrue
  <2>3. InExpiryOrder(<<>>, now)
    BY <1>2 DEF InExpiryOrder
  <2>4. \A m \in Procs : /\ InExpiryOrder(map'[m], now)
                         /\ \A i \in 1 .. Len(map'[m]) : RecordIsTrue(map'[m][i], keyRow, pc')
    <3> SUFFICES ASSUME NEW m \in Procs
                 PROVE  /\ InExpiryOrder(map'[m], now)
                        /\ \A i \in 1 .. Len(map'[m]) : RecordIsTrue(map'[m][i], keyRow, pc')
      OBVIOUS
    <3>1. CASE m = n
      BY <1>2, <1>3, <2>3, <3>1
    <3>2. CASE m # n
      BY <1>3, <2>2, <3>2 DEF KeysInv, MapsAreTrue
    <3> QED BY <3>1, <3>2
  <2> QED BY <1>1, <2>4 DEF MapsAreTrue
<1>11. CallsHaveRecords'
  <2> SUFFICES ASSUME NEW r \in Requests, Running(r)' PROVE CallHasRecord(r)'
    BY DEF CallsHaveRecords
  <2>1. /\ Running(r) /\ at'[r] = at[r] /\ at[r] # n /\ expiresAt'[r] = expiresAt[r]
    BY <1>4, <1>6
  <2>2. CallHasRecord(r)
    BY <2>1 DEF KeysInv, CallsHaveRecords
  <2>3. map'[at[r]] = map[at[r]]
    BY <1>3, <2>1, <2>2 DEF CallHasRecord
  <2> QED BY <1>1, <2>1, <2>2, <2>3 DEF CallHasRecord, Record
<1>12. OneCallPerKey'
  BY <1>4, <1>6 DEF KeysInv, OneCallPerKey
<1>13. OrdersAreRows'
  <2>1. \A k \in Keys : keyRow[k] # None => Key[keyRow[k]] = k /\ pc'[keyRow[k]] # "idle"
    <3> SUFFICES ASSUME NEW k \in Keys, keyRow[k] # None
                 PROVE  Key[keyRow[k]] = k /\ pc'[keyRow[k]] # "idle"
      OBVIOUS
    <3>1. keyRow[k] \in Requests
      BY <1>2 DEF KeyTypes
    <3> QED BY <1>7, <3>1 DEF KeysInv, OrdersAreRows
  <2>2. \A u \in Requests : pc'[u] = "findOne" =>
          order'[u] \in Requests /\ keyRow[Key[u]] = order'[u] /\ Dto[order'[u]] = Dto[u]
    BY <1>4, <1>5 DEF KeysInv, OrdersAreRows
  <2> QED BY <1>1, <2>1, <2>2 DEF OrdersAreRows
<1>14. AnswersHold'
  <2> SUFFICES ASSUME NEW u \in Requests
               PROVE  /\ pc'[u] # "done" => answer'[u] = "none"
                      /\ answer'[u] = "created" <=> reply[u] # None
                      /\ answer'[u] = "created" =>
                           /\ reply[u] \in Requests /\ keyRow[Key[u]] = reply[u]
                           /\ Dto[reply[u]] = Dto[u]
                      /\ answer'[u] = "key_reuse" =>
                           \E v \in Requests : Key[v] = Key[u] /\ pc'[v] # "idle" /\ Body[v] # Body[u]
    BY <1>1 DEF AnswersHold
  <2> QED BY <1>4, <1>5, <1>7, <1>8 DEF KeysInv, AnswersHold
<1> QED BY <1>9, <1>10, <1>11, <1>12, <1>13, <1>14 DEF KeysInv

LEMMA TickInv ==
  ASSUME KeysInv, Tick
  PROVE  KeysInv'
<1> USE TimesAssumption
<1>1. /\ now' = now + 1 /\ now \in Nat /\ now' \in 0 .. MaxTime
      /\ \A r \in Requests : Running(r) => now + 1 < expiresAt[r]
      /\ UNCHANGED <<map, keyRow, pc, at, order, expiresAt, answer, reply, kills>>
  BY DEF Tick, locals, answers, KeysInv, KeyTypes
<1>2. KeyTypes'
  BY <1>1 DEF KeysInv, KeyTypes
<1>3. MapsAreTrue'
  <2>1. \A n \in Procs : \A i \in 1 .. Len(map[n]) : map[n][i].expiresAt \in Nat
    <3>1. \A n \in Procs : \A i \in 1 .. Len(map[n]) : map[n][i] \in Records
      BY DEF KeysInv, KeyTypes
    <3> QED BY <3>1 DEF Records
  <2>2. \A n \in Procs : \A i \in 1 .. Len(map[n]) : map[n][i].expiresAt <= now + KEY_TTL
    BY DEF KeysInv, MapsAreTrue, InExpiryOrder
  <2>3. \A n \in Procs : \A i \in 1 .. Len(map[n]) : map[n][i].expiresAt <= (now + 1) + KEY_TTL
    <3>1. \A x \in Nat : x <= now + KEY_TTL => x <= (now + 1) + KEY_TTL
      BY <1>1
    <3> QED BY <2>1, <2>2, <3>1
  <2>4. \A n \in Procs : InExpiryOrder(map[n], now + 1)
    BY <2>3 DEF KeysInv, MapsAreTrue, InExpiryOrder
  <2> QED BY <1>1, <2>4 DEF KeysInv, MapsAreTrue
<1>4. CallsHaveRecords'
  <2> SUFFICES ASSUME NEW r \in Requests, Running(r) PROVE CallHasRecord(r)'
    BY <1>1 DEF CallsHaveRecords, Running
  <2>1. CallHasRecord(r) /\ now + 1 < expiresAt[r] /\ expiresAt[r] \in Nat
    BY <1>1 DEF KeysInv, CallsHaveRecords, KeyTypes
  <2>2. now' < expiresAt[r] /\ expiresAt[r] <= now' + KEY_TTL
    BY <1>1, <2>1 DEF CallHasRecord
  <2> QED BY <1>1, <2>1, <2>2 DEF CallHasRecord, Record
<1>5. OneCallPerKey' /\ OrdersAreRows' /\ AnswersHold'
  BY <1>1 DEF KeysInv, OneCallPerKey, OrdersAreRows, AnswersHold, Running
<1> QED BY <1>2, <1>3, <1>4, <1>5 DEF KeysInv

LEMMA KeysNextInv ==
  ASSUME KeysInv, [Next]_vars
  PROVE  KeysInv'
<1>1. CASE UNCHANGED vars
  <2>1. UNCHANGED <<map, keyRow, pc, at, order, expiresAt, answer, reply, now, kills>>
    BY <1>1 DEF vars, locals, answers
  <2>2. KeyTypes' /\ MapsAreTrue'
    BY <2>1 DEF KeysInv, KeyTypes, MapsAreTrue
  <2>3. CallsHaveRecords' /\ OneCallPerKey'
    BY <2>1 DEF KeysInv, CallsHaveRecords, CallHasRecord, OneCallPerKey, Running, Record
  <2>4. OrdersAreRows' /\ AnswersHold'
    BY <2>1 DEF KeysInv, OrdersAreRows, AnswersHold
  <2> QED BY <2>2, <2>3, <2>4 DEF KeysInv
<1> QED BY <1>1, ArriveInv, CreateInv, FindOneInv, KillInv, TickInv DEF Next

LEMMA KeysTypeOK ==
  ASSUME KeysInv
  PROVE  TypeOK
BY DEF KeysInv, KeyTypes, AnswersHold, TypeOK

LEMMA KeysSwept ==
  ASSUME KeysInv
  PROVE  SweepLeavesNothing
<1>1. \A n \in Procs : DOMAIN map[n] = 1 .. Len(map[n])
  BY DEF KeysInv, KeyTypes
<1>2. \A n \in Procs : InExpiryOrder(map[n], now)
  BY DEF KeysInv, MapsAreTrue
<1>3. ASSUME NEW n \in Procs, NEW i \in DOMAIN map[n], NEW j \in DOMAIN map[n]
      PROVE  /\ i < j => map[n][i].expiresAt <= map[n][j].expiresAt
             /\ map[n][i].key = map[n][j].key => i = j
  BY <1>1, <1>2, <1>3 DEF InExpiryOrder
<1> QED BY <1>3 DEF SweepLeavesNothing

LEMMA KeysAnswer ==
  ASSUME KeysInv
  PROVE  OneAnswerPerKey
BY DEF KeysInv, AnswersHold, OneAnswerPerKey

-----------------------------------------------------------------------------
(* The interceptor and the table implement KeyStore.                       *)

\* The call that put e into the map of n, or one like it: it has not been
\* answered with an order, and if it still runs it runs in n.
Holder(u, e, n) ==
  /\ Key[u] = e.key /\ Body[u] = e.body
  /\ pc[u] # "idle" /\ answer[u] # "created"
  /\ Running(u) => at[u] = n

\* So a record that is in flight speaks of a call that is running or has failed.
InFlightHeld ==
  \A n \in Procs : \A e \in Range(map[n]) :
    e.state = "in-flight" => \E u \in Requests : Holder(u, e, n)

LEMMA RangeOfMap ==
  ASSUME NEW m \in Seq(Records)
  PROVE  /\ \A e \in Range(m) : \E i \in 1 .. Len(m) : m[i] = e
         /\ \A i \in 1 .. Len(m) : m[i] \in Range(m)
BY DEF Range

LEMMA RangeOfAppend ==
  ASSUME NEW m \in Seq(Records), NEW e \in Records
  PROVE  Range(Append(m, e)) \subseteq Range(m) \cup {e}
<1>1. Append(m, e) \in Seq(Records) /\ Len(Append(m, e)) = Len(m) + 1 /\ Len(m) \in Nat
  OBVIOUS
<1>2. ASSUME NEW i \in 1 .. Len(m) + 1
      PROVE  Append(m, e)[i] \in Range(m) \cup {e}
  <2>1. CASE i = Len(m) + 1
    BY <2>1
  <2>2. CASE i \in 1 .. Len(m)
    BY <2>2, RangeOfMap
  <2> QED BY <1>1, <2>1, <2>2
<1> QED BY <1>1, <1>2, RangeOfMap

\* The calls a step leaves alone go on holding.
LEMMA HolderStays ==
  ASSUME NEW u, NEW e, NEW n, Holder(u, e, n),
         pc'[u] = pc[u], answer'[u] = answer[u], at'[u] = at[u]
  PROVE  Holder(u, e, n)'
BY DEF Holder, Running

LEMMA ArriveHeld ==
  ASSUME KeysInv, InFlightHeld, NEW r \in Requests, NEW n \in Procs, Arrive(r, n)
  PROVE  InFlightHeld'
<1> DEFINE s == Swept(map[n])
           rec == Record(r, "in-flight", None, now + KEY_TTL)
<1>1. KeyTypes /\ pc[r] = "idle" /\ answer[r] = "none"
  BY DEF KeysInv, AnswersHold, Arrive
<1>2. s \in Seq(Records) /\ Range(s) \subseteq Range(map[n])
  <2>1. map[n] \in Seq(Records) /\ InExpiryOrder(map[n], now) /\ now \in Nat /\ KEY_TTL \in Nat
    BY TimesAssumption DEF KeysInv, KeyTypes, MapsAreTrue
  <2>2. /\ s \in Seq(Records)
        /\ \A i \in 1 .. Len(s) : \E j \in 1 .. Len(map[n]) : s[i] = map[n][j]
    BY <2>1, SweepKeeps
  <2> HIDE DEF s
  <2> QED BY <2>1, <2>2, RangeOfMap
<1>3. \A u \in Requests \ {r} : pc'[u] = pc[u] /\ answer'[u] = answer[u] /\ at'[u] = at[u]
  BY <1>1 DEF KeyTypes, Arrive, Hit, Done, answers
<1>4. ASSUME NEW m \in Procs, NEW e \in Range(map[m]), e.state = "in-flight"
      PROVE  \E u \in Requests : Holder(u, e, m)'
  <2>1. PICK u \in Requests : Holder(u, e, m)
    BY <1>4 DEF InFlightHeld
  <2>2. u # r
    BY <1>1, <2>1 DEF Holder
  <2> QED BY <1>3, <2>1, <2>2, HolderStays
<1>5. CASE map' = [map EXCEPT ![n] = s]
  <2>1. \A m \in Procs : Range(map'[m]) \subseteq Range(map[m])
    BY <1>1, <1>2, <1>5 DEF KeyTypes
  <2> QED BY <1>4, <2>1 DEF InFlightHeld
<1>6. CASE /\ ~ Holds(s, Key[r])
           /\ map' = [map EXCEPT ![n] = Set(s, rec)]
           /\ at' = [at EXCEPT ![r] = n]
           /\ pc' = [pc EXCEPT ![r] = "create"] /\ UNCHANGED answers
  <2>1. rec \in Records /\ rec.key = Key[r] /\ rec.body = Body[r]
    <3>1. now + KEY_TTL \in Nat
      BY <1>1, TimesAssumption DEF KeyTypes
    <3>2. rec \in Records
      BY <3>1, RecordType
    <3> QED BY <3>2 DEF Record
  <2>2. map' = [map EXCEPT ![n] = Append(s, rec)]
    BY <1>6, <2>1 DEF Set
  <2> HIDE DEF s, rec
  <2>3. Range(Append(s, rec)) \subseteq Range(s) \cup {rec}
    BY <1>2, <2>1, RangeOfAppend
  <2>4. \A m \in Procs : Range(map'[m]) \subseteq IF m = n THEN Range(map[m]) \cup {rec} ELSE Range(map[m])
    BY <1>1, <1>2, <2>2, <2>3 DEF KeyTypes
  <2>5. PICK e : e = rec
    OBVIOUS
  <2>6. Holder(r, e, n)'
    <3>1. pc'[r] = "create" /\ answer'[r] = "none" /\ at'[r] = n
      BY <1>1, <1>6 DEF KeyTypes, answers
    <3> QED BY <2>1, <2>5, <3>1 DEF Holder
  <2>7. \A m \in Procs : \A d \in Range(map'[m]) : d \in Range(map[m]) \/ (m = n /\ d = e)
    BY <2>4, <2>5
  <2> QED BY <1>4, <2>6, <2>7 DEF InFlightHeld
<1> QED BY <1>5, <1>6 DEF Arrive

\* create() answers no call with its order: it is running still, or has failed.
LEMMA CreateHeld ==
  ASSUME KeysInv, InFlightHeld, NEW r \in Requests, Create(r)
  PROVE  InFlightHeld'
<1>1. KeyTypes /\ pc[r] = "create" /\ answer[r] = "none" /\ map' = map
  BY DEF KeysInv, AnswersHold, Create
<1>2. /\ \A u \in Requests \ {r} : pc'[u] = pc[u] /\ answer'[u] = answer[u] /\ at'[u] = at[u]
      /\ pc'[r] \in {"findOne", "done"} /\ answer'[r] # "created"
      /\ pc'[r] = "findOne" => at'[r] = at[r]
  BY <1>1 DEF KeyTypes, Create, Done, answers
<1>3. ASSUME NEW n \in Procs, NEW e \in Range(map[n]), e.state = "in-flight"
      PROVE  \E u \in Requests : Holder(u, e, n)'
  <2>1. PICK u \in Requests : Holder(u, e, n)
    BY <1>3 DEF InFlightHeld
  <2>2. CASE u = r
    BY <1>1, <1>2, <2>1, <2>2 DEF Holder, Running
  <2>3. CASE u # r
    BY <1>2, <2>1, <2>3, HolderStays
  <2> QED BY <2>2, <2>3
<1> QED BY <1>1, <1>3 DEF InFlightHeld

\* findOne makes the record of its call an answer, and fails without one.
LEMMA FindOneHeld ==
  ASSUME KeysInv, InFlightHeld, NEW r \in Requests, FindOne(r)
  PROVE  InFlightHeld'
<1>1. KeyTypes /\ pc[r] = "findOne" /\ Running(r) /\ at[r] \in Procs
  BY DEF KeysInv, CallsHaveRecords, CallHasRecord, FindOne, Running
<1>2. /\ \A u \in Requests \ {r} : pc'[u] = pc[u] /\ answer'[u] = answer[u] /\ at'[u] = at[u]
      /\ pc'[r] = "done"
  BY <1>1 DEF KeyTypes, FindOne, Done
<1>3. CASE answer'[r] = "failed" /\ map' = map
  <2>1. ASSUME NEW n \in Procs, NEW e \in Range(map[n]), e.state = "in-flight"
        PROVE  \E u \in Requests : Holder(u, e, n)'
    <3>1. PICK u \in Requests : Holder(u, e, n)
      BY <2>1 DEF InFlightHeld
    <3>2. CASE u = r
      BY <1>2, <1>3, <3>1, <3>2 DEF Holder, Running
    <3>3. CASE u # r
      BY <1>2, <3>1, <3>3, HolderStays
    <3> QED BY <3>2, <3>3
  <2> QED BY <1>3, <2>1 DEF InFlightHeld
<1>4. CASE map' = [map EXCEPT ![at[r]] = Set(map[at[r]], Record(r, "done", order[r], expiresAt[r]))]
  <2>1. PICK p \in Procs : p = at[r]
    BY <1>1
  <2>2. PICK d : d = Record(r, "done", order[r], expiresAt[r])
    OBVIOUS
  <2>3. d.key = Key[r] /\ d.state = "done"
    BY <2>2 DEF Record
  <2>4. PICK m \in Seq(Records) : m = map[p]
    BY <1>1 DEF KeyTypes
  <2>5. Holds(m, d.key)
    <3>1. \E i \in 1 .. Len(m) : m[i].key = Key[r]
      <4>1. \E i \in 1 .. Len(map[p]) : map[p][i] = Record(r, "in-flight", None, expiresAt[r])
        BY <1>1, <2>1 DEF KeysInv, CallsHaveRecords, CallHasRecord
      <4> QED BY <2>4, <4>1 DEF Record
    <3> QED BY <2>3, <3>1 DEF Holds
  <2>6. ASSUME NEW e \in Range(Set(m, d)), e.state = "in-flight"
        PROVE  e \in Range(m) /\ e.key # Key[r]
    <3>1. Set(m, d) = [i \in DOMAIN m |-> IF m[i].key = d.key THEN d ELSE m[i]]
      BY <2>5 DEF Set
    <3>2. PICK i \in DOMAIN m : e = IF m[i].key = d.key THEN d ELSE m[i]
      BY <2>6, <3>1 DEF Range
    <3>3. m[i].key # d.key /\ e = m[i]
      BY <2>3, <2>6, <3>2
    <3> QED BY <2>3, <3>3 DEF Range
  <2>7. map'[p] = Set(m, d) /\ \A n \in Procs \ {p} : map'[n] = map[n]
    BY <1>1, <1>4, <2>1, <2>2, <2>4 DEF KeyTypes
  <2>8. ASSUME NEW n \in Procs, NEW e \in Range(map'[n]), e.state = "in-flight"
        PROVE  \E u \in Requests : Holder(u, e, n)'
    <3>1. e \in Range(map[n])
      BY <2>4, <2>6, <2>7, <2>8
    <3>2. PICK u \in Requests : Holder(u, e, n)
      BY <2>8, <3>1 DEF InFlightHeld
    <3>3. u # r
      <4>1. CASE n = p
        BY <2>6, <2>7, <2>8, <3>2, <4>1 DEF Holder
      <4>2. CASE n # p
        BY <1>1, <2>1, <3>2, <4>2 DEF Holder
      <4> QED BY <4>1, <4>2
    <3> QED BY <1>2, <3>2, <3>3, HolderStays
  <2> QED BY <2>8 DEF InFlightHeld
<1> QED
  <2>1. \/ answer'[r] = "failed" /\ map' = map
        \/ map' = [map EXCEPT ![at[r]] = Set(map[at[r]], Record(r, "done", order[r], expiresAt[r]))]
    BY <1>1 DEF KeyTypes, FindOne, Done
  <2> QED BY <1>3, <1>4, <2>1

LEMMA KillHeld ==
  ASSUME KeysInv, InFlightHeld, NEW p \in Procs, Kill(p)
  PROVE  InFlightHeld'
<1>1. map'[p] = <<>> /\ \A n \in Procs \ {p} : map'[n] = map[n]
  BY DEF KeysInv, KeyTypes, Kill
<1>2. \A u \in Requests : ~ (Running(u) /\ at[u] = p) =>
        pc'[u] = pc[u] /\ answer'[u] = answer[u] /\ at'[u] = at[u]
  BY DEF KeysInv, KeyTypes, Kill
<1>3. Range(<<>>) = {}
  BY DEF Range
<1>4. ASSUME NEW n \in Procs, NEW e \in Range(map'[n]), e.state = "in-flight"
      PROVE  \E u \in Requests : Holder(u, e, n)'
  <2>1. n # p /\ e \in Range(map[n])
    BY <1>1, <1>3, <1>4
  <2>2. PICK u \in Requests : Holder(u, e, n)
    BY <1>4, <2>1 DEF InFlightHeld
  <2>3. ~ (Running(u) /\ at[u] = p)
    BY <2>1, <2>2 DEF Holder
  <2> QED BY <1>2, <2>2, <2>3, HolderStays
<1> QED BY <1>4 DEF InFlightHeld

LEMMA HeldNext ==
  ASSUME KeysInv, InFlightHeld, [Next]_vars
  PROVE  InFlightHeld'
<1>1. CASE UNCHANGED vars \/ Tick
  <2>1. UNCHANGED <<map, pc, answer, at>>
    BY <1>1 DEF vars, locals, answers, Tick
  <2> QED BY <2>1 DEF InFlightHeld, Holder, Running
<1> QED BY <1>1, ArriveHeld, CreateHeld, FindOneHeld, KillHeld DEF Next

LEMMA HeldInit ==
  ASSUME Init
  PROVE  InFlightHeld
BY DEF Init, InFlightHeld, Range

\* The end of a call, as KeyStore sees it.
LEMMA OverSays ==
  ASSUME KeysInv, NEW r \in Requests, NEW o,
         NEW a \in {"created", "in_flight", "key_reuse", "failed"},
         Done(r, a, o), o = IF a = "created" THEN keyRow[Key[r]] ELSE None,
         Promise!Reason(r, a)
  PROVE  Promise!Speak(r)
<1>1. Promise!Say(r, a)
  BY DEF Done, Promise!Say
<1> QED BY <1>1 DEF Promise!Speak

\* A call ends or goes on among those that have come.
LEMMA SentNext ==
  ASSUME KeysInv, NEW r \in Requests, NEW l \in {"create", "findOne", "done"},
         pc' = [pc EXCEPT ![r] = l]
  PROVE  {u \in Requests : pc'[u] # "idle"} = {u \in Requests : pc[u] # "idle"} \cup {r}
BY DEF KeysInv, KeyTypes

LEMMA ArriveComes ==
  ASSUME KeysInv, InFlightHeld, NEW r \in Requests, NEW n \in Procs, Arrive(r, n)
  PROVE  Promise!Come(r)
<1> DEFINE s == Swept(map[n])
           rec == Get(s, Key[r])
<1>1. pc[r] = "idle" /\ UNCHANGED keyRow
  BY DEF Arrive
<1>2. /\ s \in Seq(Records)
      /\ \A i \in 1 .. Len(s) : RecordIsTrue(s[i], keyRow, pc)
  BY ArriveSweeps
<1>3. Range(s) \subseteq Range(map[n])
  <2>1. map[n] \in Seq(Records) /\ InExpiryOrder(map[n], now) /\ now \in Nat /\ KEY_TTL \in Nat
    BY TimesAssumption DEF KeysInv, KeyTypes, MapsAreTrue
  <2>2. \A i \in 1 .. Len(s) : \E j \in 1 .. Len(map[n]) : s[i] = map[n][j]
    BY <2>1, SweepKeeps
  <2> HIDE DEF s
  <2> QED BY <1>2, <2>1, <2>2, RangeOfMap
<1>4. CASE Holds(s, Key[r]) /\ Hit(r, rec)
  <2>1. PICK i \in 1 .. Len(s) : rec = s[i] /\ s[i].key = Key[r]
    <3> HIDE DEF s
    <3> QED BY <1>2, <1>4, GetFacts
  <2> HIDE DEF s, rec
  <2>2. rec \in Records /\ RecordIsTrue(rec, keyRow, pc) /\ rec.key = Key[r] /\ rec \in Range(map[n])
    BY <1>2, <1>3, <2>1, RangeOfMap
  <2>3. CASE rec.body # Body[r]
    <3>1. Done(r, "key_reuse", None)
      BY <1>4, <2>3 DEF Hit
    <3>2. Promise!Reason(r, "key_reuse")
      BY <2>2, <2>3 DEF RecordIsTrue, Sent, Promise!Reason
    <3>3. Promise!Speak(r)
      BY <3>1, <3>2, OverSays
    <3> QED BY <1>1, <3>1, <3>3, SentNext DEF Done, Promise!Come
  <2>4. CASE rec.body = Body[r] /\ rec.state = "in-flight"
    <3>1. Done(r, "in_flight", None)
      BY <1>4, <2>4 DEF Hit
    <3>2. PICK u \in Requests : Holder(u, rec, n)
      BY <2>2, <2>4 DEF InFlightHeld
    <3>3. Promise!Reason(r, "in_flight")
      BY <1>1, <2>2, <2>4, <3>2 DEF Holder, Promise!Reason
    <3>4. Promise!Speak(r)
      BY <3>1, <3>3, OverSays
    <3> QED BY <1>1, <3>1, <3>4, SentNext DEF Done, Promise!Come
  <2>5. CASE rec.body = Body[r] /\ rec.state # "in-flight"
    <3>1. Done(r, "created", rec.order)
      BY <1>4, <2>5 DEF Hit
    <3>2. rec.state = "done"
      BY <2>2, <2>5 DEF Records
    <3>3. /\ rec.order \in Requests /\ keyRow[Key[r]] = rec.order
          /\ Dto[keyRow[Key[r]]] = Dto[r]
      BY <2>2, <2>5, <3>2, SameBodySameDto DEF RecordIsTrue
    <3>4. Promise!Reason(r, "created")
      BY <3>3, RequestsAssumption DEF Promise!Reason
    <3>5. Promise!Speak(r)
      BY <3>1, <3>3, <3>4, OverSays
    <3> QED BY <1>1, <3>1, <3>5, SentNext DEF Done, Promise!Come
  <2> QED BY <2>3, <2>4, <2>5
<1>5. CASE pc' = [pc EXCEPT ![r] = "create"] /\ UNCHANGED answers
  BY <1>1, <1>5, SentNext DEF answers, Promise!Come
<1> QED BY <1>4, <1>5 DEF Arrive

\* create() gives a new key its order, which nobody sees before findOne; or it
\* finds the order of the key; or it answers.
LEMMA CreatePlaces ==
  ASSUME KeysInv, NEW r \in Requests, Create(r)
  PROVE  Promise!Next \/ UNCHANGED Promise!vars
<1> DEFINE u == keyRow[Key[r]]
<1>1. pc[r] = "create" /\ answer[r] = "none" /\ Promise!Waits(r)
  BY DEF Create, KeysInv, AnswersHold, Promise!Waits
<1>2. \A l \in {"findOne", "done"} : pc' = [pc EXCEPT ![r] = l] =>
        {v \in Requests : pc'[v] # "idle"} = {v \in Requests : pc[v] # "idle"}
  BY <1>1, SentNext
<1>3. CASE /\ u = None /\ keyRow' = [keyRow EXCEPT ![Key[r]] = r]
           /\ pc' = [pc EXCEPT ![r] = "findOne"] /\ UNCHANGED answers
  <2>1. Promise!Place(r)
    BY <1>1, <1>2, <1>3 DEF answers, Promise!Place
  <2> QED BY <2>1 DEF Promise!Next
<1>4. CASE pc' = [pc EXCEPT ![r] = "findOne"] /\ UNCHANGED <<keyRow, answers>>
  BY <1>2, <1>4 DEF answers, Promise!vars
<1>5. CASE u # None /\ Dto[u] # Dto[r] /\ Done(r, "key_reuse", None) /\ UNCHANGED keyRow
  <2>1. u \in Requests /\ Key[u] = Key[r] /\ pc[u] # "idle" /\ Body[u] # Body[r]
    BY <1>5, RequestsAssumption, SameBodySameDto DEF KeysInv, KeyTypes, OrdersAreRows
  <2>2. Promise!Reason(r, "key_reuse")
    <3> HIDE DEF u
    <3> QED BY <2>1 DEF Promise!Reason
  <2>3. Promise!Speak(r)
    BY <1>5, <2>2, OverSays
  <2>4. Promise!Answer(r)
    BY <1>1, <1>2, <1>5, <2>3 DEF Done, Promise!Answer
  <2> QED BY <2>4 DEF Promise!Next
<1>6. CASE Done(r, "failed", None) /\ UNCHANGED keyRow
  <2>1. Promise!Speak(r)
    BY <1>6, OverSays DEF Promise!Reason
  <2>2. Promise!Answer(r)
    BY <1>1, <1>2, <1>6, <2>1 DEF Done, Promise!Answer
  <2> QED BY <2>2 DEF Promise!Next
<1> QED BY <1>3, <1>4, <1>5, <1>6 DEF Create

LEMMA FindOneAnswers ==
  ASSUME KeysInv, NEW r \in Requests, FindOne(r)
  PROVE  Promise!Next
<1>1. pc[r] = "findOne" /\ Promise!Waits(r) /\ UNCHANGED keyRow
  BY DEF FindOne, KeysInv, AnswersHold, Promise!Waits
<1>2. order[r] \in Requests /\ keyRow[Key[r]] = order[r] /\ Dto[order[r]] = Dto[r]
  BY <1>1 DEF KeysInv, OrdersAreRows
<1>3. Promise!Reason(r, "created") /\ Promise!Reason(r, "failed")
  BY <1>2, RequestsAssumption DEF Promise!Reason
<1>4. Done(r, "created", order[r]) \/ Done(r, "failed", None)
  BY DEF FindOne
<1>5. Promise!Speak(r)
  BY <1>2, <1>3, <1>4, OverSays
<1>6. {v \in Requests : pc'[v] # "idle"} = {v \in Requests : pc[v] # "idle"}
  BY <1>1, <1>4, SentNext DEF Done
<1>7. Promise!Answer(r)
  BY <1>1, <1>5, <1>6 DEF Promise!Answer
<1> QED BY <1>7 DEF Promise!Next

LEMMA KillLoses ==
  ASSUME KeysInv, NEW n \in Procs, Kill(n)
  PROVE  Promise!Next
<1> DEFINE lost == {r \in Requests : Running(r) /\ at[r] = n}
<1>1. /\ pc' = [r \in Requests |-> IF r \in lost THEN "done" ELSE pc[r]]
      /\ answer' = [r \in Requests |-> IF r \in lost THEN "failed" ELSE answer[r]]
      /\ UNCHANGED <<keyRow, reply>>
  BY DEF Kill
<1>2. \A r \in lost : Promise!Waits(r) /\ pc[r] # "idle"
  BY DEF KeysInv, AnswersHold, Running, Promise!Waits
<1>3. lost \in SUBSET Requests
  OBVIOUS
<1> HIDE DEF lost
<1>4. {r \in Requests : pc'[r] # "idle"} = {r \in Requests : pc[r] # "idle"}
  BY <1>1, <1>2
<1>5. Promise!Lose(lost)
  BY <1>1, <1>2, <1>4 DEF Promise!Lose
<1> QED BY <1>3, <1>5 DEF Promise!Next

\* Each step of the interceptor is a step of the promise, or none that it sees.
LEMMA KeysPromise ==
  ASSUME KeysInv, InFlightHeld, [Next]_vars
  PROVE  [Promise!Next]_(Promise!vars)
<1>1. CASE UNCHANGED vars \/ Tick
  BY <1>1 DEF vars, answers, Tick, Promise!vars
<1>2. CASE \E r \in Requests, n \in Procs : Arrive(r, n)
  BY <1>2, ArriveComes DEF Promise!Next
<1> QED BY <1>1, <1>2, CreatePlaces, FindOneAnswers, KillLoses DEF Next

LEMMA KeysPromiseInit ==
  ASSUME Init
  PROVE  Promise!Init
BY DEF Init, Promise!Init

-----------------------------------------------------------------------------
(* SerializationRetry: the calls of withSerializationRetry and the row.    *)

\* The operators of the libraries are those of SerializationRetry.
LEMMA RetrysOperators ==
  /\ \A S : Retry!IsFiniteSet(S) = IsFiniteSet(S)
  /\ \A S : Retry!Cardinality(S) = Cardinality(S)
  /\ \A f : Retry!SumFunction(f) = SumFunction(f)
<1>1. \A S : Retry!IsFiniteSet(S) = IsFiniteSet(S)
  BY DEF Retry!IsFiniteSet, IsFiniteSet
<1>2. \A S : Retry!Cardinality(S) = Cardinality(S)
  BY Zenon DEF Retry!Cardinality, Cardinality
<1>3. \A f : Retry!SumFunction(f) = SumFunction(f)
  BY Zenon DEF Retry!SumFunction, SumFunction, Retry!SumFunctionOnSet, SumFunctionOnSet,
    Retry!FoldFunctionOnSet, FoldFunctionOnSet, Retry!MapThenFoldSet, MapThenFoldSet
<1> QED BY <1>1, <1>2, <1>3

LEMMA CallersFinite ==
  ASSUME Retry!CallersAssumption
  PROVE  IsFiniteSet(Callers) /\ Callers # {}
BY RetrysOperators DEF Retry!CallersAssumption

RetryTypes ==
  /\ balance \in Nat /\ version \in Nat /\ arrived \in Nat
  /\ step \in [Callers -> {"begin", "read", "written", "returned", "threw"}]
  /\ snap \in [Callers -> [balance : Nat, version : Nat]]
  /\ attempt \in [Callers -> 1 .. MaxAttempts]
  /\ retries \in [Callers -> 0 .. MaxAttempts - 1]
  /\ wave \in [Callers -> Nat]
  /\ commits \in [Callers -> 0 .. 1]
  /\ faults \in 0 .. MaxFaults

\* How many transactions each caller has begun, or may have.
Begun == [c \in Callers |-> IF step[c] = "begin" THEN attempt[c] - 1 ELSE attempt[c]]

\* The row counts the commits, and the reads are no more than the transactions.
RowCounts ==
  /\ balance = version
  /\ version = SumFunctionOnSet(commits, Callers)
  /\ arrived <= SumFunctionOnSet(Begun, Callers)

\* A snapshot is one of a state of the row, and a transaction that has written
\* it has the last.
SnapshotsAreOld ==
  \A c \in Callers :
    /\ snap[c].balance = snap[c].version /\ snap[c].version <= version
    /\ step[c] = "written" => snap[c].version = version

OneWrites == \A c, d \in Callers : step[c] = "written" /\ step[d] = "written" => c = d

\* One commit for each caller, and one for each state of the row.
CommitsOnce ==
  /\ \A c \in Callers :
       /\ step[c] \in {"begin", "read", "written"} => commits[c] = 0
       /\ step[c] = "returned" => commits[c] = 1
       /\ commits[c] = 1 => snap[c].version < version
  /\ \A c, d \in Callers :
       commits[c] = 1 /\ commits[d] = 1 /\ snap[c].version = snap[d].version => c = d

\* The first two reads wait for each other, so both are of the row as it was.
FirstTwo ==
  /\ arrived <= 1 => version = 0 /\ \A c \in Callers : step[c] \notin {"written", "returned"}
  /\ \A c \in Callers :
       /\ wave[c] <= arrived
       /\ wave[c] <= 2 => snap[c].version = 0
       /\ step[c] = "read" => wave[c] >= 1

\* Without a retry a caller has read once.
Waves ==
  /\ \A c \in Callers : step[c] = "begin" /\ retries[c] = 0 => wave[c] = 0
  /\ (\A c \in Callers : retries[c] = 0) => \A k \in 1 .. arrived : \E c \in Callers : wave[c] = k

RetriesCounted == \A c \in Callers : retries[c] = attempt[c] - 1

RetryInv ==
  /\ RetryTypes /\ RetriesCounted /\ RowCounts /\ SnapshotsAreOld /\ OneWrites /\ CommitsOnce
  /\ FirstTwo /\ Waves

LEMMA RetryInitInv ==
  ASSUME Retry!CallersAssumption, Retry!BoundsAssumption, Retry!Init
  PROVE  RetryInv
<1> USE DEF Retry!Init, Retry!BoundsAssumption
<1>1. RetryTypes
  BY DEF RetryTypes
<1>2. SumFunctionOnSet(commits, Callers) = 0 /\ SumFunctionOnSet(Begun, Callers) = 0
  <2>1. \A c \in Callers : commits[c] \in 0 .. 0
    OBVIOUS
  <2>2. \A c \in Callers : Begun[c] \in 0 .. 0
    BY DEF Begun
  <2>3. SumFunctionOnSet(commits, Callers) \in 0 .. Cardinality(Callers) * 0
    <3> HIDE DEF Retry!Init, Retry!BoundsAssumption
    <3> QED BY <2>1, SumBound, CallersFinite
  <2>4. SumFunctionOnSet(Begun, Callers) \in 0 .. Cardinality(Callers) * 0
    <3> HIDE DEF Retry!Init, Retry!BoundsAssumption
    <3> QED BY <2>2, SumBound, CallersFinite
  <2>5. Cardinality(Callers) \in Nat
    BY FS_CardinalityType, CallersFinite
  <2>6. Cardinality(Callers) * 0 = 0
    BY <2>5
  <2> QED BY <2>3, <2>4, <2>6
<1>3. RowCounts
  BY <1>2 DEF RowCounts
<1> QED BY <1>1, <1>3
        DEF RetryInv, RetriesCounted, SnapshotsAreOld, OneWrites, CommitsOnce, FirstTwo, Waves

\* Only c moves.
LEMMA BegunStep ==
  ASSUME Retry!CallersAssumption, RetryTypes, RetryTypes', NEW c \in Callers,
         \A d \in Callers \ {c} : step'[d] = step[d] /\ attempt'[d] = attempt[d]
  PROVE  /\ Begun[c] \in Int /\ (Begun[c])' \in Int
         /\ SumFunctionOnSet(Begun, Callers) \in Int
         /\ SumFunctionOnSet(Begun, Callers)'
              = SumFunctionOnSet(Begun, Callers) + ((Begun[c])' - Begun[c])
<1> DEFINE f == Begun
           g == Begun'
<1>1. \A d \in Callers : f[d] \in Int /\ g[d] \in Int
  <2>1. \A d \in Callers : attempt[d] \in Int /\ attempt'[d] \in Int
    BY DEF RetryTypes
  <2> QED BY <2>1 DEF Begun
<1>2. \A d \in Callers \ {c} : g[d] = f[d]
  BY DEF Begun
<1> HIDE DEF f, g
<1>3. SumFunctionOnSet(f, Callers) \in Int
  BY <1>1, SumType, CallersFinite
<1>4. SumFunctionOnSet(g, Callers) = SumFunctionOnSet(f, Callers) + (g[c] - f[c])
  BY <1>1, <1>2, SumOther, CallersFinite
<1> QED BY <1>1, <1>3, <1>4 DEF f, g

\* The row does not change, and c moves on or retries.
LEMMA RowStays ==
  ASSUME Retry!CallersAssumption, RetryInv, RetryTypes', NEW c \in Callers,
         UNCHANGED <<balance, version, commits>>,
         \A d \in Callers \ {c} : step'[d] = step[d] /\ attempt'[d] = attempt[d],
         (Begun[c])' - Begun[c] >= arrived' - arrived
  PROVE  RowCounts'
<1>1. RetryTypes /\ RowCounts
  BY DEF RetryInv
<1>2. arrived \in Nat /\ arrived' \in Nat
  BY <1>1 DEF RetryTypes
<1> QED BY <1>1, <1>2, BegunStep DEF RowCounts

LEMMA FaultsType ==
  ASSUME Retry!BoundsAssumption, RetryInv, faults' = faults \/ Retry!Fault
  PROVE  faults' \in 0 .. MaxFaults
<1>1. faults \in 0 .. MaxFaults /\ MaxFaults \in Nat
  BY DEF Retry!BoundsAssumption, RetryInv, RetryTypes
<1> QED BY <1>1 DEF Retry!Fault

LEMMA ReadInv ==
  ASSUME Retry!CallersAssumption, Retry!BoundsAssumption, RetryInv, NEW c \in Callers, Retry!Read(c)
  PROVE  RetryInv'
<1> USE DEF RetryInv
<1>1. /\ step[c] = "begin" /\ step' = [step EXCEPT ![c] = "read"]
      /\ snap' = [snap EXCEPT ![c] = [balance |-> balance, version |-> version]]
      /\ arrived' = arrived + 1 /\ wave' = [wave EXCEPT ![c] = arrived + 1]
      /\ UNCHANGED <<balance, version, attempt, retries, commits, faults>>
  BY DEF Retry!Read, Retry!Goto, Retry!table
<1>2. RetryTypes'
  BY <1>1 DEF RetryTypes
<1>3. /\ step'[c] = "read" /\ snap'[c].balance = balance /\ snap'[c].version = version
      /\ wave'[c] = arrived + 1
      /\ \A d \in Callers \ {c} : step'[d] = step[d] /\ snap'[d] = snap[d] /\ wave'[d] = wave[d]
  BY <1>1 DEF RetryTypes
<1>4. RowCounts'
  <2>1. attempt[c] \in Int /\ arrived \in Int
    BY DEF RetryTypes
  <2>2. Begun[c] = attempt[c] - 1 /\ (Begun[c])' = attempt[c]
    BY <1>1, <1>3 DEF Begun
  <2>3. (Begun[c])' - Begun[c] >= arrived' - arrived
    BY <1>1, <2>1, <2>2
  <2> QED BY <1>1, <1>2, <1>3, <2>3, RowStays
<1>5. SnapshotsAreOld'
  BY <1>1, <1>2, <1>3 DEF SnapshotsAreOld, RowCounts, RetryTypes
<1>6. OneWrites' /\ CommitsOnce'
  BY <1>1, <1>3 DEF OneWrites, CommitsOnce
<1>7. FirstTwo'
  <2>1. arrived \in Nat /\ \A d \in Callers : wave[d] \in Nat
    BY DEF RetryTypes
  <2> QED BY <1>1, <1>3, <2>1 DEF FirstTwo
<1>8. Waves'
  <2>1. \A d \in Callers : step'[d] = "begin" /\ retries'[d] = 0 => wave'[d] = 0
    BY <1>1, <1>3 DEF Waves
  <2>2. ASSUME \A d \in Callers : retries[d] = 0, NEW k \in 1 .. arrived + 1
        PROVE  \E d \in Callers : wave'[d] = k
    <3>1. CASE k = arrived + 1
      BY <1>3, <3>1
    <3>2. CASE k # arrived + 1
      <4>1. k \in 1 .. arrived
        BY <3>2 DEF RetryTypes
      <4>2. PICK d \in Callers : wave[d] = k
        BY <2>2, <4>1 DEF Waves
      <4>3. wave[c] = 0
        BY <1>1, <2>2 DEF Waves
      <4> QED BY <1>3, <4>1, <4>2, <4>3
    <3> QED BY <3>1, <3>2
  <2> QED BY <1>1, <2>1, <2>2 DEF Waves
<1>9. RetriesCounted'
  BY <1>1 DEF RetriesCounted
<1> QED BY <1>2, <1>4, <1>5, <1>6, <1>7, <1>8, <1>9

LEMMA RetryWriteInv ==
  ASSUME Retry!CallersAssumption, Retry!BoundsAssumption, RetryInv, NEW c \in Callers, Retry!Write(c)
  PROVE  RetryInv'
<1> USE DEF RetryInv
<1>1. /\ step[c] = "read" /\ step' = [step EXCEPT ![c] = "written"]
      /\ Retry!Passes(c) /\ Retry!RowFree /\ snap[c].version = version
      /\ UNCHANGED <<balance, version, snap, attempt, retries, arrived, wave, commits, faults>>
  BY DEF Retry!Write, Retry!Goto, Retry!table, Retry!UnchangedSinceSnapshot
<1>2. RetryTypes'
  BY <1>1 DEF RetryTypes
<1>3. step'[c] = "written" /\ \A d \in Callers \ {c} : step'[d] = step[d]
  BY <1>1 DEF RetryTypes
<1>4. RowCounts'
  <2>1. attempt[c] \in Int /\ arrived \in Int
    BY DEF RetryTypes
  <2>2. Begun[c] = attempt[c] /\ (Begun[c])' = attempt[c]
    BY <1>1, <1>3 DEF Begun
  <2>3. (Begun[c])' - Begun[c] >= arrived' - arrived
    BY <1>1, <2>1, <2>2
  <2> QED BY <1>1, <1>2, <1>3, <2>3, RowStays
<1>5. SnapshotsAreOld' /\ OneWrites'
  BY <1>1, <1>3 DEF SnapshotsAreOld, OneWrites, Retry!RowFree
<1>6. CommitsOnce'
  BY <1>1, <1>3 DEF CommitsOnce
<1>7. FirstTwo'
  <2>1. arrived >= 2
    <3>1. wave[c] \in Nat /\ arrived \in Nat /\ wave[c] >= 1 /\ wave[c] <= arrived
      BY <1>1 DEF FirstTwo, RetryTypes
    <3> QED BY <1>1, <3>1 DEF Retry!Passes
  <2>2. arrived \in Nat
    BY DEF RetryTypes
  <2> QED BY <1>1, <1>3, <2>1, <2>2 DEF FirstTwo
<1>8. Waves'
  BY <1>1, <1>3 DEF Waves
<1>9. RetriesCounted'
  BY <1>1 DEF RetriesCounted
<1> QED BY <1>2, <1>4, <1>5, <1>6, <1>7, <1>8, <1>9

\* COMMIT, answered or not.
LEMMA CommitRowInv ==
  ASSUME Retry!CallersAssumption, Retry!BoundsAssumption, RetryInv, NEW c \in Callers,
         Retry!Returns(c) \/ Retry!CommitAnswerLost(c)
  PROVE  RetryInv'
<1> USE DEF RetryInv
<1>1. PICK to \in {"returned", "threw"} : step' = [step EXCEPT ![c] = to]
  BY DEF Retry!Returns, Retry!CommitAnswerLost, Retry!Throw, Retry!Goto
<1>2. /\ step[c] = "written" /\ balance' = snap[c].balance + 1 /\ version' = version + 1
      /\ commits' = [commits EXCEPT ![c] = commits[c] + 1]
      /\ UNCHANGED <<snap, attempt, retries, arrived, wave>>
      /\ faults' = faults \/ Retry!Fault
  BY DEF Retry!Returns, Retry!CommitAnswerLost, Retry!CommitRow, Retry!Throw
<1>0. faults' \in 0 .. MaxFaults
  BY <1>2, FaultsType
<1>3. /\ snap[c].balance = version /\ snap[c].version = version /\ commits[c] = 0
      /\ version \in Nat
  BY <1>2 DEF SnapshotsAreOld, CommitsOnce, RetryTypes
<1>4. RetryTypes'
  BY <1>0, <1>1, <1>2, <1>3 DEF RetryTypes
<1>5. /\ step'[c] = to /\ commits'[c] = 1
      /\ \A d \in Callers \ {c} : step'[d] = step[d] /\ commits'[d] = commits[d]
  BY <1>1, <1>2, <1>3 DEF RetryTypes
<1>6. RowCounts'
  <2>1. Begun[c] = attempt[c] /\ (Begun[c])' = attempt[c] /\ attempt[c] \in Int
    BY <1>2, <1>5 DEF Begun, RetryTypes
  <2>2. SumFunctionOnSet(Begun, Callers)' = SumFunctionOnSet(Begun, Callers)
    BY <1>2, <1>4, <1>5, <2>1, BegunStep
  <2>3. \A d \in Callers : commits[d] \in Int /\ commits'[d] \in Int
    BY <1>4 DEF RetryTypes
  <2>4. SumFunctionOnSet(commits', Callers) = SumFunctionOnSet(commits, Callers) + (1 - 0)
    BY <1>3, <1>5, <2>3, SumOther, CallersFinite
  <2>5. SumFunctionOnSet(commits, Callers) = version /\ arrived <= SumFunctionOnSet(Begun, Callers)
    BY DEF RowCounts
  <2>6. version' = SumFunctionOnSet(commits', Callers)
    BY <1>2, <1>3, <2>4, <2>5
  <2> QED BY <1>2, <1>3, <2>2, <2>5, <2>6 DEF RowCounts
<1>7. \A d \in Callers : snap[d].version \in Nat /\ snap[d].version <= version
  BY DEF SnapshotsAreOld, RetryTypes
<1>8. \A d \in Callers \ {c} : step[d] # "written"
  BY <1>2 DEF OneWrites
<1>9. SnapshotsAreOld' /\ OneWrites'
  BY <1>2, <1>3, <1>5, <1>7, <1>8 DEF SnapshotsAreOld, OneWrites
<1>10. CommitsOnce'
  <2>1. \A d \in Callers : commits'[d] = 1 => snap[d].version < version'
    BY <1>2, <1>3, <1>7
  <2>2. \A d \in Callers : /\ step'[d] \in {"begin", "read", "written"} => commits'[d] = 0
                           /\ step'[d] = "returned" => commits'[d] = 1
    BY <1>5 DEF CommitsOnce
  <2>3. \A d \in Callers \ {c} : commits'[d] = 1 => snap[d].version < version
    BY <1>5 DEF CommitsOnce
  <2>4. ASSUME NEW d \in Callers, NEW e \in Callers, commits'[d] = 1, commits'[e] = 1,
               snap[d].version = snap[e].version
        PROVE  d = e
    <3>1. CASE d = c \/ e = c
      BY <1>3, <1>7, <2>3, <2>4, <3>1
    <3>2. CASE d # c /\ e # c
      BY <1>5, <2>4, <3>2 DEF CommitsOnce
    <3> QED BY <3>1, <3>2
  <2> QED BY <1>2, <2>1, <2>2, <2>4 DEF CommitsOnce
<1>11. FirstTwo' /\ Waves' /\ RetriesCounted'
  BY <1>2, <1>5 DEF FirstTwo, Waves, RetriesCounted
<1> QED BY <1>4, <1>6, <1>9, <1>10, <1>11

\* 40001, or any other failure before the COMMIT.
LEMMA FailureInv ==
  ASSUME Retry!CallersAssumption, Retry!BoundsAssumption, RetryInv, NEW c \in Callers,
         Retry!SerializationFailure(c) \/ Retry!ConnectionLost(c)
  PROVE  RetryInv'
<1> USE DEF RetryInv
<1>0. /\ attempt[c] \in 1 .. MaxAttempts /\ retries[c] \in 0 .. MaxAttempts - 1
      /\ MaxAttempts \in Nat
  BY DEF RetryTypes, Retry!BoundsAssumption
<1>1. /\ step[c] \in {"begin", "read", "written"}
      /\ UNCHANGED <<balance, version, snap, arrived, wave, commits>>
  BY DEF Retry!SerializationFailure, Retry!ConnectionLost, Retry!table
<1>4. faults' \in 0 .. MaxFaults
  BY FaultsType DEF Retry!SerializationFailure, Retry!ConnectionLost
<1>2. CASE step' = [step EXCEPT ![c] = "threw"] /\ UNCHANGED <<attempt, retries>>
  <2>1. RetryTypes'
    BY <1>1, <1>2, <1>4 DEF RetryTypes
  <2>2. step'[c] = "threw" /\ \A d \in Callers \ {c} : step'[d] = step[d]
    BY <1>2 DEF RetryTypes
  <2>3. RowCounts'
    <3>1. Begun[c] \in {attempt[c], attempt[c] - 1} /\ (Begun[c])' = attempt[c]
      BY <1>2, <2>2 DEF Begun
    <3>2. (Begun[c])' - Begun[c] >= arrived' - arrived
      BY <1>0, <1>1, <3>1 DEF RetryTypes
    <3> QED BY <1>1, <1>2, <2>1, <2>2, <3>2, RowStays
  <2>4. SnapshotsAreOld' /\ OneWrites' /\ CommitsOnce'
    BY <1>1, <2>2 DEF SnapshotsAreOld, OneWrites, CommitsOnce
  <2>5. FirstTwo' /\ Waves' /\ RetriesCounted'
    BY <1>1, <1>2, <2>2 DEF FirstTwo, Waves, RetriesCounted
  <2> QED BY <2>1, <2>3, <2>4, <2>5
<1>3. CASE /\ step[c] = "read" /\ attempt[c] # MaxAttempts
           /\ step' = [step EXCEPT ![c] = "begin"]
           /\ attempt' = [attempt EXCEPT ![c] = attempt[c] + 1]
           /\ retries' = [retries EXCEPT ![c] = retries[c] + 1]
  <2>0. retries[c] + 1 \in 0 .. MaxAttempts - 1 /\ attempt[c] + 1 \in 1 .. MaxAttempts
    BY <1>0, <1>3 DEF RetriesCounted
  <2>1. RetryTypes'
    BY <1>1, <1>3, <1>4, <2>0 DEF RetryTypes
  <2>2. /\ step'[c] = "begin" /\ attempt'[c] = attempt[c] + 1 /\ retries'[c] = retries[c] + 1
        /\ \A d \in Callers \ {c} : /\ step'[d] = step[d] /\ attempt'[d] = attempt[d]
                                    /\ retries'[d] = retries[d]
    BY <1>3 DEF RetryTypes
  <2>3. RowCounts'
    <3>1. Begun[c] = attempt[c] /\ (Begun[c])' = attempt'[c] - 1
      BY <1>3, <2>2 DEF Begun
    <3>2. (Begun[c])' - Begun[c] >= arrived' - arrived
      BY <1>0, <1>1, <2>2, <3>1 DEF RetryTypes
    <3> QED BY <1>1, <2>1, <2>2, <3>2, RowStays
  <2>4. SnapshotsAreOld' /\ OneWrites' /\ CommitsOnce'
    BY <1>1, <1>3, <2>2 DEF SnapshotsAreOld, OneWrites, CommitsOnce
  <2>5. retries'[c] # 0
    BY <1>0, <2>2
  <2>6. FirstTwo' /\ Waves'
    BY <1>1, <2>2, <2>5 DEF FirstTwo, Waves
  <2>7. RetriesCounted'
    BY <1>0, <2>2 DEF RetriesCounted
  <2> QED BY <2>1, <2>3, <2>4, <2>6, <2>7
<1> QED BY <1>1, <1>2, <1>3
        DEF Retry!SerializationFailure, Retry!ConnectionLost, Retry!Throw, Retry!Retry, Retry!Goto

LEMMA RetryNextInv ==
  ASSUME Retry!CallersAssumption, Retry!BoundsAssumption, RetryInv, [Retry!Next]_Retry!retryVars
  PROVE  RetryInv'
<1>1. CASE Retry!Next
  BY <1>1, ReadInv, RetryWriteInv, CommitRowInv, FailureInv DEF Retry!Next, Retry!CallerStep
<1>2. CASE UNCHANGED Retry!retryVars
  <2> USE <1>2 DEF RetryInv, Retry!retryVars, Retry!table
  <2>1. RetryTypes'
    BY DEF RetryTypes
  <2>2. Begun' = Begun
    BY DEF Begun
  <2>3. RetriesCounted' /\ RowCounts'
    BY <2>2 DEF RetriesCounted, RowCounts
  <2>4. SnapshotsAreOld' /\ OneWrites' /\ CommitsOnce' /\ FirstTwo' /\ Waves'
    BY DEF SnapshotsAreOld, OneWrites, CommitsOnce, FirstTwo, Waves
  <2> QED BY <2>1, <2>3, <2>4
<1> QED BY <1>1, <1>2

LEMMA RetryTypeOK ==
  ASSUME Retry!CallersAssumption, Retry!BoundsAssumption, RetryInv
  PROVE  Retry!TypeOK
<1>1. MaxAttempts \in Nat \ {0} /\ IsFiniteSet(Callers)
  BY CallersFinite DEF Retry!BoundsAssumption
<1>2. \A c \in Callers : commits[c] \in 0 .. MaxAttempts /\ Begun[c] \in 0 .. MaxAttempts
  <2> SUFFICES ASSUME NEW c \in Callers
               PROVE  commits[c] \in 0 .. MaxAttempts /\ Begun[c] \in 0 .. MaxAttempts
    OBVIOUS
  <2>1. commits[c] \in 0 .. 1 /\ attempt[c] \in 1 .. MaxAttempts
    BY DEF RetryInv, RetryTypes
  <2>2. Begun[c] = attempt[c] \/ Begun[c] = attempt[c] - 1
    BY DEF Begun
  <2> QED BY <1>1, <2>1, <2>2
<1>3. /\ SumFunctionOnSet(commits, Callers) \in 0 .. Retry!Reads
      /\ SumFunctionOnSet(Begun, Callers) \in 0 .. Retry!Reads
  BY <1>1, <1>2, SumBound, RetrysOperators DEF Retry!Reads
<1>4. Retry!Reads \in Int
  <2>1. Cardinality(Callers) \in Nat
    BY <1>1, FS_CardinalityType
  <2> QED BY <1>1, <2>1, RetrysOperators DEF Retry!Reads
<1>5. version \in Nat /\ balance = version /\ arrived \in Nat
  BY DEF RetryInv, RetryTypes, RowCounts
<1>6. version \in 0 .. Retry!Reads /\ arrived \in 0 .. Retry!Reads
  BY <1>3, <1>4, <1>5 DEF RetryInv, RowCounts
<1>7. \A c \in Callers : /\ snap[c].version \in Nat /\ snap[c].balance = snap[c].version
                         /\ snap[c].version <= version
                         /\ wave[c] \in Nat /\ wave[c] <= arrived
  BY DEF RetryInv, RetryTypes, SnapshotsAreOld, FirstTwo
<1>8. \A c \in Callers : /\ snap[c].version \in 0 .. Retry!Reads /\ snap[c].balance \in 0 .. Retry!Reads
                         /\ wave[c] \in 0 .. Retry!Reads
  BY <1>4, <1>6, <1>7
<1>9. /\ snap \in [Callers -> [balance : 0 .. Retry!Reads, version : 0 .. Retry!Reads]]
      /\ wave \in [Callers -> 0 .. Retry!Reads]
  BY <1>8 DEF RetryInv, RetryTypes
<1>10. commits \in [Callers -> Nat]
  BY DEF RetryInv, RetryTypes
<1> QED BY <1>5, <1>6, <1>9, <1>10 DEF RetryInv, RetryTypes, Retry!TypeOK

\* When all have returned, two of them have read the row as it was, and only
\* one of the two can have written it without a retry.
LEMMA RetryNoLostUpdate ==
  ASSUME Retry!CallersAssumption, Retry!BoundsAssumption, RetryInv
  PROVE  Retry!NoLostUpdate
<1>1. balance = SumFunction(commits)
  <2>1. DOMAIN commits = Callers
    BY DEF RetryInv, RetryTypes
  <2> QED BY <2>1 DEF SumFunction, RetryInv, RowCounts
<1>2. \A c \in Callers : commits[c] <= 1 /\ (step[c] = "returned" => commits[c] = 1)
  BY DEF RetryInv, RetryTypes, CommitsOnce
<1>3. ASSUME \A c \in Callers : step[c] = "returned"
      PROVE  SumFunction(retries) >= 1
  <2>0. \A c \in Callers : retries[c] \in Nat
    BY DEF RetryInv, RetryTypes
  <2>1. PICK c \in Callers : retries[c] # 0
    <3> SUFFICES ASSUME \A c \in Callers : retries[c] = 0 PROVE FALSE
      OBVIOUS
    <3>1. arrived \in Nat /\ ~ (arrived <= 1)
      BY <1>3, CallersFinite DEF RetryInv, RetryTypes, FirstTwo
    <3>2. 1 \in 1 .. arrived /\ 2 \in 1 .. arrived
      BY <3>1
    <3>3. PICK c \in Callers : wave[c] = 1
      BY <3>2 DEF RetryInv, Waves
    <3>4. PICK d \in Callers : wave[d] = 2
      BY <3>2 DEF RetryInv, Waves
    <3>5. c # d
      BY <3>3, <3>4
    <3>6. snap[c].version = 0 /\ snap[d].version = 0
      BY <3>3, <3>4 DEF RetryInv, FirstTwo
    <3>7. commits[c] = 1 /\ commits[d] = 1
      BY <1>2, <1>3
    <3> QED BY <3>5, <3>6, <3>7 DEF RetryInv, CommitsOnce
  <2>2. DOMAIN retries = Callers
    BY DEF RetryInv, RetryTypes
  <2>3. /\ SumFunctionOnSet(retries, {c}) <= SumFunctionOnSet(retries, Callers)
        /\ SumFunctionOnSet(retries, Callers) \in Nat
    BY <2>0, SumMonotonic, CallersFinite
  <2>4. SumFunctionOnSet(retries, {c}) = retries[c]
    <3>1. IsFiniteSet({}) /\ {} \cup {c} = {c}
      BY FS_EmptySet
    <3>2. SumFunctionOnSet(retries, {} \cup {c}) = retries[c] + SumFunctionOnSet(retries, {})
      BY <2>0, <3>1, SumAdd
    <3> QED BY <2>0, <3>1, <3>2, SumEmpty
  <2> QED BY <2>0, <2>1, <2>2, <2>3, <2>4, RetrysOperators DEF SumFunction
<1> QED BY <1>1, <1>2, <1>3, RetrysOperators DEF Retry!NoLostUpdate

-----------------------------------------------------------------------------
(* PasswordRotation: the secrets and who is let in.                        *)

\* The role has the password of the file but between steps 1 and 2 of a rotation
\* and after a script was cut off there; and with no script at work PgBouncer
\* has read that file, which may be empty, or is about to.
SecretsAgree ==
  /\ script \in {"idle", "written", "terminated", "pushed"} => role = file
  /\ script = "idle" /\ bouncer = "up" => userlist = {file} \ {Rotation!Nothing}

RotationInv == Rotation!TypeOK /\ SecretsAgree

LEMMA RotationInitInv ==
  ASSUME Rotation!BoundsAssumption, Rotation!Init
  PROVE  RotationInv
<1>1. 1 \in Rotation!Passwords /\ 0 \in 0 .. MaxCuts
  BY DEF Rotation!BoundsAssumption, Rotation!Passwords
<1>2. userlist \in {{w} : w \in Rotation!Passwords} /\ outcome \in [pool : Rotation!Pools, ok : BOOLEAN]
  BY <1>1 DEF Rotation!Init, Rotation!Pools
<1>3. userlist = {file} \ {Rotation!Nothing}
  BY DEF Rotation!Init, Rotation!Nothing
<1> QED BY <1>1, <1>2, <1>3 DEF Rotation!Init, RotationInv, Rotation!TypeOK, SecretsAgree

LEMMA RotationNextInv ==
  ASSUME Rotation!BoundsAssumption, RotationInv, [Rotation!Next]_Rotation!vars
  PROVE  RotationInv'
<1> USE DEF RotationInv
<1>1. CASE Rotation!Alter
  <2>1. made + 1 \in Rotation!Passwords
    BY <1>1 DEF Rotation!BoundsAssumption, Rotation!Passwords, Rotation!Alter, Rotation!TypeOK
  <2> QED BY <1>1, <2>1 DEF Rotation!Alter, Rotation!TypeOK, SecretsAgree, Rotation!pooler
<1>2. CASE \/ Rotation!Truncate \/ Rotation!Write \/ Rotation!Terminate \/ Rotation!Push
           \/ Rotation!RestartBouncer
  BY <1>2 DEF Rotation!Truncate, Rotation!Write, Rotation!Terminate, Rotation!Push, Rotation!RestartBouncer,
      Rotation!TypeOK, SecretsAgree, Rotation!pooler, Rotation!secrets
<1>3. CASE Rotation!Cut
  <2>1. cuts + 1 \in 0 .. MaxCuts
    BY <1>3 DEF Rotation!BoundsAssumption, Rotation!Cut, Rotation!TypeOK
  <2> QED BY <1>3, <2>1 DEF Rotation!Cut, Rotation!TypeOK, SecretsAgree, Rotation!pooler,
      Rotation!secrets
<1>4. CASE Rotation!ServerExpires \/ Rotation!RestartApi
  BY <1>4 DEF Rotation!ServerExpires, Rotation!RestartApi,
      Rotation!TypeOK, SecretsAgree, Rotation!pooler, Rotation!secrets
<1>8. CASE Rotation!BouncerListens
  <2>1. userlist' = {file} \ {Rotation!Nothing}
    BY <1>8 DEF Rotation!BouncerListens
  <2>2. userlist' \in {{}} \cup {{w} : w \in Rotation!Passwords}
    <3>1. CASE file = Rotation!Nothing
      BY <2>1, <3>1
    <3>2. CASE file # Rotation!Nothing
      BY <2>1, <3>2 DEF Rotation!TypeOK
    <3> QED BY <3>1, <3>2
  <2>3. UNCHANGED <<role, file, made, server, client, startup, script, cuts, outcome>>
    BY <1>8 DEF Rotation!BouncerListens, Rotation!secrets
  <2>4. bouncer' = "up"
    BY <1>8 DEF Rotation!BouncerListens
  <2> QED BY <2>1, <2>2, <2>3, <2>4 DEF Rotation!TypeOK, SecretsAgree
<1>5. ASSUME NEW p \in Rotation!Pools, Rotation!Query(p)
      PROVE  RotationInv'
  <2>1. Rotation!Answered(p) \in BOOLEAN
    BY DEF Rotation!Answered, Rotation!TypeOK
  <2>2. /\ client' \in [Rotation!Pools -> BOOLEAN] /\ server' \in BOOLEAN
        /\ outcome' \in [pool : Rotation!Pools, ok : BOOLEAN]
    BY <1>5, <2>1 DEF Rotation!Query, Rotation!TypeOK
  <2> QED BY <1>5, <2>2 DEF Rotation!Query, Rotation!TypeOK, SecretsAgree, Rotation!pooler,
      Rotation!secrets
<1>6. ASSUME NEW p \in Rotation!Pools, Rotation!ClientExpires(p)
      PROVE  RotationInv'
  BY <1>6 DEF Rotation!ClientExpires, Rotation!TypeOK, SecretsAgree, Rotation!pooler,
      Rotation!secrets
<1>7. CASE UNCHANGED Rotation!vars
  BY <1>7 DEF Rotation!vars, Rotation!secrets, Rotation!pooler, Rotation!TypeOK, SecretsAgree
<1> QED BY <1>1, <1>2, <1>3, <1>4, <1>5, <1>6, <1>7, <1>8 DEF Rotation!Next

\* A pool that presents the password of the file is let in, and PgBouncer is
\* let in with the same.
LEMMA RotationAnswers ==
  ASSUME RotationInv, NEW p \in Rotation!Pools, Rotation!Fails(p)
  PROVE  \/ script # "idle" \/ bouncer # "up" \/ file = Rotation!Nothing
         \/ p = "typeorm" /\ startup # file
<1>1. ~ Rotation!Answered(p)
  BY DEF Rotation!Fails, Rotation!Query
<1> QED BY <1>1 DEF RotationInv, SecretsAgree, Rotation!Answered, Rotation!Secret, Rotation!Pools

-----------------------------------------------------------------------------
(* BackupDrill: the dumps, their sidecars and the drill.                   *)

\* What may be beside a dump: nothing, a blank sidecar, or a sum.
Sidecars == Backup!Optional(Backup!Writes) \cup {Backup!Blank}

Dumps == [stamp : Nat \ {0}, content : Backup!Optional(Backup!Writes),
          checksum : Sidecars]

BackupTypes ==
  /\ live \in Backup!Writes /\ dumps \in Seq(Dumps)
  /\ run \in [step : {"none", "summed", "dumping", "dumped", "sealing", "sealed"},
              control : Backup!Optional(Backup!Writes), snapshot : Backup!Optional(Backup!Writes)]
  /\ runs \in 0 .. MaxRuns /\ succeeded \in BOOLEAN
  /\ drill \in [step : {"none", "restoring", "match", "mismatch", "exited"},
                stamp : 0 .. MaxRuns, before : Sidecars]
  /\ late \subseteq 1 .. MaxRuns

\* A dump has the number of its run, and no other dump has it.
Stamps ==
  /\ \A i \in 1 .. Len(dumps) : dumps[i].stamp <= runs
  /\ \A i, j \in 1 .. Len(dumps) : dumps[i].stamp = dumps[j].stamp => i = j
  /\ Len(dumps) <= runs /\ drill.stamp <= runs
  /\ run.step = "summed" =>
       /\ Len(dumps) < runs /\ drill.stamp < runs
       /\ \A i \in 1 .. Len(dumps) : dumps[i].stamp < runs

\* The sum and the snapshot of a run are of the same orders, unless one was
\* written between them.
Sums ==
  /\ run.step = "summed" => run.control # {} /\ (run.control = {live} \/ runs \in late)
  /\ run.step \in {"dumping", "dumped", "sealing", "sealed"} =>
       /\ run.control # {} /\ run.snapshot # {}
       /\ run.control = run.snapshot \/ runs \in late

\* What the running script is writing is the newest dump.
Newest ==
  LET n == Len(dumps) IN
  run.step \in {"dumping", "dumped", "sealing", "sealed"} =>
    /\ n > 0 /\ dumps[n].stamp = runs
    /\ run.step # "dumping" => dumps[n].content = run.snapshot
    /\ run.step \in {"dumping", "dumped"} => dumps[n].checksum = {}
    /\ run.step = "sealing" => dumps[n].checksum = Backup!Blank
    /\ run.step = "sealed" => dumps[n].checksum = run.control

\* A dump with a sidecar is complete, and they agree unless its run was late or
\* has not written it.
Sealed ==
  \A i \in 1 .. Len(dumps) : dumps[i].checksum # {} =>
    /\ dumps[i].content # {}
    /\ \/ dumps[i].checksum = Backup!Blank
       \/ dumps[i].content = dumps[i].checksum
       \/ dumps[i].stamp \in late

Restorable == succeeded => \E i \in 1 .. Len(dumps) : dumps[i].checksum \notin {{}, Backup!Blank}

\* The drill compares with the sidecar of the dump it took.
Taken ==
  /\ drill.step = "restoring" =>
       /\ drill.before # {}
       /\ \/ drill.before = Backup!Blank
          \/ \A i \in 1 .. Len(dumps) : dumps[i].stamp = drill.stamp => dumps[i].checksum = drill.before
  /\ drill.step = "mismatch" => drill.stamp \in late \/ drill.before = Backup!Blank

BackupInv == BackupTypes /\ Stamps /\ Sums /\ Newest /\ Sealed /\ Restorable /\ Taken

\* A sidecar that is blank is not one that is missing, and holds no sum.
LEMMA SidecarKinds ==
  /\ Backup!Blank \in Sidecars /\ {} \in Sidecars /\ Backup!Blank # {}
  /\ \A c \in Backup!Optional(Backup!Writes) : c \in Sidecars /\ c # Backup!Blank
<1>1. \A x \in Backup!Writes : {x} # Backup!Blank
  BY DEF Backup!Writes, Backup!Blank
<1>2. Backup!Blank # {}
  BY DEF Backup!Blank
<1> QED BY <1>1, <1>2 DEF Sidecars, Backup!Optional

LEMMA BackupInitInv ==
  ASSUME Backup!BoundsAssumption, Backup!Init
  PROVE  BackupInv
<1>1. 0 \in 0 .. MaxRuns /\ 0 \in Backup!Writes
  BY DEF Backup!BoundsAssumption, Backup!Writes
<1>2. <<>> \in Seq(Dumps) /\ Len(<<>>) = 0
  OBVIOUS
<1>3. {} \in Backup!Optional(Backup!Writes)
  BY DEF Backup!Optional
<1>4. BackupTypes
  BY <1>1, <1>2, <1>3, SidecarKinds DEF Backup!Init, BackupTypes, Backup!NoRun, Backup!NoDrill
<1> QED BY <1>1, <1>2, <1>4
        DEF Backup!Init, BackupInv, Stamps, Sums, Newest, Sealed, Restorable, Taken, Backup!NoRun, Backup!NoDrill

LEMMA DumpChanges ==
  ASSUME NEW a, NEW b, NEW c, NEW x, NEW r, r = [stamp |-> a, content |-> b, checksum |-> c]
  PROVE  /\ [r EXCEPT !.content = x] = [stamp |-> a, content |-> x, checksum |-> c]
         /\ [r EXCEPT !.checksum = x] = [stamp |-> a, content |-> b, checksum |-> x]
OBVIOUS

LEMMA DumpTyped ==
  ASSUME NEW A, NEW B, NEW C, NEW a \in A, NEW b \in B, NEW c \in C, NEW r,
         r = [stamp |-> a, content |-> b, checksum |-> c]
  PROVE  r \in [stamp : A, content : B, checksum : C]
OBVIOUS

\* The newest dump is written on.
LEMMA LastChanges ==
  ASSUME dumps \in Seq(Dumps), Len(dumps) > 0, NEW d \in Dumps,
         dumps' = [dumps EXCEPT ![Len(dumps)] = d]
  PROVE  /\ dumps' \in Seq(Dumps) /\ Len(dumps') = Len(dumps)
         /\ dumps'[Len(dumps)] = d
         /\ \A i \in 1 .. Len(dumps) : i # Len(dumps) => dumps'[i] = dumps[i]
OBVIOUS

LEMMA DumpFields ==
  ASSUME dumps \in Seq(Dumps), NEW i \in 1 .. Len(dumps)
  PROVE  /\ dumps[i].stamp \in Nat \ {0}
         /\ dumps[i].content \in Backup!Optional(Backup!Writes)
         /\ dumps[i].checksum \in Sidecars
         /\ dumps[i] = [stamp |-> dumps[i].stamp, content |-> dumps[i].content,
                        checksum |-> dumps[i].checksum]
<1>1. dumps[i] \in Dumps
  OBVIOUS
<1> QED BY <1>1 DEF Dumps

\* A write to orders, while no dump changes.
LEMMA BackupWriteInv ==
  ASSUME Backup!BoundsAssumption, BackupInv, Backup!Write
  PROVE  BackupInv'
<1> USE DEF BackupInv
<1>1. /\ live' = live + 1 /\ UNCHANGED <<dumps, run, runs, succeeded, drill>>
      /\ late \subseteq late' /\ late' \subseteq late \cup {runs}
      /\ run.step = "summed" => runs \in late'
      /\ run.step # "summed" => late' = late
  BY DEF Backup!Write
<1>2. live' \in Backup!Writes
  BY DEF Backup!Write, BackupTypes, Backup!Writes, Backup!BoundsAssumption
<1>3. run.step = "summed" => runs \in 1 .. MaxRuns
  BY DEF BackupTypes, Stamps, Backup!BoundsAssumption
<1>4. BackupTypes'
  BY <1>1, <1>2, <1>3 DEF BackupTypes
<1>5. Stamps' /\ Sums' /\ Newest' /\ Restorable'
  BY <1>1 DEF Stamps, Sums, Newest, Restorable
<1>6. Sealed' /\ Taken'
  BY <1>1 DEF Sealed, Taken
<1> QED BY <1>4, <1>5, <1>6

LEMMA SumInv ==
  ASSUME Backup!BoundsAssumption, BackupInv, Backup!Sum
  PROVE  BackupInv'
<1> USE DEF BackupInv
<1>1. /\ run.step = "none" /\ runs < MaxRuns /\ runs' = runs + 1
      /\ run' = [step |-> "summed", control |-> {live}, snapshot |-> run.snapshot]
      /\ UNCHANGED <<live, dumps, succeeded, drill, late>>
  BY DEF Backup!Sum, BackupTypes
<1>2. /\ runs \in Nat /\ MaxRuns \in Nat /\ Len(dumps) \in Nat /\ drill.stamp \in Nat
      /\ \A i \in 1 .. Len(dumps) : dumps[i].stamp \in Nat
  <2>1. dumps \in Seq(Dumps)
    BY DEF BackupTypes
  <2>2. \A i \in 1 .. Len(dumps) : dumps[i].stamp \in Nat
    BY <2>1, DumpFields
  <2> QED BY <2>1, <2>2 DEF BackupTypes, Backup!BoundsAssumption
<1>3. {live} \in Backup!Optional(Backup!Writes)
  BY DEF BackupTypes, Backup!Optional
<1>4. BackupTypes'
  BY <1>1, <1>2, <1>3 DEF BackupTypes
<1>5. Stamps'
  BY <1>1, <1>2 DEF Stamps
<1>6. Sums' /\ Newest' /\ Sealed' /\ Restorable' /\ Taken'
  <2>1. run'.step = "summed" /\ run'.control = {live} /\ {live} # {}
    BY <1>1
  <2> QED BY <1>1, <2>1 DEF Sums, Newest, Sealed, Restorable, Taken
<1> QED BY <1>4, <1>5, <1>6

LEMMA StartDumpInv ==
  ASSUME Backup!BoundsAssumption, BackupInv, Backup!StartDump
  PROVE  BackupInv'
<1> USE DEF BackupInv
<1> DEFINE d == [stamp |-> runs, content |-> {}, checksum |-> {}]
           n == Len(dumps)
<1>1. /\ run.step = "summed" /\ dumps' = Append(dumps, d)
      /\ run' = [step |-> "dumping", control |-> run.control, snapshot |-> {live}]
      /\ UNCHANGED <<live, runs, succeeded, drill, late>>
  BY DEF Backup!StartDump, BackupTypes
<1>2. n \in Nat /\ n < runs /\ runs \in Nat /\ drill.stamp < runs
  BY <1>1 DEF BackupTypes, Stamps
<1>3. {live} \in Backup!Optional(Backup!Writes) /\ {} \in Backup!Optional(Backup!Writes) /\ {live} # {}
  BY DEF BackupTypes, Backup!Optional
<1>4. d \in Dumps
  BY <1>2, <1>3, SidecarKinds DEF Dumps
<1>5. /\ dumps' \in Seq(Dumps) /\ Len(dumps') = n + 1 /\ dumps'[n + 1] = d
      /\ \A i \in 1 .. n : dumps'[i] = dumps[i]
  BY <1>1, <1>4 DEF BackupTypes
<1>6. d.stamp = runs /\ d.content = {} /\ d.checksum = {}
  OBVIOUS
<1>7. \A i \in 1 .. n + 1 : i = n + 1 \/ i \in 1 .. n
  BY <1>2
<1> HIDE DEF d, n
<1>8. BackupTypes'
  BY <1>1, <1>3, <1>5 DEF BackupTypes
<1>9. Stamps'
  <2>1. \A i \in 1 .. n : dumps[i].stamp < runs /\ dumps[i].stamp \in Nat
    <3>1. dumps \in Seq(Dumps)
      BY DEF BackupTypes
    <3>2. \A i \in 1 .. n : dumps[i].stamp \in Nat
      BY <3>1, DumpFields DEF n
    <3> QED BY <1>1, <3>2 DEF Stamps, n
  <2>2. \A i \in 1 .. n + 1 : dumps'[i].stamp <= runs'
    BY <1>1, <1>2, <1>5, <1>6, <1>7, <2>1
  <2>3. \A i, j \in 1 .. n + 1 : dumps'[i].stamp = dumps'[j].stamp => i = j
    <3>1. \A i, j \in 1 .. n : dumps[i].stamp = dumps[j].stamp => i = j
      BY DEF Stamps, n
    <3>2. \A i \in 1 .. n : dumps[i].stamp # runs
      BY <1>2, <2>1
    <3> QED BY <1>5, <1>6, <1>7, <3>1, <3>2
  <2>4. n + 1 <= runs /\ drill.stamp <= runs
    BY <1>2 DEF BackupTypes
  <2>5. run'.step = "dumping" /\ runs' = runs /\ drill' = drill
    BY <1>1
  <2> QED BY <1>5, <2>2, <2>3, <2>4, <2>5 DEF Stamps
<1>10. Sums'
  <2>1. run.control = {live} \/ runs \in late
    BY <1>1 DEF Sums
  <2>2. run'.step = "dumping" /\ run'.control = run.control /\ run'.snapshot = {live}
    BY <1>1
  <2>3. run.control # {}
    BY <1>1 DEF Sums
  <2> QED BY <1>1, <1>3, <2>1, <2>2, <2>3 DEF Sums
<1>11. Newest'
  <2>1. n + 1 > 0
    BY <1>2
  <2> QED BY <1>1, <1>5, <1>6, <2>1 DEF Newest
<1>12. Sealed'
  BY <1>1, <1>5, <1>6, <1>7 DEF Sealed, n
<1>13. Restorable'
  <2>1. \A i \in 1 .. n : i \in 1 .. n + 1
    BY <1>2
  <2> QED BY <1>1, <1>5, <2>1 DEF Restorable, n
<1>14. Taken'
  <2>1. drill.stamp # runs
    BY <1>2
  <2> QED BY <1>1, <1>5, <1>6, <1>7, <2>1 DEF Taken, n
<1> QED BY <1>8, <1>9, <1>10, <1>11, <1>12, <1>13, <1>14

LEMMA FinishDumpInv ==
  ASSUME Backup!BoundsAssumption, BackupInv, Backup!FinishDump
  PROVE  BackupInv'
<1> USE DEF BackupInv
<1> DEFINE n == Len(dumps)
           d == [stamp |-> dumps[n].stamp, content |-> run.snapshot, checksum |-> dumps[n].checksum]
<1>1. /\ run.step = "dumping"
      /\ run' = [step |-> "dumped", control |-> run.control, snapshot |-> run.snapshot]
      /\ dumps' = [dumps EXCEPT ![n].content = run.snapshot]
      /\ UNCHANGED <<live, runs, succeeded, drill, late>>
  BY DEF Backup!FinishDump, BackupTypes
<1>2. /\ n \in Nat /\ n > 0 /\ n \in 1 .. n /\ dumps[n].checksum = {} /\ dumps[n].stamp = runs
      /\ run.snapshot # {}
  BY <1>1 DEF Newest, BackupTypes, Sums
<1>3. d \in Dumps /\ dumps' = [dumps EXCEPT ![n] = d]
  <2>1. /\ dumps \in Seq(Dumps) /\ run.snapshot \in Backup!Optional(Backup!Writes)
        /\ run.control \in Backup!Optional(Backup!Writes)
    BY DEF BackupTypes
  <2>2. /\ dumps[n].stamp \in Nat \ {0}
        /\ dumps[n].content \in Backup!Optional(Backup!Writes)
        /\ dumps[n].checksum \in Sidecars
        /\ dumps[n] = [stamp |-> dumps[n].stamp, content |-> dumps[n].content,
                       checksum |-> dumps[n].checksum]
    BY <1>2, <2>1, DumpFields
  <2>3. d \in Dumps
    BY <2>1, <2>2 DEF Dumps
  <2>4. [dumps[n] EXCEPT !.content = run.snapshot] = d
    BY <2>2, DumpChanges
  <2>5. dumps' = [dumps EXCEPT ![n] = [dumps[n] EXCEPT !.content = run.snapshot]]
    BY <1>1
  <2> QED BY <2>3, <2>4, <2>5
<1>4. d.stamp = dumps[n].stamp /\ d.content = run.snapshot /\ d.checksum = dumps[n].checksum
  OBVIOUS
<1>5. /\ dumps' \in Seq(Dumps) /\ Len(dumps') = n /\ dumps'[n] = d
      /\ \A i \in 1 .. n : i # n => dumps'[i] = dumps[i]
  <2>1. dumps \in Seq(Dumps) /\ Len(dumps) = n
    BY DEF BackupTypes
  <2> HIDE DEF d
  <2> QED BY <1>2, <1>3, <2>1, LastChanges
<1> HIDE DEF d, n
<1>6. \A i \in 1 .. n : /\ dumps'[i].stamp = dumps[i].stamp
                        /\ dumps'[i].checksum = dumps[i].checksum
                        /\ i # n => dumps'[i].content = dumps[i].content
  BY <1>4, <1>5
<1>7. BackupTypes'
  BY <1>1, <1>5 DEF BackupTypes
<1>8. Stamps' /\ Sums'
  BY <1>1, <1>5, <1>6 DEF Stamps, Sums, n
<1>9. Newest'
  BY <1>1, <1>2, <1>4, <1>5 DEF Newest
<1>10. Sealed' /\ Restorable' /\ Taken'
  BY <1>1, <1>2, <1>5, <1>6 DEF Sealed, Restorable, Taken, n
<1> QED BY <1>7, <1>8, <1>9, <1>10

\* The sidecar is created, ...
LEMMA CreateSidecarInv ==
  ASSUME Backup!BoundsAssumption, BackupInv, Backup!CreateSidecar
  PROVE  BackupInv'
<1> USE DEF BackupInv
<1> DEFINE n == Len(dumps)
           d == [stamp |-> dumps[n].stamp, content |-> dumps[n].content, checksum |-> Backup!Blank]
<1>1. /\ run.step = "dumped"
      /\ run' = [step |-> "sealing", control |-> run.control, snapshot |-> run.snapshot]
      /\ dumps' = [dumps EXCEPT ![n].checksum = Backup!Blank]
      /\ UNCHANGED <<live, runs, succeeded, drill, late>>
  BY DEF Backup!CreateSidecar, BackupTypes
<1>2. /\ n \in Nat /\ n > 0 /\ n \in 1 .. n /\ dumps[n].checksum = {} /\ dumps[n].stamp = runs
      /\ dumps[n].content = run.snapshot /\ run.snapshot # {} /\ run.control # {}
      /\ run.control = run.snapshot \/ runs \in late
  BY <1>1 DEF Newest, BackupTypes, Sums
<1>3. d \in Dumps /\ dumps' = [dumps EXCEPT ![n] = d]
  <2>1. /\ dumps \in Seq(Dumps) /\ run.snapshot \in Backup!Optional(Backup!Writes)
        /\ run.control \in Backup!Optional(Backup!Writes)
    BY DEF BackupTypes
  <2>2. /\ dumps[n].stamp \in Nat \ {0}
        /\ dumps[n].content \in Backup!Optional(Backup!Writes)
        /\ dumps[n].checksum \in Sidecars
        /\ dumps[n] = [stamp |-> dumps[n].stamp, content |-> dumps[n].content,
                       checksum |-> dumps[n].checksum]
    BY <1>2, <2>1, DumpFields
  <2>3. d \in Dumps
    BY <2>1, <2>2, SidecarKinds DEF Dumps
  <2>4. [dumps[n] EXCEPT !.checksum = Backup!Blank] = d
    BY <2>2, DumpChanges
  <2>5. dumps' = [dumps EXCEPT ![n] = [dumps[n] EXCEPT !.checksum = Backup!Blank]]
    BY <1>1
  <2> QED BY <2>3, <2>4, <2>5
<1>4. d.stamp = dumps[n].stamp /\ d.content = dumps[n].content /\ d.checksum = Backup!Blank
  OBVIOUS
<1>5. /\ dumps' \in Seq(Dumps) /\ Len(dumps') = n /\ dumps'[n] = d
      /\ \A i \in 1 .. n : i # n => dumps'[i] = dumps[i]
  <2>1. dumps \in Seq(Dumps) /\ Len(dumps) = n
    BY DEF BackupTypes
  <2> HIDE DEF d
  <2> QED BY <1>2, <1>3, <2>1, LastChanges
<1> HIDE DEF d, n
<1>6. \A i \in 1 .. n : /\ dumps'[i].stamp = dumps[i].stamp
                        /\ dumps'[i].content = dumps[i].content
                        /\ i # n => dumps'[i].checksum = dumps[i].checksum
  BY <1>4, <1>5
<1>7. BackupTypes'
  BY <1>1, <1>5 DEF BackupTypes
<1>8. Stamps' /\ Sums'
  BY <1>1, <1>5, <1>6 DEF Stamps, Sums, n
<1>9. Newest'
  BY <1>1, <1>2, <1>4, <1>5 DEF Newest
<1>10. Sealed'
  BY <1>1, <1>2, <1>4, <1>5, <1>6 DEF Sealed, n
<1>11. Restorable'
  BY <1>1, <1>2, <1>4, <1>5 DEF Restorable
<1>12. Taken'
  <2>1. drill.step = "restoring" /\ drill.before # Backup!Blank => dumps[n].stamp # drill.stamp
    BY <1>2 DEF Taken, n
  <2> QED BY <1>1, <1>5, <1>6, <2>1 DEF Taken, n
<1> QED BY <1>7, <1>8, <1>9, <1>10, <1>11, <1>12

\* ... and written.
LEMMA SealInv ==
  ASSUME Backup!BoundsAssumption, BackupInv, Backup!Seal
  PROVE  BackupInv'
<1> USE DEF BackupInv
<1> DEFINE n == Len(dumps)
           d == [stamp |-> dumps[n].stamp, content |-> dumps[n].content, checksum |-> run.control]
<1>1. /\ run.step = "sealing"
      /\ run' = [step |-> "sealed", control |-> run.control, snapshot |-> run.snapshot]
      /\ dumps' = [dumps EXCEPT ![n].checksum = run.control]
      /\ UNCHANGED <<live, runs, succeeded, drill, late>>
  BY DEF Backup!Seal, BackupTypes
<1>2. /\ n \in Nat /\ n > 0 /\ n \in 1 .. n /\ dumps[n].checksum = Backup!Blank /\ dumps[n].stamp = runs
      /\ dumps[n].content = run.snapshot /\ run.snapshot # {} /\ run.control # {}
      /\ run.control = run.snapshot \/ runs \in late
      /\ run.control # Backup!Blank
  BY <1>1, SidecarKinds DEF Newest, BackupTypes, Sums
<1>3. d \in Dumps /\ dumps' = [dumps EXCEPT ![n] = d]
  <2>1. /\ dumps \in Seq(Dumps) /\ run.snapshot \in Backup!Optional(Backup!Writes)
        /\ run.control \in Backup!Optional(Backup!Writes)
    BY DEF BackupTypes
  <2>2. /\ dumps[n].stamp \in Nat \ {0}
        /\ dumps[n].content \in Backup!Optional(Backup!Writes)
        /\ dumps[n].checksum \in Sidecars
        /\ dumps[n] = [stamp |-> dumps[n].stamp, content |-> dumps[n].content,
                       checksum |-> dumps[n].checksum]
    BY <1>2, <2>1, DumpFields
  <2>3. d \in Dumps
    BY <2>1, <2>2, SidecarKinds DEF Dumps
  <2>4. [dumps[n] EXCEPT !.checksum = run.control] = d
    BY <2>2, DumpChanges
  <2>5. dumps' = [dumps EXCEPT ![n] = [dumps[n] EXCEPT !.checksum = run.control]]
    BY <1>1
  <2> QED BY <2>3, <2>4, <2>5
<1>4. d.stamp = dumps[n].stamp /\ d.content = dumps[n].content /\ d.checksum = run.control
  OBVIOUS
<1>5. /\ dumps' \in Seq(Dumps) /\ Len(dumps') = n /\ dumps'[n] = d
      /\ \A i \in 1 .. n : i # n => dumps'[i] = dumps[i]
  <2>1. dumps \in Seq(Dumps) /\ Len(dumps) = n
    BY DEF BackupTypes
  <2> HIDE DEF d
  <2> QED BY <1>2, <1>3, <2>1, LastChanges
<1> HIDE DEF d, n
<1>6. \A i \in 1 .. n : /\ dumps'[i].stamp = dumps[i].stamp
                        /\ dumps'[i].content = dumps[i].content
                        /\ i # n => dumps'[i].checksum = dumps[i].checksum
  BY <1>4, <1>5
<1>7. BackupTypes'
  BY <1>1, <1>5 DEF BackupTypes
<1>8. Stamps' /\ Sums'
  BY <1>1, <1>5, <1>6 DEF Stamps, Sums, n
<1>9. Newest'
  BY <1>1, <1>2, <1>4, <1>5 DEF Newest
<1>10. Sealed'
  BY <1>1, <1>2, <1>4, <1>5, <1>6 DEF Sealed, n
<1>11. Restorable'
  BY <1>1, <1>2, <1>4, <1>5 DEF Restorable
<1>12. Taken'
  <2>1. drill.step = "restoring" /\ drill.before # Backup!Blank => dumps[n].stamp # drill.stamp
    BY <1>2 DEF Taken, n
  <2> QED BY <1>1, <1>5, <1>6, <2>1 DEF Taken, n
<1> QED BY <1>7, <1>8, <1>9, <1>10, <1>11, <1>12

\* What is pruned are the oldest; the newest, just sealed, is kept.
LEMMA PruneInv ==
  ASSUME Backup!BoundsAssumption, BackupInv, Backup!Prune
  PROVE  BackupInv'
<1> USE DEF BackupInv
<1> DEFINE n == Len(dumps)
           m == IF n < Keep THEN 1 ELSE n - Keep + 1
           k == n - m + 1
<1>1. /\ run.step = "sealed" /\ run' = Backup!NoRun /\ dumps' = SubSeq(dumps, m, n) /\ succeeded' = TRUE
      /\ UNCHANGED <<live, runs, drill, late>>
  BY DEF Backup!Prune, Backup!NewestKept
<1>2. n \in Nat /\ n > 0 /\ dumps[n].checksum \notin {{}, Backup!Blank}
  BY <1>1, SidecarKinds DEF Newest, BackupTypes, Sums
<1>2a. n \in Nat /\ n > 0
  BY <1>2
<1>3. Keep \in Nat /\ Keep > 0
  BY DEF Backup!BoundsAssumption
<1>4. m \in 1 .. n /\ k \in 1 .. n /\ k + m - 1 = n
  BY <1>2a, <1>3
<1>5. \A i \in m .. n : dumps[i] \in Dumps
  BY <1>4 DEF BackupTypes
<1> HIDE DEF m, n
<1>6. /\ SubSeq(dumps, m, n) \in Seq(Dumps) /\ Len(SubSeq(dumps, m, n)) = k
      /\ \A i \in 1 .. n - m + 1 : SubSeq(dumps, m, n)[i] = dumps[m + i - 1]
  BY <1>2, <1>4, <1>5, SubSeqProperties
<1>7. \A i \in 1 .. k : i + m - 1 \in 1 .. n /\ i + m - 1 = m + i - 1
  BY <1>4
<1>8. dumps' \in Seq(Dumps) /\ Len(dumps') = k /\ \A i \in 1 .. k : dumps'[i] = dumps[i + m - 1]
  BY <1>1, <1>6, <1>7
<1> HIDE DEF k
<1>9. BackupTypes'
  <2>1. {} \in Backup!Optional(Backup!Writes)
    BY DEF Backup!Optional
  <2> QED BY <1>1, <1>8, <2>1 DEF BackupTypes, Backup!NoRun
<1>10. Stamps'
  <2>1. \A i \in 1 .. k : dumps'[i].stamp <= runs
    BY <1>7, <1>8 DEF Stamps, n
  <2>2. \A i, j \in 1 .. k : dumps'[i].stamp = dumps'[j].stamp => i = j
    <3> SUFFICES ASSUME NEW i \in 1 .. k, NEW j \in 1 .. k, dumps'[i].stamp = dumps'[j].stamp
                 PROVE  i = j
      OBVIOUS
    <3>1. i + m - 1 = j + m - 1
      <4>1. i + m - 1 \in 1 .. n /\ j + m - 1 \in 1 .. n
        BY <1>7
      <4>2. dumps[i + m - 1].stamp = dumps[j + m - 1].stamp
        BY <1>8
      <4> QED BY <4>1, <4>2 DEF Stamps, n
    <3> QED BY <1>4, <3>1
  <2>3. k <= runs
    BY <1>4 DEF Stamps, BackupTypes, n
  <2> QED BY <1>1, <1>8, <2>1, <2>2, <2>3 DEF Stamps, Backup!NoRun
<1>11. Sums' /\ Newest'
  BY <1>1 DEF Sums, Newest, Backup!NoRun
<1>12. Sealed' /\ Taken'
  <2>1. Sealed'
    BY <1>1, <1>7, <1>8 DEF Sealed, n
  <2>2. Taken'
    BY <1>1, <1>7, <1>8 DEF Taken, n
  <2> QED BY <2>1, <2>2
<1>13. Restorable'
  <2>1. k \in 1 .. k /\ dumps'[k].checksum \notin {{}, Backup!Blank}
    BY <1>2, <1>4, <1>8
  <2> QED BY <1>8, <2>1 DEF Restorable
<1> QED BY <1>9, <1>10, <1>11, <1>12, <1>13

LEMMA AbortInv ==
  ASSUME BackupInv, Backup!Abort
  PROVE  BackupInv'
<1> USE DEF BackupInv
<1>1. run' = Backup!NoRun /\ UNCHANGED <<live, dumps, runs, succeeded, drill, late>>
  BY DEF Backup!Abort
<1>2. BackupTypes'
  <2>1. {} \in Backup!Optional(Backup!Writes)
    BY DEF Backup!Optional
  <2> QED BY <1>1, <2>1 DEF BackupTypes, Backup!NoRun
<1> QED BY <1>1, <1>2 DEF Stamps, Sums, Newest, Sealed, Restorable, Taken, Backup!NoRun

\* The drill takes the newest dump.
LEMMA TakeInv ==
  ASSUME Backup!BoundsAssumption, BackupInv, Backup!Take
  PROVE  BackupInv'
<1> USE DEF BackupInv
<1> DEFINE n == Len(dumps)
<1>1. UNCHANGED <<live, dumps, run, runs, succeeded, late>>
  BY DEF Backup!Take
<1>2. CASE dumps = <<>> \/ Last(dumps).checksum = {}
  <2>1. drill' = [step |-> "exited", stamp |-> 0, before |-> {}]
    BY <1>2 DEF Backup!Take, Backup!NoDrill, Backup!Last, Last
  <2>2. {} \in Backup!Optional(Backup!Writes) /\ 0 \in 0 .. MaxRuns
    BY DEF Backup!Optional, Backup!BoundsAssumption
  <2>3. BackupTypes'
    BY <1>1, <2>1, <2>2, SidecarKinds DEF BackupTypes
  <2>4. 0 <= runs /\ (run.step = "summed" => 0 < runs)
    BY DEF Stamps, BackupTypes
  <2>5. Stamps'
    BY <1>1, <2>1, <2>4 DEF Stamps
  <2> QED BY <1>1, <2>1, <2>3, <2>5 DEF Sums, Newest, Sealed, Restorable, Taken
<1>3. CASE dumps # <<>> /\ Last(dumps).checksum # {}
  <2>1. drill' = [step |-> "restoring", stamp |-> dumps[n].stamp, before |-> dumps[n].checksum]
    BY <1>3 DEF Backup!Take, Backup!Last, Last
  <2>2. n \in 1 .. n /\ dumps[n].checksum # {}
    BY <1>3 DEF BackupTypes, Last
  <2>3. /\ dumps[n].checksum \in Sidecars /\ dumps[n].stamp \in Nat \ {0}
        /\ dumps[n].stamp <= runs /\ (run.step = "summed" => dumps[n].stamp < runs)
    <3>1. dumps \in Seq(Dumps)
      BY DEF BackupTypes
    <3> QED BY <2>2, <3>1, DumpFields DEF Stamps
  <2>4. dumps[n].stamp \in 0 .. MaxRuns
    BY <2>3 DEF BackupTypes, Backup!BoundsAssumption
  <2>5. BackupTypes'
    BY <1>1, <2>1, <2>3, <2>4 DEF BackupTypes
  <2>6. Stamps'
    BY <1>1, <2>1, <2>3 DEF Stamps
  <2>7. \A i \in 1 .. Len(dumps) : dumps[i].stamp = dumps[n].stamp => dumps[i] = dumps[n]
    BY <2>2 DEF Stamps
  <2>8. Taken'
    BY <1>1, <2>1, <2>2, <2>7 DEF Taken
  <2> QED BY <1>1, <2>5, <2>6, <2>8 DEF Sums, Newest, Sealed, Restorable
<1> QED BY <1>2, <1>3

\* A mismatch is with the sidecar of the dump itself.
LEMMA RestoreInv ==
  ASSUME BackupInv, Backup!Restore
  PROVE  BackupInv'
<1> USE DEF BackupInv
<1>1. drill.step = "restoring" /\ UNCHANGED <<live, dumps, run, runs, succeeded, late>>
  BY DEF Backup!Restore
<1>2. PICK to \in {"exited", "match", "mismatch"} :
        /\ drill' = [step |-> to, stamp |-> drill.stamp, before |-> drill.before]
        /\ to = "mismatch" => \E i \in DOMAIN dumps : /\ dumps[i].stamp = drill.stamp
                                                     /\ dumps[i].content # drill.before
  BY DEF Backup!Restore, BackupTypes
<1>3. BackupTypes'
  BY <1>1, <1>2 DEF BackupTypes
<1>4. to = "mismatch" => drill.stamp \in late \/ drill.before = Backup!Blank
  <2> SUFFICES ASSUME to = "mismatch", drill.before # Backup!Blank PROVE drill.stamp \in late
    OBVIOUS
  <2>1. PICK i \in DOMAIN dumps : dumps[i].stamp = drill.stamp /\ dumps[i].content # drill.before
    BY <1>2
  <2>2. i \in 1 .. Len(dumps)
    BY <2>1 DEF BackupTypes
  <2>3. dumps[i].checksum = drill.before /\ drill.before # {}
    BY <1>1, <2>1, <2>2 DEF Taken
  <2> QED BY <2>1, <2>2, <2>3 DEF Sealed
<1>5. Stamps' /\ Taken'
  BY <1>1, <1>2, <1>4 DEF Stamps, Taken
<1> QED BY <1>1, <1>3, <1>5 DEF Sums, Newest, Sealed, Restorable

LEMMA BackupNextInv ==
  ASSUME Backup!BoundsAssumption, BackupInv, [Backup!Next]_Backup!backupVars
  PROVE  BackupInv'
<1>1. CASE UNCHANGED Backup!backupVars
  BY <1>1 DEF Backup!backupVars, BackupInv, BackupTypes, Stamps, Sums, Newest, Sealed, Restorable,
      Taken
<1> QED BY <1>1, BackupWriteInv, SumInv, StartDumpInv, FinishDumpInv, CreateSidecarInv, SealInv, PruneInv, AbortInv,
           TakeInv, RestoreInv
        DEF Backup!Next

LEMMA BackupTypeOK ==
  ASSUME Backup!BoundsAssumption, BackupInv
  PROVE  Backup!TypeOK
<1>1. \A i \in DOMAIN dumps : dumps[i] \in [stamp : 1 .. MaxRuns, content : Backup!Optional(Backup!Writes),
                                            checksum : Backup!Optional(Backup!Writes) \cup {Backup!Blank}]
  <2> SUFFICES ASSUME NEW i \in DOMAIN dumps
               PROVE  dumps[i] \in [stamp : 1 .. MaxRuns, content : Backup!Optional(Backup!Writes),
                                    checksum : Backup!Optional(Backup!Writes) \cup {Backup!Blank}]
    OBVIOUS
  <2>1. i \in 1 .. Len(dumps) /\ dumps \in Seq(Dumps) /\ runs \in 0 .. MaxRuns
    BY DEF BackupInv, BackupTypes
  <2>2. dumps[i].stamp <= runs
    BY <2>1 DEF BackupInv, Stamps
  <2>3. /\ dumps[i].stamp \in Nat \ {0}
        /\ dumps[i].content \in Backup!Optional(Backup!Writes)
        /\ dumps[i].checksum \in Sidecars
        /\ dumps[i] = [stamp |-> dumps[i].stamp, content |-> dumps[i].content,
                       checksum |-> dumps[i].checksum]
    BY <2>1, DumpFields
  <2>4. dumps[i].stamp \in 1 .. MaxRuns
    BY <2>1, <2>2, <2>3 DEF Backup!BoundsAssumption
  <2> QED BY <2>3, <2>4, DumpTyped DEF Sidecars
<1>2. Len(dumps) <= MaxRuns
  <2>1. Len(dumps) <= runs /\ Len(dumps) \in Nat /\ runs \in 0 .. MaxRuns
    BY DEF BackupInv, BackupTypes, Stamps
  <2> QED BY <2>1 DEF Backup!BoundsAssumption
<1> QED BY <1>1, <1>2 DEF BackupInv, BackupTypes, Sidecars, Backup!TypeOK

LEMMA BackupRestores ==
  ASSUME BackupInv
  PROVE  Backup!BackupsRestore
<1>1. DOMAIN dumps = 1 .. Len(dumps)
  BY DEF BackupInv, BackupTypes
<1>2. \A i \in 1 .. Len(dumps) : dumps[i].checksum # {} => dumps[i].content # {}
  BY DEF BackupInv, Sealed
<1>3. succeeded => \E i \in 1 .. Len(dumps) : /\ dumps[i].content # {}
                                               /\ dumps[i].checksum \notin {{}, Backup!Blank}
  BY <1>2 DEF BackupInv, Restorable
<1> QED BY <1>1, <1>2, <1>3 DEF BackupInv, Taken, Backup!BackupsRestore

-----------------------------------------------------------------------------
(* Seeding: the rows seed.ts passes.                                       *)

\* The types of a seed; SeedStarts below has the bounds.
SeedTypes ==
  /\ count \in [Seed!Rows -> Nat]
  /\ short \subseteq Seed!Users
  /\ reached \in [Seeds -> {0} \cup Seed!Rows]
  /\ doing \in [Seeds -> {"look", "insert", "raise"}]
  /\ overlapped \in BOOLEAN
  /\ gone \in [Seeds -> SUBSET Seed!Rows]

\* A seed that does not run will begin by looking.
SeedRests == \A r \in Seeds : ~ Seed!Runs(r) => doing[r] = "look"

\* Until two have run at once, no more than one runs, ...
SeedAlone == ~ overlapped => \A r, q \in Seeds : Seed!Runs(r) /\ Seed!Runs(q) => r = q

\* ... so that what it has not found is still not there when it inserts it.
SeedMissing ==
  ~ overlapped => \A r \in Seeds : Seed!Runs(r) /\ doing[r] = "insert" => count[reached[r]] = 0

\* What it raises is a user, and users stay.
SeedPresent ==
  \A r \in Seeds : Seed!Runs(r) /\ doing[r] = "raise" => reached[r] \in Seed!Users /\ count[reached[r]] > 0

SeedOnce == \A i \in Seed!Rows : (~ overlapped \/ i \in Seed!Users) => count[i] <= 1
SeedPassed == \A r \in Seeds : \A i \in Seed!Rows : i < reached[r] => count[i] > 0 \/ i \in gone[r]

SeedInv == SeedTypes /\ SeedRests /\ SeedAlone /\ SeedMissing /\ SeedPresent /\ SeedOnce /\ SeedPassed

LEMMA SeedRowFacts ==
  ASSUME Seed!ListsAssumption
  PROVE  /\ Seed!Rows \subseteq Nat \ {0} /\ 1 \in Seed!Rows
         /\ Seed!Users \subseteq Seed!Rows /\ Seed!SeedOrders \subseteq Seed!Rows
         /\ Seed!Users \cap Seed!SeedOrders = {}
  BY DEF Seed!ListsAssumption, Seed!Rows, Seed!Users, Seed!SeedOrders

\* A step of a seed to the next row leaves behind the row it was at, no other.
LEMMA SeedBehind ==
  ASSUME Seed!Rows \subseteq Nat \ {0}, reached \in [Seeds -> {0} \cup Seed!Rows],
         NEW r \in Seeds, NEW q \in Seeds, NEW j \in Seed!Rows, NEW n \in {0} \cup Seed!Rows,
         reached[r] \in Seed!Rows, n \in {0, reached[r] + 1},
         reached' = [reached EXCEPT ![r] = n], j < reached'[q],
         ~ (q = r /\ j = reached[r])
  PROVE  j < reached[q]
<1>1. CASE q # r
  BY <1>1
<1>2. CASE q = r
  <2>1. reached'[q] = n /\ j \in Nat \ {0} /\ reached[r] \in Nat /\ j # reached[r]
    BY <1>2
  <2>2. j < n
    BY <2>1
  <2>3. n # 0
    BY <2>1, <2>2
  <2>4. n = reached[r] + 1
    BY <2>3
  <2>5. j < reached[r]
    BY <2>1, <2>2, <2>4
  <2> QED BY <1>2, <2>5
<1> QED BY <1>1, <1>2

LEMMA SeedInitInv ==
  ASSUME Seed!ListsAssumption, Seed!Init
  PROVE  SeedInv
<1>1. Seed!Rows \subseteq Nat \ {0}
  BY SeedRowFacts
<1>2. SeedTypes
  BY DEF Seed!Init, SeedTypes
<1>3. SeedRests /\ SeedAlone /\ SeedMissing /\ SeedPresent
  BY DEF Seed!Init, SeedRests, SeedAlone, SeedMissing, SeedPresent, Seed!Runs
<1>4. SeedOnce
  BY DEF Seed!Init, SeedOnce
<1>5. SeedPassed
  BY <1>1 DEF Seed!Init, SeedPassed
<1> QED BY <1>2, <1>3, <1>4, <1>5 DEF SeedInv

LEMMA SeedStartInv ==
  ASSUME Seed!ListsAssumption, SeedInv, NEW r \in Seeds, Seed!Start(r)
  PROVE  SeedInv'
<1>1. Seed!Rows \subseteq Nat \ {0} /\ 1 \in Seed!Rows
  BY SeedRowFacts
<1>2. ~ Seed!Runs(r) /\ reached' = [reached EXCEPT ![r] = 1] /\ gone' = [gone EXCEPT ![r] = {}]
  BY DEF Seed!Start
<1>3. count' = count /\ short' = short /\ doing' = doing
  BY DEF Seed!Start
<1>4. overlapped' = (overlapped \/ \E q \in Seeds : Seed!Runs(q))
  BY DEF Seed!Start
<1>5. doing[r] = "look"
  BY <1>2 DEF SeedInv, SeedRests
<1>6. SeedTypes'
  BY <1>1, <1>2, <1>3, <1>4 DEF SeedInv, SeedTypes
<1>7. SeedRests'
  BY <1>1, <1>2, <1>3 DEF SeedInv, SeedTypes, SeedRests, Seed!Runs
<1>8. SeedAlone'
  BY <1>1, <1>2, <1>4 DEF SeedInv, SeedTypes, SeedAlone, Seed!Runs
<1>9. SeedMissing' /\ SeedPresent'
  BY <1>2, <1>3, <1>4, <1>5 DEF SeedInv, SeedTypes, SeedMissing, SeedPresent, Seed!Runs
<1>10. SeedOnce'
  BY <1>3, <1>4 DEF SeedInv, SeedOnce
<1>11. SeedPassed'
  BY <1>1, <1>2, <1>3 DEF SeedInv, SeedTypes, SeedPassed
<1> QED BY <1>6, <1>7, <1>8, <1>9, <1>10, <1>11 DEF SeedInv

\* On to the next row: what the seed leaves behind must be there.
LEMMA SeedAdvanceInv ==
  ASSUME Seed!ListsAssumption, SeedInv, NEW r \in Seeds, Seed!Runs(r), Seed!Advance(r),
         count \in [Seed!Rows -> Nat], count' = count, short' \subseteq Seed!Users,
         overlapped' = overlapped, gone' = gone,
         count[reached[r]] > 0
  PROVE  SeedInv'
<1>1. Seed!Rows \subseteq Nat \ {0} /\ reached[r] \in Seed!Rows
  BY SeedRowFacts DEF SeedInv, SeedTypes, Seed!Runs
<1>2. PICK n \in {0} \cup Seed!Rows :
        reached' = [reached EXCEPT ![r] = n] /\ n \in {0, reached[r] + 1}
  BY <1>1 DEF Seed!Advance, SeedInv, SeedTypes
<1>3. doing' = [doing EXCEPT ![r] = "look"]
  BY DEF Seed!Advance
<1>4. SeedTypes'
  BY <1>2, <1>3 DEF SeedInv, SeedTypes
<1>5. SeedRests'
  BY <1>2, <1>3 DEF SeedInv, SeedTypes, SeedRests, Seed!Runs
<1>6. SeedAlone'
  BY <1>2 DEF SeedInv, SeedTypes, SeedAlone, Seed!Runs
<1>7. SeedMissing' /\ SeedPresent'
  BY <1>2, <1>3 DEF SeedInv, SeedTypes, SeedMissing, SeedPresent, Seed!Runs
<1>8. SeedOnce'
  BY DEF SeedInv, SeedOnce
<1>9. SeedPassed'
  <2> SUFFICES ASSUME NEW q \in Seeds, NEW i \in Seed!Rows, i < reached'[q]
               PROVE  count[i] > 0 \/ i \in gone[q]
    BY DEF SeedPassed
  <2>1. CASE q = r /\ i = reached[r]
    BY <2>1
  <2>2. CASE ~ (q = r /\ i = reached[r])
    <3>1. i < reached[q]
      BY <1>1, <1>2, <2>2, SeedBehind DEF SeedInv, SeedTypes
    <3> QED BY <3>1 DEF SeedInv, SeedPassed
  <2> QED BY <2>1, <2>2
<1> QED BY <1>4, <1>5, <1>6, <1>7, <1>8, <1>9 DEF SeedInv

\* The end of the program.
LEMMA SeedExitsInv ==
  ASSUME Seed!ListsAssumption, SeedInv, NEW r \in Seeds, Seed!Exits(r),
         UNCHANGED <<count, short, overlapped, gone>>
  PROVE  SeedInv'
<1>1. Seed!Rows \subseteq Nat \ {0}
  BY SeedRowFacts
<1>2. reached' = [reached EXCEPT ![r] = 0] /\ doing' = [doing EXCEPT ![r] = "look"]
  BY DEF Seed!Exits
<1>3. SeedTypes'
  BY <1>2 DEF SeedInv, SeedTypes
<1>4. SeedRests' /\ SeedAlone' /\ SeedMissing' /\ SeedPresent'
  BY <1>2 DEF SeedInv, SeedTypes, SeedRests, SeedAlone, SeedMissing, SeedPresent, Seed!Runs
<1>5. SeedOnce'
  BY DEF SeedInv, SeedOnce
<1>6. SeedPassed'
  BY <1>1, <1>2 DEF SeedInv, SeedTypes, SeedPassed
<1> QED BY <1>3, <1>4, <1>5, <1>6 DEF SeedInv

LEMMA SeedLookInv ==
  ASSUME Seed!ListsAssumption, SeedInv, NEW r \in Seeds, Seed!Look(r)
  PROVE  SeedInv'
<1>1. Seed!Rows \subseteq Nat \ {0} /\ reached[r] \in Seed!Rows /\ Seed!Runs(r)
  BY SeedRowFacts DEF Seed!Look, SeedInv, SeedTypes, Seed!Runs
<1>2. UNCHANGED <<count, short, overlapped, gone>>
  BY DEF Seed!Look
<1>3. CASE ~ Seed!Found(reached[r])
  <2>1. reached' = reached /\ doing' = [doing EXCEPT ![r] = "insert"]
    BY <1>3 DEF Seed!Look, Seed!Do
  <2>2. count[reached[r]] = 0
    <3>1. count[reached[r]] \in Nat
      BY <1>1 DEF SeedInv, SeedTypes
    <3> QED BY <1>3, <3>1 DEF Seed!Found
  <2>3. SeedTypes' /\ SeedRests' /\ SeedAlone' /\ SeedPresent'
    BY <1>1, <1>2, <2>1 DEF SeedInv, SeedTypes, SeedRests, SeedAlone, SeedPresent, Seed!Runs
  <2>4. SeedMissing'
    BY <1>2, <2>1, <2>2 DEF SeedInv, SeedTypes, SeedMissing, Seed!Runs
  <2>5. SeedOnce' /\ SeedPassed'
    BY <1>2, <2>1 DEF SeedInv, SeedOnce, SeedPassed
  <2> QED BY <2>3, <2>4, <2>5 DEF SeedInv
<1>4. CASE Seed!Found(reached[r]) /\ reached[r] \in short
  <2>1. reached' = reached /\ doing' = [doing EXCEPT ![r] = "raise"]
    BY <1>4 DEF Seed!Look, Seed!Do
  <2>2. reached[r] \in Seed!Users /\ count[reached[r]] > 0
    BY <1>4 DEF Seed!Found, SeedInv, SeedTypes
  <2>3. SeedTypes' /\ SeedRests' /\ SeedAlone' /\ SeedMissing'
    BY <1>1, <1>2, <2>1 DEF SeedInv, SeedTypes, SeedRests, SeedAlone, SeedMissing, Seed!Runs
  <2>4. SeedPresent'
    BY <1>2, <2>1, <2>2 DEF SeedInv, SeedTypes, SeedPresent, Seed!Runs
  <2>5. SeedOnce' /\ SeedPassed'
    BY <1>2, <2>1 DEF SeedInv, SeedOnce, SeedPassed
  <2> QED BY <2>3, <2>4, <2>5 DEF SeedInv
<1>5. CASE Seed!Found(reached[r]) /\ reached[r] \notin short
  <2>1. Seed!Advance(r) /\ count[reached[r]] > 0
    BY <1>5 DEF Seed!Look, Seed!Found
  <2> QED BY <1>1, <1>2, <2>1, SeedAdvanceInv DEF SeedInv, SeedTypes
<1> QED BY <1>3, <1>4, <1>5

LEMMA SeedInsertInv ==
  ASSUME Seed!ListsAssumption, SeedInv, NEW r \in Seeds, Seed!Insert(r)
  PROVE  SeedInv'
<1> DEFINE i == reached[r]
<1>1. /\ Seed!Rows \subseteq Nat \ {0}
      /\ i \in Seed!Rows /\ Seed!Runs(r) /\ doing[r] = "insert"
  BY SeedRowFacts DEF Seed!Insert, SeedInv, SeedTypes, Seed!Runs
<1>2. UNCHANGED <<short, overlapped, gone>>
  BY DEF Seed!Insert
<1>3. CASE i \in Seed!Users /\ count[i] > 0
  BY <1>2, <1>3, SeedExitsInv DEF Seed!Insert
<1>4. CASE ~ (i \in Seed!Users /\ count[i] > 0)
  <2>1. Seed!Advance(r) /\ count' = [count EXCEPT ![i] = count[i] + 1]
    BY <1>4 DEF Seed!Insert
  <2>2. PICK n \in {0} \cup Seed!Rows : reached' = [reached EXCEPT ![r] = n] /\ n \in {0, i + 1}
    BY <1>1, <2>1 DEF Seed!Advance, SeedInv, SeedTypes
  <2>3. doing' = [doing EXCEPT ![r] = "look"]
    BY <2>1 DEF Seed!Advance
  <2>4. /\ count \in [Seed!Rows -> Nat] /\ count' \in [Seed!Rows -> Nat]
        /\ count'[i] = count[i] + 1
        /\ \A j \in Seed!Rows \ {i} : count'[j] = count[j]
    <3>1. count \in [Seed!Rows -> Nat]
      BY DEF SeedInv, SeedTypes
    <3>2. count[i] \in Nat
      BY <1>1, <3>1
    <3>3. count[i] + 1 \in Nat
      BY <3>2
    <3> QED BY <1>1, <2>1, <3>1, <3>3
  <2>5. SeedTypes' /\ SeedRests'
    BY <1>2, <2>2, <2>3, <2>4 DEF SeedInv, SeedTypes, SeedRests, Seed!Runs
  <2>6. SeedAlone'
    BY <1>1, <1>2, <2>2 DEF SeedInv, SeedTypes, SeedAlone, Seed!Runs
  <2>7. SeedMissing'
    <3>1. ~ overlapped => \A q \in Seeds : Seed!Runs(q) => q = r
      BY <1>1 DEF SeedInv, SeedAlone
    <3> QED BY <1>2, <2>2, <2>3, <3>1 DEF SeedInv, SeedTypes, SeedMissing, Seed!Runs
  <2>8. SeedPresent'
    BY <2>2, <2>3, <2>4, SeedRowFacts DEF SeedInv, SeedTypes, SeedPresent, Seed!Runs
  <2>9. SeedOnce'
    <3>1. count[i] \in Nat
      BY <1>1, <2>4
    <3>2. i \in Seed!Users => count[i] = 0
      BY <1>4, <3>1
    <3>3. ~ overlapped => count[i] = 0
      BY <1>1 DEF SeedInv, SeedMissing
    <3> QED BY <1>1, <1>2, <2>4, <3>2, <3>3 DEF SeedInv, SeedOnce
  <2>10. SeedPassed'
    <3> SUFFICES ASSUME NEW q \in Seeds, NEW j \in Seed!Rows, j < reached'[q]
                 PROVE  count'[j] > 0 \/ j \in gone[q]
      BY <1>2 DEF SeedPassed
    <3>1. CASE j = i
      BY <1>1, <2>4, <3>1
    <3>2. CASE j # i
      <4>1. j < reached[q]
        BY <1>1, <2>2, <3>2, SeedBehind DEF SeedInv, SeedTypes
      <4>2. count[j] > 0 \/ j \in gone[q]
        BY <4>1 DEF SeedInv, SeedPassed
      <4> QED BY <2>4, <3>2, <4>2
    <3> QED BY <3>1, <3>2
  <2> QED BY <2>5, <2>6, <2>7, <2>8, <2>9, <2>10 DEF SeedInv
<1> QED BY <1>3, <1>4

LEMMA SeedRaiseInv ==
  ASSUME Seed!ListsAssumption, SeedInv, NEW r \in Seeds, Seed!Raise(r)
  PROVE  SeedInv'
<1>1. Seed!Runs(r) /\ Seed!Advance(r) /\ short' = short \ {reached[r]} /\ count[reached[r]] > 0
  BY DEF Seed!Raise, SeedInv, SeedPresent
<1> QED BY <1>1, SeedAdvanceInv DEF Seed!Raise, SeedInv, SeedTypes

LEMMA SeedSpendInv ==
  ASSUME SeedInv, NEW i \in Seed!Users, Seed!Spend(i)
  PROVE  SeedInv'
<1>1. SeedTypes'
  BY DEF Seed!Spend, SeedInv, SeedTypes
<1>2. SeedRests' /\ SeedAlone' /\ SeedMissing' /\ SeedPresent' /\ SeedOnce' /\ SeedPassed'
  BY DEF Seed!Spend, SeedInv, SeedRests, SeedAlone, SeedMissing, SeedPresent, SeedOnce,
      SeedPassed, Seed!Runs
<1> QED BY <1>1, <1>2 DEF SeedInv

LEMMA SeedDeleteInv ==
  ASSUME Seed!ListsAssumption, SeedInv, NEW i \in Seed!SeedOrders, Seed!Delete(i)
  PROVE  SeedInv'
<1>1. /\ Seed!Rows \subseteq Nat \ {0}
      /\ i \in Seed!Rows /\ i \notin Seed!Users /\ Seed!Users \subseteq Seed!Rows
  BY SeedRowFacts
<1>2. count[i] > 0 /\ count' = [count EXCEPT ![i] = count[i] - 1]
  BY DEF Seed!Delete
<1>3. gone' = [r \in Seeds |-> IF Seed!Runs(r) THEN gone[r] \cup {i} ELSE gone[r]]
  BY DEF Seed!Delete
<1>4. UNCHANGED <<short, reached, doing, overlapped>>
  BY DEF Seed!Delete
<1>5. /\ count \in [Seed!Rows -> Nat] /\ count' \in [Seed!Rows -> Nat]
      /\ count'[i] = count[i] - 1 /\ \A j \in Seed!Rows \ {i} : count'[j] = count[j]
  BY <1>1, <1>2 DEF SeedInv, SeedTypes
<1>6. SeedTypes'
  BY <1>1, <1>3, <1>4, <1>5 DEF SeedInv, SeedTypes
<1>7. SeedRests' /\ SeedAlone'
  BY <1>4 DEF SeedInv, SeedRests, SeedAlone, Seed!Runs
<1>8. SeedMissing'
  <2> SUFFICES ASSUME ~ overlapped, NEW r \in Seeds, Seed!Runs(r), doing[r] = "insert"
               PROVE  count'[reached[r]] = 0
    BY <1>4 DEF SeedMissing, Seed!Runs
  <2>1. count[reached[r]] = 0 /\ reached[r] \in Seed!Rows
    BY DEF SeedInv, SeedMissing, SeedTypes, Seed!Runs
  <2> QED BY <1>2, <1>5, <2>1
<1>9. SeedPresent'
  BY <1>1, <1>4, <1>5 DEF SeedInv, SeedPresent, Seed!Runs
<1>10. SeedOnce'
  BY <1>2, <1>4, <1>5 DEF SeedInv, SeedOnce
<1>11. SeedPassed'
  <2> SUFFICES ASSUME NEW r \in Seeds, NEW j \in Seed!Rows, j < reached[r]
               PROVE  count'[j] > 0 \/ j \in gone'[r]
    BY <1>4 DEF SeedPassed
  <2>1. Seed!Runs(r)
    BY <1>1 DEF Seed!Runs
  <2>2. count[j] > 0 \/ j \in gone[r]
    BY DEF SeedInv, SeedPassed
  <2> QED BY <1>3, <1>5, <2>1, <2>2
<1> QED BY <1>6, <1>7, <1>8, <1>9, <1>10, <1>11 DEF SeedInv

LEMMA SeedNextInv ==
  ASSUME Seed!ListsAssumption, SeedInv, [Seed!Next]_Seed!seedVars
  PROVE  SeedInv'
<1>1. CASE UNCHANGED Seed!seedVars
  BY <1>1 DEF Seed!seedVars, SeedInv, SeedTypes, SeedRests, SeedAlone, SeedMissing, SeedPresent,
      SeedOnce, SeedPassed, Seed!Runs
<1>2. ASSUME NEW r \in Seeds, Seed!Start(r) \/ Seed!Look(r) \/ Seed!Insert(r) \/ Seed!Raise(r)
      PROVE  SeedInv'
  BY <1>2, SeedStartInv, SeedLookInv, SeedInsertInv, SeedRaiseInv
<1>3. ASSUME NEW r \in Seeds, Seed!Kill(r)
      PROVE  SeedInv'
  BY <1>3, SeedExitsInv DEF Seed!Kill
<1>4. ASSUME NEW i \in Seed!Users, Seed!Spend(i)
      PROVE  SeedInv'
  BY <1>4, SeedSpendInv
<1>5. ASSUME NEW i \in Seed!SeedOrders, Seed!Delete(i)
      PROVE  SeedInv'
  BY <1>5, SeedDeleteInv
<1> QED BY <1>1, <1>2, <1>3, <1>4, <1>5 DEF Seed!Next

LEMMA SeedConverged ==
  ASSUME SeedInv
  PROVE  Seed!SeedConverges
BY DEF SeedInv, SeedOnce, SeedPassed, Seed!SeedConverges

\* Seeds that may still insert row i.
MayInsert(i) == {r \in Seeds : Seed!Runs(r) /\ reached[r] <= i}

\* No row is there more often than seeds have been started.
SeedStarts ==
  /\ starts \in 0 .. MaxStarts /\ deletes \in 0 .. MaxDeletes
  /\ \A i \in Seed!Rows :
       IsFiniteSet(MayInsert(i)) /\ count[i] + Cardinality(MayInsert(i)) <= starts

\* A row more for a seed less.
LEMMA FewerMayInsert ==
  ASSUME SeedTypes, SeedStarts, SeedTypes', starts' = starts, deletes' \in 0 .. MaxDeletes,
         \A i \in Seed!Rows :
           \/ count'[i] <= count[i] /\ MayInsert(i)' \subseteq MayInsert(i)
           \/ /\ count'[i] = count[i] + 1
              /\ \E r \in MayInsert(i) : MayInsert(i)' \subseteq MayInsert(i) \ {r}
  PROVE  SeedStarts'
<1>1. SUFFICES ASSUME NEW i \in Seed!Rows
               PROVE  (IsFiniteSet(MayInsert(i)) /\ count[i] + Cardinality(MayInsert(i)) <= starts)'
  BY DEF SeedStarts
<1>2. PICK S, T : S = MayInsert(i) /\ T = MayInsert(i)'
  OBVIOUS
<1>3. /\ IsFiniteSet(S) /\ count[i] + Cardinality(S) <= starts /\ Cardinality(S) \in Nat
      /\ count[i] \in Nat /\ count'[i] \in Nat /\ starts \in Nat
  BY <1>2, FS_CardinalityType DEF SeedStarts, SeedTypes
<1>4. CASE count'[i] <= count[i] /\ T \subseteq S
  <2>1. IsFiniteSet(T) /\ Cardinality(T) <= Cardinality(S) /\ Cardinality(T) \in Nat
    BY <1>3, <1>4, FS_Subset, FS_CardinalityType
  <2>2. count'[i] + Cardinality(T) <= starts'
    BY <1>3, <1>4, <2>1
  <2> QED BY <1>2, <2>1, <2>2
<1>5. ASSUME count'[i] = count[i] + 1, NEW r \in S, T \subseteq S \ {r}
      PROVE  (IsFiniteSet(MayInsert(i)) /\ count[i] + Cardinality(MayInsert(i)) <= starts)'
  <2>1. IsFiniteSet(S \ {r}) /\ Cardinality(S \ {r}) = Cardinality(S) - 1
    BY <1>3, FS_RemoveElement
  <2>2. IsFiniteSet(T) /\ Cardinality(T) <= Cardinality(S \ {r}) /\ Cardinality(T) \in Nat
    BY <1>5, <2>1, FS_Subset, FS_CardinalityType
  <2>3. count'[i] + Cardinality(T) <= starts'
    BY <1>3, <1>5, <2>1, <2>2
  <2> QED BY <1>2, <2>2, <2>3
<1> QED BY <1>2, <1>4, <1>5

LEMMA SeedStartsInit ==
  ASSUME Seed!BoundsAssumption, Seed!Init
  PROVE  SeedStarts
<1>1. \A i \in Seed!Rows : MayInsert(i) = {}
  BY DEF Seed!Init, MayInsert, Seed!Runs
<1> QED BY <1>1, FS_EmptySet DEF Seed!Init, Seed!BoundsAssumption, SeedStarts

LEMMA SeedStartsNext ==
  ASSUME Seed!ListsAssumption, Seed!BoundsAssumption, SeedInv, SeedInv', SeedStarts,
         [Seed!Next]_Seed!seedVars
  PROVE  SeedStarts'
<1>1. SeedTypes /\ SeedTypes' /\ Seed!Rows \subseteq Nat \ {0}
  BY SeedRowFacts DEF SeedInv
<1>2. CASE UNCHANGED Seed!seedVars
  BY <1>2 DEF Seed!seedVars, SeedStarts, MayInsert, Seed!Runs
<1>3. ASSUME NEW r \in Seeds, Seed!Start(r) PROVE SeedStarts'
  <2>1. /\ ~ Seed!Runs(r) /\ starts < MaxStarts /\ starts' = starts + 1
        /\ reached' = [reached EXCEPT ![r] = 1] /\ UNCHANGED <<count, deletes>>
    BY <1>3 DEF Seed!Start
  <2>2. SUFFICES ASSUME NEW i \in Seed!Rows
                 PROVE  (IsFiniteSet(MayInsert(i)) /\ count[i] + Cardinality(MayInsert(i)) <= starts)'
    BY <2>1 DEF SeedStarts, Seed!BoundsAssumption
  <2>3. PICK S, T : S = MayInsert(i) /\ T = MayInsert(i)'
    OBVIOUS
  <2>4. T = S \cup {r} /\ r \notin S
    BY <1>1, <2>1, <2>3 DEF MayInsert, Seed!Runs, SeedTypes
  <2>5. /\ IsFiniteSet(S) /\ count[i] + Cardinality(S) <= starts /\ Cardinality(S) \in Nat
        /\ count[i] \in Nat /\ starts \in Nat
    BY <1>1, <2>3, FS_CardinalityType DEF SeedStarts, SeedTypes
  <2>6. IsFiniteSet(T) /\ Cardinality(T) = Cardinality(S) + 1
    BY <2>4, <2>5, FS_AddElement
  <2>7. count'[i] + Cardinality(T) <= starts'
    BY <2>1, <2>5, <2>6
  <2> QED BY <2>3, <2>6, <2>7
<1>4. ASSUME NEW r \in Seeds, Seed!Runs(r), UNCHANGED <<count, starts, deletes>>,
             NEW n \in {0, reached[r], reached[r] + 1}, reached' = [reached EXCEPT ![r] = n]
      PROVE  SeedStarts'
  <2>1. \A i \in Seed!Rows : MayInsert(i)' \subseteq MayInsert(i)
    <3> SUFFICES ASSUME NEW i \in Seed!Rows, NEW q \in Seeds, reached'[q] # 0, reached'[q] <= i
                 PROVE  reached[q] # 0 /\ reached[q] <= i
      BY DEF MayInsert, Seed!Runs
    <3>1. reached[q] \in Nat /\ i \in Nat /\ (q # r => reached'[q] = reached[q])
          /\ (q = r => reached'[q] = n /\ reached[q] # 0)
      BY <1>1, <1>4 DEF SeedTypes, Seed!Runs
    <3> QED BY <1>4, <3>1
  <2>2. \A i \in Seed!Rows : count'[i] <= count[i]
    BY <1>1, <1>4 DEF SeedTypes
  <2>3. deletes' \in 0 .. MaxDeletes
    BY <1>4 DEF SeedStarts
  <2> QED BY <1>1, <1>4, <2>1, <2>2, <2>3, FewerMayInsert
<1>5. ASSUME NEW r \in Seeds, Seed!Runs(r), Seed!Advance(r), UNCHANGED <<count, starts, deletes>>
      PROVE  SeedStarts'
  BY <1>4, <1>5 DEF Seed!Advance
<1>6. ASSUME NEW r \in Seeds, Seed!Runs(r), Seed!Exits(r), UNCHANGED <<count, starts, deletes>>
      PROVE  SeedStarts'
  BY <1>4, <1>6 DEF Seed!Exits
<1>7. ASSUME NEW r \in Seeds, Seed!Look(r) PROVE SeedStarts'
  <2>1. Seed!Runs(r) /\ UNCHANGED <<count, starts, deletes>>
    BY <1>7 DEF Seed!Look
  <2>2. CASE reached' = reached
    <3>1. reached' = [reached EXCEPT ![r] = reached[r]]
      BY <1>1, <2>2 DEF SeedTypes
    <3> QED BY <1>4, <2>1, <3>1
  <2>3. CASE Seed!Advance(r)
    BY <1>5, <2>1, <2>3
  <2> QED BY <1>7, <2>2, <2>3 DEF Seed!Look, Seed!Do
<1>8. ASSUME NEW r \in Seeds, Seed!Insert(r) PROVE SeedStarts'
  <2>1. Seed!Runs(r) /\ UNCHANGED <<starts, deletes>>
    BY <1>8 DEF Seed!Insert
  <2>2. CASE Seed!Exits(r) /\ UNCHANGED count
    BY <1>6, <2>1, <2>2
  <2>3. CASE Seed!Advance(r) /\ count' = [count EXCEPT ![reached[r]] = @ + 1]
    <3>1. PICK n \in {0, reached[r] + 1} : reached' = [reached EXCEPT ![r] = n]
      BY <2>3 DEF Seed!Advance
    <3>2. reached[r] \in Seed!Rows
      BY <1>1, <2>1 DEF SeedTypes, Seed!Runs
    <3>3. ASSUME NEW i \in Seed!Rows, i # reached[r]
          PROVE  count'[i] <= count[i] /\ MayInsert(i)' \subseteq MayInsert(i)
      <4>1. count'[i] = count[i] /\ count[i] \in Nat
        BY <1>1, <2>3, <3>2, <3>3 DEF SeedTypes
      <4>2. MayInsert(i)' \subseteq MayInsert(i)
        <5> SUFFICES ASSUME NEW q \in Seeds, reached'[q] # 0, reached'[q] <= i
                     PROVE  reached[q] # 0 /\ reached[q] <= i
          BY DEF MayInsert, Seed!Runs
        <5>1. reached[q] \in Nat /\ i \in Nat /\ (q # r => reached'[q] = reached[q])
              /\ (q = r => reached'[q] = n /\ reached[q] # 0)
          BY <1>1, <2>1, <3>1 DEF SeedTypes, Seed!Runs
        <5> QED BY <3>1, <5>1
      <4> QED BY <4>1, <4>2
    <3>4. ASSUME NEW i \in Seed!Rows, i = reached[r]
          PROVE  /\ count'[i] = count[i] + 1
                 /\ r \in MayInsert(i) /\ MayInsert(i)' \subseteq MayInsert(i) \ {r}
      <4>1. count'[i] = count[i] + 1
        BY <1>1, <2>3, <3>2, <3>4 DEF SeedTypes
      <4>2. r \in MayInsert(i)
        BY <1>1, <2>1, <3>4 DEF MayInsert
      <4>3. MayInsert(i)' \subseteq MayInsert(i) \ {r}
        BY <1>1, <2>1, <3>1, <3>4 DEF MayInsert, Seed!Runs, SeedTypes
      <4> QED BY <4>1, <4>2, <4>3
    <3>5. deletes' \in 0 .. MaxDeletes
      BY <2>1 DEF SeedStarts
    <3> QED BY <1>1, <2>1, <3>3, <3>4, <3>5, FewerMayInsert
  <2> QED BY <1>8, <2>2, <2>3 DEF Seed!Insert
<1>9. ASSUME NEW r \in Seeds, Seed!Raise(r) \/ Seed!Kill(r) PROVE SeedStarts'
  BY <1>5, <1>6, <1>9 DEF Seed!Raise, Seed!Kill
<1>10. ASSUME NEW i \in Seed!Users, Seed!Spend(i) PROVE SeedStarts'
  BY <1>10 DEF Seed!Spend, SeedStarts, MayInsert, Seed!Runs
<1>11. ASSUME NEW i \in Seed!SeedOrders, Seed!Delete(i) PROVE SeedStarts'
  <2>1. /\ deletes < MaxDeletes /\ deletes' = deletes + 1 /\ starts' = starts
        /\ count' = [count EXCEPT ![i] = @ - 1] /\ reached' = reached
    BY <1>11 DEF Seed!Delete
  <2>2. deletes' \in 0 .. MaxDeletes
    BY <2>1 DEF SeedStarts, Seed!BoundsAssumption
  <2>3. \A j \in Seed!Rows : count'[j] <= count[j]
    BY <1>1, <2>1 DEF SeedTypes
  <2>4. \A j \in Seed!Rows : MayInsert(j)' \subseteq MayInsert(j)
    BY <2>1 DEF MayInsert, Seed!Runs
  <2> QED BY <1>1, <2>1, <2>2, <2>3, <2>4, FewerMayInsert
<1> QED BY <1>2, <1>3, <1>7, <1>8, <1>9, <1>10, <1>11 DEF Seed!Next

LEMMA SeedTypeOK ==
  ASSUME Seed!BoundsAssumption, SeedInv, SeedStarts
  PROVE  Seed!TypeOK
<1>1. \A i \in Seed!Rows : count[i] \in 0 .. MaxStarts
  <2> SUFFICES ASSUME NEW i \in Seed!Rows PROVE count[i] \in 0 .. MaxStarts
    OBVIOUS
  <2>1. Cardinality(MayInsert(i)) \in Nat /\ count[i] + Cardinality(MayInsert(i)) <= starts
    BY FS_CardinalityType DEF SeedStarts
  <2>2. count[i] \in Nat /\ starts \in 0 .. MaxStarts
    BY DEF SeedInv, SeedTypes, SeedStarts
  <2> QED BY <2>1, <2>2 DEF Seed!BoundsAssumption
<1>2. count \in [Seed!Rows -> 0 .. MaxStarts]
  BY <1>1 DEF SeedInv, SeedTypes
<1> QED BY <1>2 DEF SeedInv, SeedTypes, SeedStarts, Seed!TypeOK

-----------------------------------------------------------------------------
(* CursorPages: what a walk has been given.                                *)

\* The operators of the libraries are those of CursorPages.
LEMMA PagesOperators ==
  /\ \A S : Pages!Cardinality(S) = Cardinality(S)
  /\ \A S : Pages!Max(S) = Max(S)
<1>1. \A S : Pages!Cardinality(S) = Cardinality(S)
  BY Zenon DEF Pages!Cardinality, Cardinality
<1>2. \A S : Pages!Max(S) = Max(S)
  BY Zenon DEF Pages!Max, Max
<1> QED BY <1>1, <1>2

PagesTypes ==
  /\ next \in 1 .. MaxId + 1 /\ open \subseteq 1 .. next - 1 /\ rows \subseteq 1 .. next - 1
  /\ walk \in [Walkers -> [step : {"start", "paging", "ended"}, limit : Limits, cursor : Nat]]
  /\ page \in [Walkers -> SUBSET Pages!Ids] /\ before \in [Walkers -> SUBSET Pages!Ids]
  /\ old \in [Walkers -> SUBSET Pages!Ids]

\* What walker w has been given lies behind its cursor, and what it has not been
\* given of the old rows lies before it.
WalkOn(w) ==
  /\ walk[w].cursor < next
  /\ IsFiniteSet(page[w]) /\ Cardinality(page[w]) <= walk[w].limit
  /\ old[w] \subseteq rows
  /\ \A i \in before[w], j \in page[w] : i < j
  /\ walk[w].step = "start" => walk[w].cursor = 0 /\ page[w] = {} /\ before[w] = {}
  /\ walk[w].step = "paging" =>
       /\ \A i \in before[w] \cup page[w] : i <= walk[w].cursor
       /\ \A i \in old[w] : i <= walk[w].cursor => i \in before[w] \cup page[w]
  /\ walk[w].step = "ended" => old[w] \subseteq before[w] \cup page[w]

PagesInv == PagesTypes /\ \A w \in Walkers : WalkOn(w)

\* A page: not more rows than asked for, none left out among those given, and
\* none given only when there is none.
LEMMA SliceFacts ==
  ASSUME NEW n \in Nat, rows \subseteq 1 .. n, NEW after \in Nat, NEW limit \in Nat \ {0}
  PROVE  /\ IsFiniteSet(Pages!Slice(after, limit)) /\ Cardinality(Pages!Slice(after, limit)) <= limit
         /\ Pages!Slice(after, limit) \subseteq Pages!After(after)
         /\ \A i \in Pages!Slice(after, limit), j \in Pages!After(after) :
              j <= i => j \in Pages!Slice(after, limit)
         /\ Pages!After(after) # {} => Pages!Slice(after, limit) # {}
<1> DEFINE A == Pages!After(after)
           S == Pages!Slice(after, limit)
           Below(i) == {j \in A : j < i}
<1>1. A \subseteq rows /\ A \subseteq Nat /\ S \subseteq A
  <2>1. A \subseteq rows /\ rows \subseteq Nat
    BY DEF Pages!After
  <2>2. S \subseteq A
    BY DEF Pages!Slice
  <2> QED BY <2>1, <2>2
<1>2. IsFiniteSet(A)
  <2>1. \A i \in A : i <= n
    BY <1>1
  <2> QED BY <1>1, <2>1, FS_BoundedSetOfNaturals
<1>3. /\ IsFiniteSet(S)
      /\ \A i \in A : Below(i) \in SUBSET A /\ IsFiniteSet(Below(i)) /\ Cardinality(Below(i)) \in Nat
  <2>1. \A i \in A : Below(i) \in SUBSET A
    OBVIOUS
  <2>2. \A T \in SUBSET A : IsFiniteSet(T) /\ Cardinality(T) \in Nat
    BY <1>2, FS_Subset, FS_CardinalityType
  <2> QED BY <1>1, <2>1, <2>2
<1>4. S = {i \in A : Cardinality(Below(i)) < limit}
  BY Zenon, PagesOperators DEF Pages!Slice
<1>5. ASSUME NEW i \in S, NEW j \in A, j <= i PROVE j \in S
  <2>1. Below(j) \in SUBSET Below(i)
    BY <1>1, <1>5
  <2>2. Cardinality(Below(j)) <= Cardinality(Below(i))
    BY <1>1, <1>3, <1>5, <2>1, FS_Subset
  <2>3. Cardinality(Below(i)) < limit
    BY <1>4
  <2>4. Cardinality(Below(j)) < limit
    <3>1. Cardinality(Below(i)) \in Nat /\ Cardinality(Below(j)) \in Nat
      BY <1>1, <1>3
    <3> HIDE DEF Below
    <3> QED BY <2>2, <2>3, <3>1
  <2> QED BY <1>4, <2>4
<1>6. A # {} => S # {}
  <2> SUFFICES ASSUME A # {} PROVE S # {}
    OBVIOUS
  <2>1. PICK x \in A : \A y \in A : x <= y
    <3> HIDE DEF A
    <3> QED BY <1>1, <1>2, Extremes
  <2>2. Below(x) = {}
    BY <1>1, <2>1
  <2>3. Cardinality(Below(x)) < limit
    BY <2>2, FS_EmptySet
  <2> QED BY <1>4, <2>3
<1>7. Cardinality(S) <= limit
  <2>1. CASE S = {}
    BY <2>1, FS_EmptySet
  <2>2. CASE S # {}
    <3> DEFINE m == Max(S)
    <3>1. m \in S /\ \A y \in S : y <= m
      <4> HIDE DEF S, A
      <4> QED BY <1>1, <1>3, <2>2, Extremes
    <3> HIDE DEF m
    <3>2. m \in A /\ m \in Nat
      BY <1>1, <3>1
    <3>3. S \in SUBSET (Below(m) \cup {m})
      <4>1. \A y \in S : y \in A /\ (y < m \/ y = m)
        BY <1>1, <3>1, <3>2
      <4> QED BY <4>1
    <3>4. /\ IsFiniteSet(Below(m)) /\ Cardinality(Below(m)) \in Nat
          /\ Cardinality(Below(m)) < limit
      BY <1>3, <1>4, <3>1, <3>2
    <3> HIDE DEF Below, S
    <3>5. /\ IsFiniteSet(Below(m) \cup {m})
          /\ Cardinality(Below(m) \cup {m}) \in Nat
          /\ Cardinality(Below(m) \cup {m}) <= Cardinality(Below(m)) + 1
      <4> DEFINE B == Below(m)
      <4>1. IsFiniteSet(B) /\ Cardinality(B) \in Nat
        BY <3>4
      <4> HIDE DEF B
      <4>2. /\ IsFiniteSet(B \cup {m})
            /\ Cardinality(B \cup {m}) = Cardinality(B) \/ Cardinality(B \cup {m}) = Cardinality(B) + 1
        BY <4>1, FS_AddElement
      <4>3. Cardinality(B \cup {m}) \in Nat /\ Cardinality(B \cup {m}) <= Cardinality(B) + 1
        BY <4>1, <4>2
      <4> QED BY <4>2, <4>3 DEF B
    <3>6. Cardinality(S) <= Cardinality(Below(m) \cup {m}) /\ Cardinality(S) \in Nat
      BY <1>3, <3>3, <3>5, FS_Subset, FS_CardinalityType
    <3> QED BY <3>4, <3>5, <3>6
  <2> QED BY <2>1, <2>2
<1> QED BY <1>1, <1>3, <1>5, <1>6, <1>7

LEMMA PagesInitInv ==
  ASSUME Pages!LimitsAssumption, Pages!IdsAssumption, Pages!Init
  PROVE  PagesInv
<1>1. PagesTypes
  BY DEF Pages!Init, PagesTypes, Pages!IdsAssumption
<1>2. ASSUME NEW w \in Walkers PROVE WalkOn(w)
  <2>1. walk[w].cursor = 0 /\ walk[w].limit \in Nat /\ walk[w].step = "start"
    BY DEF Pages!Init, Pages!LimitsAssumption
  <2> QED BY <2>1, FS_EmptySet DEF Pages!Init, WalkOn
<1> QED BY <1>1, <1>2 DEF PagesInv

\* The writers: rows come and go, ids do not come back.
LEMMA TableInv ==
  ASSUME Pages!IdsAssumption, PagesInv,
         Pages!Insert \/ \E i \in Pages!Ids : Pages!CommitRow(i) \/ Pages!Rollback(i) \/ Pages!Delete(i)
  PROVE  PagesInv'
<1>1. /\ next \in 1 .. MaxId + 1 /\ next \in Nat /\ MaxId \in Nat
      /\ open \subseteq 1 .. next - 1 /\ rows \subseteq 1 .. next - 1
  BY DEF PagesInv, PagesTypes, Pages!IdsAssumption
<1>2. UNCHANGED <<walk, page, before>>
  BY DEF Pages!Insert, Pages!CommitRow, Pages!Rollback, Pages!Delete, Pages!given
<1> DEFINE Numbered == /\ next' \in 1 .. MaxId + 1 /\ next' >= next
                      /\ open' \subseteq 1 .. next' - 1 /\ rows' \subseteq 1 .. next' - 1
           OldKept == /\ old' \in [Walkers -> SUBSET Pages!Ids]
                      /\ \A w \in Walkers : old'[w] \subseteq old[w] /\ old'[w] \subseteq rows'
<1>3. Numbered
  <2>1. CASE Pages!Insert
    BY <1>1, <2>1 DEF Pages!Insert, Pages!Ids
  <2>2. ASSUME NEW i \in Pages!Ids, Pages!CommitRow(i) PROVE Numbered
    BY <1>1, <2>2 DEF Pages!CommitRow
  <2>3. ASSUME NEW i \in Pages!Ids, Pages!Rollback(i) PROVE Numbered
    BY <1>1, <2>3 DEF Pages!Rollback
  <2>4. ASSUME NEW i \in Pages!Ids, Pages!Delete(i) PROVE Numbered
    BY <1>1, <2>4 DEF Pages!Delete
  <2> QED BY <2>1, <2>2, <2>3, <2>4
<1>4. OldKept
  <2>1. old \in [Walkers -> SUBSET Pages!Ids] /\ \A w \in Walkers : old[w] \subseteq rows
    BY DEF PagesInv, PagesTypes, WalkOn
  <2>2. CASE Pages!Insert
    BY <2>1, <2>2 DEF Pages!Insert
  <2>3. ASSUME NEW i \in Pages!Ids, Pages!CommitRow(i) \/ Pages!Rollback(i) PROVE OldKept
    BY <2>1, <2>3 DEF Pages!CommitRow, Pages!Rollback
  <2>4. ASSUME NEW i \in Pages!Ids, Pages!Delete(i) PROVE OldKept
    BY <2>1, <2>4 DEF Pages!Delete
  <2> QED BY <2>2, <2>3, <2>4
<1>5. PagesTypes'
  BY <1>2, <1>3, <1>4 DEF PagesInv, PagesTypes
<1>6. ASSUME NEW w \in Walkers PROVE WalkOn(w)'
  <2>1. WalkOn(w) /\ walk[w].cursor \in Nat
    BY DEF PagesInv, PagesTypes
  <2>2. walk[w].cursor < next'
    BY <1>1, <1>3, <2>1 DEF WalkOn
  <2> QED BY <1>2, <1>4, <2>1, <2>2 DEF WalkOn
<1> QED BY <1>5, <1>6 DEF PagesInv

LEMMA PageInv ==
  ASSUME Pages!LimitsAssumption, Pages!IdsAssumption, PagesInv, NEW w \in Walkers, Pages!Page(w)
  PROVE  PagesInv'
<1> DEFINE c == walk[w].cursor
           n == walk[w].limit
           items == Pages!Slice(c, n)
           cursor == Pages!NextCursor(items)
           to == IF cursor = 0 THEN "ended" ELSE "paging"
<1>1. /\ walk[w].step # "ended"
      /\ page' = [page EXCEPT ![w] = items]
      /\ before' = [before EXCEPT ![w] = before[w] \cup page[w]]
      /\ walk' = [walk EXCEPT ![w] = [step |-> to, limit |-> n, cursor |-> cursor]]
      /\ old' = IF walk[w].step = "start" THEN [old EXCEPT ![w] = rows] ELSE old
      /\ UNCHANGED <<next, open, rows>>
  BY DEF Pages!Page, Pages!table
<1>2. /\ PagesTypes /\ WalkOn(w) /\ c \in Nat /\ n \in Nat \ {0} /\ n \in Limits
      /\ walk[w].step \in {"start", "paging"}
  BY <1>1 DEF PagesInv, PagesTypes, Pages!LimitsAssumption
<1>3. next - 1 \in Nat /\ next \in Nat /\ rows \subseteq 1 .. next - 1 /\ rows \subseteq Pages!Ids
  BY <1>2 DEF PagesTypes, Pages!IdsAssumption, Pages!Ids
<1>3a. \A i \in rows : i \in Nat /\ (i > c \/ i <= c)
  <2>1. \A i \in 1 .. next - 1 : i \in Nat /\ (i > c \/ i <= c)
    BY <1>2, <1>3
  <2> QED BY <1>3, <2>1
<1>3b. 0 < next
  BY <1>2 DEF PagesTypes
<1>4. /\ IsFiniteSet(items) /\ Cardinality(items) <= n /\ items \subseteq Pages!After(c)
      /\ \A i \in items, j \in Pages!After(c) : j <= i => j \in items
      /\ Pages!After(c) # {} => items # {}
  BY <1>2, <1>3, SliceFacts
<1> HIDE DEF items
<1>5. items \subseteq rows /\ \A i \in items : i \in Nat /\ i > c /\ i < next
  <2>1. items \subseteq rows /\ \A i \in items : i > c
    BY <1>4 DEF Pages!After
  <2>2. \A i \in 1 .. next - 1 : i < next
    BY <1>3
  <2> QED BY <1>3, <1>3a, <2>1, <2>2
<1>6. items # {} => Max(items) \in items /\ \A i \in items : i <= Max(items)
  <2>1. items \in SUBSET Nat
    BY <1>5
  <2> QED BY <1>4, <2>1, Extremes
<1>7. \/ cursor = 0 /\ \A i \in rows : i > c => i \in items
      \/ /\ cursor \in items
         /\ \A i \in items : i <= cursor
         /\ \A i \in rows : i > c /\ i <= cursor => i \in items
  <2>1. CASE items = {}
    BY <1>4, <2>1 DEF Pages!NextCursor, Pages!After
  <2>2. CASE items # {} /\ \E i \in rows : i > Max(items)
    <3>1. cursor = Max(items)
      BY <2>2, PagesOperators DEF Pages!NextCursor
    <3> HIDE DEF cursor
    <3> QED BY <1>4, <1>6, <2>2, <3>1 DEF Pages!After
  <2>3. CASE items # {} /\ ~ \E i \in rows : i > Max(items)
    <3>1. cursor = 0
      BY <2>3, PagesOperators DEF Pages!NextCursor
    <3>2. \A i \in rows : i <= Max(items)
      <4>1. Max(items) \in Nat
        BY <1>5, <1>6, <2>3
      <4> HIDE DEF cursor
      <4> QED BY <1>3a, <2>3, <4>1
    <3> HIDE DEF cursor
    <3>3. \A i \in rows : i > c => i \in items
      BY <1>4, <1>6, <2>3, <3>2 DEF Pages!After
    <3> QED BY <3>1, <3>3
  <2> QED BY <2>1, <2>2, <2>3
<1>8. cursor \in Nat /\ cursor < next /\ (to = "ended" <=> cursor = 0)
      /\ (to = "paging" <=> cursor \in items) /\ to \in {"ended", "paging"}
  <2>1. 0 \notin items
    BY <1>2, <1>5
  <2>2. cursor = 0 \/ cursor \in items
    BY <1>7
  <2> HIDE DEF cursor
  <2>3. cursor \in Nat /\ cursor < next
    BY <1>3b, <1>5, <2>2
  <2> QED BY <2>1, <2>2, <2>3
<1> HIDE DEF cursor, to
<1>9. PagesTypes'
  <2>1. items \in SUBSET Pages!Ids /\ before[w] \cup page[w] \in SUBSET Pages!Ids
    BY <1>2, <1>3, <1>5 DEF PagesTypes
  <2>2. [step |-> to, limit |-> n, cursor |-> cursor]
          \in [step : {"start", "paging", "ended"}, limit : Limits, cursor : Nat]
    BY <1>2, <1>8
  <2> QED BY <1>1, <1>2, <1>3, <2>1, <2>2 DEF PagesTypes
<1>10. ASSUME NEW v \in Walkers, v # w PROVE WalkOn(v)'
  <2>1. WalkOn(v)
    BY DEF PagesInv
  <2>2. /\ walk'[v] = walk[v] /\ page'[v] = page[v] /\ before'[v] = before[v] /\ old'[v] = old[v]
        /\ next' = next /\ rows' = rows
    BY <1>1, <1>2, <1>10 DEF PagesTypes
  <2> QED BY <2>1, <2>2 DEF WalkOn
<1>11. WalkOn(w)'
  <2>1. /\ walk'[w].step = to /\ walk'[w].limit = n /\ walk'[w].cursor = cursor
        /\ page'[w] = items /\ before'[w] = before[w] \cup page[w]
        /\ next' = next /\ rows' = rows
    BY <1>1, <1>2 DEF PagesTypes
  <2>2. \A i \in before[w] \cup page[w] : i <= c /\ i \in Nat
    <3>1. \A i \in before[w] \cup page[w] : i \in Nat
      BY <1>2 DEF PagesTypes, Pages!Ids
    <3>2. walk[w].step = "start" => before[w] \cup page[w] = {}
      BY <1>2 DEF WalkOn
    <3> QED BY <1>2, <3>1, <3>2 DEF WalkOn
  <2>3. old'[w] \subseteq rows /\ \A i \in old'[w] : i <= c => i \in before[w] \cup page[w]
    <3>1. CASE walk[w].step = "start"
      <4>1. old'[w] = rows /\ c = 0
        BY <1>1, <1>2, <3>1 DEF PagesTypes, WalkOn
      <4>2. \A i \in 1 .. next - 1 : ~ i <= 0
        BY <1>3
      <4> QED BY <1>3, <4>1, <4>2
    <3>2. CASE walk[w].step = "paging"
      BY <1>1, <1>2, <3>2 DEF WalkOn
    <3> QED BY <1>2, <3>1, <3>2
  <2>4. \A i \in before'[w], j \in page'[w] : i < j
    BY <1>2, <1>5, <2>1, <2>2
  <2>5. to = "paging" => /\ \A i \in before'[w] \cup page'[w] : i <= cursor
                         /\ \A i \in old'[w] : i <= cursor => i \in before'[w] \cup page'[w]
    <3> SUFFICES ASSUME to = "paging"
                 PROVE  /\ \A i \in before'[w] \cup page'[w] : i <= cursor
                        /\ \A i \in old'[w] : i <= cursor => i \in before'[w] \cup page'[w]
      OBVIOUS
    <3>1. cursor \in items /\ cursor # 0 /\ cursor > c
      BY <1>5, <1>8
    <3>2. \A i \in items : i <= cursor
      BY <1>7, <3>1
    <3>3. \A i \in rows : i <= cursor /\ i > c => i \in items
      BY <1>7, <3>1
    <3>4. \A i \in before[w] \cup page[w] : i <= cursor
      BY <1>2, <1>8, <2>2, <3>1
    <3>5. \A i \in old'[w] : i \in rows /\ i \in Nat /\ (i > c \/ i <= c)
      BY <1>3a, <2>3
    <3> QED BY <2>1, <2>3, <3>2, <3>3, <3>4, <3>5
  <2>6. to = "ended" => old'[w] \subseteq before'[w] \cup page'[w]
    <3> SUFFICES ASSUME to = "ended", NEW i \in old'[w] PROVE i \in before'[w] \cup page'[w]
      OBVIOUS
    <3>1. i \in rows /\ i \in Nat /\ (i > c \/ i <= c)
      BY <1>3a, <2>3
    <3>2. i > c => i \in items
      <4>1. cursor = 0 /\ cursor \notin items
        BY <1>8
      <4> QED BY <1>7, <3>1, <4>1
    <3> QED BY <2>1, <2>3, <3>1, <3>2
  <2> QED BY <1>4, <1>8, <2>1, <2>3, <2>4, <2>5, <2>6 DEF WalkOn
<1> QED BY <1>9, <1>10, <1>11 DEF PagesInv

LEMMA PagesNextInv ==
  ASSUME Pages!LimitsAssumption, Pages!IdsAssumption, PagesInv, [Pages!Next]_Pages!vars
  PROVE  PagesInv'
<1>1. CASE UNCHANGED Pages!vars
  BY <1>1 DEF Pages!vars, Pages!table, Pages!given, PagesInv, PagesTypes, WalkOn
<1> QED BY <1>1, TableInv, PageInv DEF Pages!Next

LEMMA PagesTypeOK ==
  ASSUME Pages!IdsAssumption, PagesInv
  PROVE  Pages!TypeOK
<1>1. open \subseteq Pages!Ids /\ rows \subseteq Pages!Ids /\ next \in Nat
  BY DEF PagesInv, PagesTypes, Pages!IdsAssumption, Pages!Ids
<1>2. \A w \in Walkers :
        walk[w] \in [step : {"start", "paging", "ended"}, limit : Limits, cursor : 0 .. next - 1]
  <2> SUFFICES ASSUME NEW w \in Walkers
               PROVE  walk[w] \in [step : {"start", "paging", "ended"}, limit : Limits,
                                   cursor : 0 .. next - 1]
    OBVIOUS
  <2>1. walk[w] \in [step : {"start", "paging", "ended"}, limit : Limits, cursor : Nat]
    BY DEF PagesInv, PagesTypes
  <2>2. walk[w].cursor \in 0 .. next - 1
    BY <1>1, <2>1 DEF PagesInv, WalkOn
  <2> QED BY <2>1, <2>2
<1>3. \A w \in Walkers : page[w] \in {S \in SUBSET Pages!Ids : \E n \in Limits : Cardinality(S) <= n}
  BY DEF PagesInv, PagesTypes, WalkOn
<1> QED BY <1>1, <1>2, <1>3, PagesOperators DEF PagesInv, PagesTypes, Pages!TypeOK

LEMMA PagesWalkSees ==
  ASSUME PagesInv
  PROVE  Pages!WalkSeesEachOnce
BY DEF PagesInv, WalkOn, Pages!WalkSeesEachOnce

-----------------------------------------------------------------------------
(* Demos: the programs run one after another over what the others left.    *)

Unkeyed == Demo!Named \cup {"demo:dlq"}
Placing == {"demo:outbox", "demo:crash-relay"}

\* How many steps the script of p has.
ScriptLength(p) == IF p \in {"demo:publish", "demo:dlq"} THEN 7 ELSE IF p \in Placing THEN 13 ELSE 9

\* Which step of its script a program is at.
StepIs(p, s, n) ==
  /\ s = "delete-deliveries" => n = 1
  /\ s = "delete-effects" => n = 2
  /\ s = "delete-processed" => n = 3 /\ p \in Demo!Keyed
  /\ s = "delete-outbox" => n = 4 /\ p \in Demo!Keyed
  /\ s = "delete-key" => n = 5 /\ p \in Demo!Keyed
  /\ s = "drop" => (p \in Demo!Keyed => n = 6) /\ (p \notin Demo!Keyed => n = 3)
  /\ s = "declare" => (p \in Demo!Keyed => n = 7) /\ (p \notin Demo!Keyed => n = 4)
  /\ s = "send" => n = 5 /\ p \in Unkeyed
  /\ s = "order" => p \in Placing /\ (n = 8 \/ (n = 9 /\ p = "demo:outbox"))
  /\ s = "relay" => p \in Placing /\ n = 10
  /\ s = "mark" => p \in Placing /\ n = 11
  /\ s = "crash" => p = "demo:crash-relay" /\ n = 9
  /\ s = "write-failed" => p = "demo:crash-write" /\ n = 8
  /\ s = "child" => p = "demo:duplicate" /\ n = 6
  /\ s = "kill" => p = "demo:duplicate" /\ n = 7
  /\ s = "consume" => n = ScriptLength(p) - 1 /\ p # "demo:crash-write"
  /\ s = "count" <=> n = ScriptLength(p)

LEMMA StepsOfScripts ==
  ASSUME NEW p \in Demo!Programs
  PROVE  /\ DOMAIN Demo!Script[p] = 1 .. ScriptLength(p) /\ ScriptLength(p) \in {7, 9, 13}
         /\ \A n \in 1 .. ScriptLength(p) : StepIs(p, Demo!Script[p][n], n)
<1>1. CASE p \in {"demo:publish", "demo:dlq"}
  <2>1. ScriptLength(p) = 7
    BY <1>1 DEF ScriptLength, Placing
  <2>2. Demo!Script[p] = Demo!SendAndCount
    BY <1>1, Zenon DEF Demo!Script, Demo!Programs, Demo!Keyed, Demo!Named
  <2>3. /\ DOMAIN Demo!SendAndCount = 1 .. 7
        /\ Demo!SendAndCount[1] = "delete-deliveries" /\ Demo!SendAndCount[2] = "delete-effects"
        /\ Demo!SendAndCount[3] = "drop" /\ Demo!SendAndCount[4] = "declare"
        /\ Demo!SendAndCount[5] = "send" /\ Demo!SendAndCount[6] = "consume"
        /\ Demo!SendAndCount[7] = "count"
    BY DEF Demo!SendAndCount, Demo!Opening
  <2>4. \A n \in 1 .. 7 : n \in {1, 2, 3, 4, 5, 6, 7}
    OBVIOUS
  <2>5. DOMAIN Demo!Script[p] = 1 .. 7
    BY <2>2, <2>3
  <2>6. \A n \in 1 .. 7 : StepIs(p, Demo!Script[p][n], n)
    BY <1>1, <2>1, <2>2, <2>3, <2>4 DEF StepIs, Demo!Keyed, Unkeyed, Demo!Named, Placing
  <2> QED BY <2>1, <2>5, <2>6
<1>2. CASE p = "demo:duplicate"
  <2>1. ScriptLength(p) = 9
    BY <1>2 DEF ScriptLength, Placing
  <2>2. Demo!Script[p] = Demo!Duplicate
    BY <1>2, Zenon DEF Demo!Script, Demo!Programs, Demo!Keyed, Demo!Named
  <2>3. /\ DOMAIN Demo!Duplicate = 1 .. 9
        /\ Demo!Duplicate[1] = "delete-deliveries" /\ Demo!Duplicate[2] = "delete-effects"
        /\ Demo!Duplicate[3] = "drop" /\ Demo!Duplicate[4] = "declare" /\ Demo!Duplicate[5] = "send"
        /\ Demo!Duplicate[6] = "child" /\ Demo!Duplicate[7] = "kill" /\ Demo!Duplicate[8] = "consume"
        /\ Demo!Duplicate[9] = "count"
    BY DEF Demo!Duplicate, Demo!Opening
  <2>4. \A n \in 1 .. 9 : n \in {1, 2, 3, 4, 5, 6, 7, 8, 9}
    OBVIOUS
  <2>5. DOMAIN Demo!Script[p] = 1 .. 9
    BY <2>2, <2>3
  <2>6. \A n \in 1 .. 9 : StepIs(p, Demo!Script[p][n], n)
    BY <1>2, <2>1, <2>2, <2>3, <2>4 DEF StepIs, Demo!Keyed, Unkeyed, Demo!Named, Placing
  <2> QED BY <2>1, <2>5, <2>6
<1>3. CASE p = "demo:outbox"
  <2>1. ScriptLength(p) = 13
    BY <1>3 DEF ScriptLength, Placing
  <2>2. Demo!Script[p] = Demo!Outbox
    BY <1>3, Zenon DEF Demo!Script, Demo!Programs, Demo!Keyed, Demo!Named
  <2>3. /\ DOMAIN Demo!Outbox = 1 .. 13
        /\ Demo!Outbox[1] = "delete-deliveries" /\ Demo!Outbox[2] = "delete-effects"
        /\ Demo!Outbox[3] = "delete-processed" /\ Demo!Outbox[4] = "delete-outbox"
        /\ Demo!Outbox[5] = "delete-key" /\ Demo!Outbox[6] = "drop" /\ Demo!Outbox[7] = "declare"
        /\ Demo!Outbox[8] = "order" /\ Demo!Outbox[9] = "order" /\ Demo!Outbox[10] = "relay"
        /\ Demo!Outbox[11] = "mark" /\ Demo!Outbox[12] = "consume" /\ Demo!Outbox[13] = "count"
    BY DEF Demo!Outbox, Demo!Preparing
  <2>4. \A n \in 1 .. 13 : n \in {1, 2, 3, 4, 5, 6, 7, 8, 9, 10, 11, 12, 13}
    OBVIOUS
  <2>5. DOMAIN Demo!Script[p] = 1 .. 13
    BY <2>2, <2>3
  <2>6. \A n \in 1 .. 13 : StepIs(p, Demo!Script[p][n], n)
    BY <1>3, <2>1, <2>2, <2>3, <2>4 DEF StepIs, Demo!Keyed, Unkeyed, Demo!Named, Placing
  <2> QED BY <2>1, <2>5, <2>6
<1>4. CASE p = "demo:crash-relay"
  <2>1. ScriptLength(p) = 13
    BY <1>4 DEF ScriptLength, Placing
  <2>2. Demo!Script[p] = Demo!CrashRelay
    BY <1>4, Zenon DEF Demo!Script, Demo!Programs, Demo!Keyed, Demo!Named
  <2>3. /\ DOMAIN Demo!CrashRelay = 1 .. 13
        /\ Demo!CrashRelay[1] = "delete-deliveries" /\ Demo!CrashRelay[2] = "delete-effects"
        /\ Demo!CrashRelay[3] = "delete-processed" /\ Demo!CrashRelay[4] = "delete-outbox"
        /\ Demo!CrashRelay[5] = "delete-key" /\ Demo!CrashRelay[6] = "drop"
        /\ Demo!CrashRelay[7] = "declare" /\ Demo!CrashRelay[8] = "order" /\ Demo!CrashRelay[9] = "crash"
        /\ Demo!CrashRelay[10] = "relay" /\ Demo!CrashRelay[11] = "mark"
        /\ Demo!CrashRelay[12] = "consume" /\ Demo!CrashRelay[13] = "count"
    BY DEF Demo!CrashRelay, Demo!Preparing
  <2>4. \A n \in 1 .. 13 : n \in {1, 2, 3, 4, 5, 6, 7, 8, 9, 10, 11, 12, 13}
    OBVIOUS
  <2>5. DOMAIN Demo!Script[p] = 1 .. 13
    BY <2>2, <2>3
  <2>6. \A n \in 1 .. 13 : StepIs(p, Demo!Script[p][n], n)
    BY <1>4, <2>1, <2>2, <2>3, <2>4 DEF StepIs, Demo!Keyed, Unkeyed, Demo!Named, Placing
  <2> QED BY <2>1, <2>5, <2>6
<1>5. CASE p = "demo:crash-write"
  <2>1. ScriptLength(p) = 9
    BY <1>5 DEF ScriptLength, Placing
  <2>2. Demo!Script[p] = Demo!CrashWrite
    BY <1>5, Zenon DEF Demo!Script, Demo!Programs, Demo!Keyed, Demo!Named
  <2>3. /\ DOMAIN Demo!CrashWrite = 1 .. 9
        /\ Demo!CrashWrite[1] = "delete-deliveries" /\ Demo!CrashWrite[2] = "delete-effects"
        /\ Demo!CrashWrite[3] = "delete-processed" /\ Demo!CrashWrite[4] = "delete-outbox"
        /\ Demo!CrashWrite[5] = "delete-key" /\ Demo!CrashWrite[6] = "drop"
        /\ Demo!CrashWrite[7] = "declare" /\ Demo!CrashWrite[8] = "write-failed"
        /\ Demo!CrashWrite[9] = "count"
    BY DEF Demo!CrashWrite, Demo!Preparing
  <2>4. \A n \in 1 .. 9 : n \in {1, 2, 3, 4, 5, 6, 7, 8, 9}
    OBVIOUS
  <2>5. DOMAIN Demo!Script[p] = 1 .. 9
    BY <2>2, <2>3
  <2>6. \A n \in 1 .. 9 : StepIs(p, Demo!Script[p][n], n)
    BY <1>5, <2>1, <2>2, <2>3, <2>4 DEF StepIs, Demo!Keyed, Unkeyed, Demo!Named, Placing
  <2> QED BY <2>1, <2>5, <2>6
<1> QED BY <1>1, <1>2, <1>3, <1>4, <1>5 DEF Demo!Programs, Demo!Keyed, Demo!Named

\* The event a program sends.
Own == IF demo.name = "demo:dlq" THEN Demo!Poison
       ELSE IF demo.name \in Demo!Keyed THEN owned[demo.name] ELSE demo.name

Inboxes ==
  [deliveries : [Demo!Events -> 0 .. 2], effects : SUBSET Demo!Events, processed : SUBSET Demo!Events]
Brokers == [up : BOOLEAN, work : Seq(Demo!Events \cup {Demo!Poison}), dlq : 0 .. 1]
DemoStates ==
  [name : Demo!Programs \cup {None}, step : Nat, published : Nat, settled : Nat,
   verdict : {"none", "ok", "failed", "cut"}, marked : BOOLEAN]

DemoTypes ==
  /\ owned \in [Demo!Keyed -> Orders \cup {None}]
  /\ outbox \in [Orders -> {"none", "waiting", "published"}]
  /\ inbox \in Inboxes
  /\ broker \in Brokers
  /\ held \in Seq(Demo!Events \cup {Demo!Poison}) /\ Len(held) <= 1
  /\ demo \in DemoStates
  /\ demo.name \in Demo!Programs => demo.step \in 1 .. ScriptLength(demo.name) /\ demo.verdict = "none"
  /\ demo.name = None => held = <<>>
  /\ demo.verdict = "failed" => demo.marked
  /\ placed \in SUBSET Orders /\ programs \in 0 .. MaxPrograms

\* An order has no rows before it is placed.
Fresh ==
  /\ \A k \in Demo!Keyed : owned[k] \in placed \cup {None}
  /\ \A o \in Orders \ placed : /\ outbox[o] = "none" /\ inbox.deliveries[o] = 0
                                /\ o \notin inbox.effects /\ o \notin inbox.processed

\* While a program cleans up nothing is under way, and what it has deleted is gone.
Cleaning ==
  /\ held = <<>> /\ demo.settled = 0 /\ demo.published = 0
  /\ demo.name \in Demo!Named /\ demo.name \in inbox.processed => demo.marked
  /\ demo.name \in Unkeyed /\ demo.step \in {2, 3} => \A e \in Demo!Named : inbox.deliveries[e] = 0
  /\ demo.name \in Unkeyed /\ demo.step = 3 => inbox.effects \cap Demo!Named = {}
  /\ demo.name \in Demo!Keyed /\ demo.step >= 6 => owned[demo.name] = None
  /\ demo.name \in Demo!Keyed /\ demo.step \in {7, 8} => broker.work = <<>> /\ broker.dlq = 0

\* The event e was sent so many times, and it had been delivered that often before that:
\* the queue has what is neither settled nor held, and nothing else.
Awaits(e, copies, prior) ==
  /\ broker.work \in Seq({e}) /\ held \in Seq({e})
  /\ Len(broker.work) + Len(held) + demo.settled = copies
  /\ e = Demo!Poison => broker.dlq = demo.settled /\ inbox.effects \cap Demo!Named = {}
  /\ e # Demo!Poison =>
       /\ e \in Demo!Events /\ broker.dlq = 0
       /\ inbox.deliveries[e] + Len(broker.work) = prior + copies
       /\ inbox.deliveries[e] = 0 /\ e \in inbox.processed => demo.marked
       /\ inbox.deliveries[e] # 0 => e \in inbox.processed /\ (e \in inbox.effects \/ demo.marked)

Sending ==
  /\ demo.step \in {4, 5} => Awaits(Own, 0, 0)
  /\ demo.step \in {6, 7} => Awaits(Own, 1, 0)
  /\ demo.name = "demo:duplicate" =>
       /\ demo.step \in {6, 7} => demo.settled = 0
       /\ demo.step = 7 => held # <<>>
       /\ demo.step >= 8 => Awaits(Own, 1, 1)

Relaying ==
  LET o == owned[demo.name]
  IN /\ o \in placed
     /\ demo.step = 9 \/ (demo.step = 10 /\ demo.name = "demo:outbox") =>
          Awaits(o, 0, 0) /\ outbox[o] = "waiting" /\ demo.published = 0
     /\ demo.step = 10 /\ demo.name = "demo:crash-relay" =>
          /\ Awaits(o, 1, 0) /\ outbox[o] = "waiting" /\ demo.published = 1
          /\ demo.settled = 0 /\ held = <<>>
     /\ demo.step >= 11 /\ demo.name = "demo:outbox" =>
          Awaits(o, 1, 0) /\ outbox[o] # "none" /\ demo.published = 1
     /\ demo.step >= 11 /\ demo.name = "demo:crash-relay" =>
          Awaits(o, 2, 0) /\ demo.published = 2

\* Before the counts, everything was consumed.
Counting == demo.step = ScriptLength(demo.name) => held = <<>> /\ demo.settled = Demo!StopAfter

DemoInv ==
  /\ DemoTypes /\ Fresh
  /\ demo.name \in Unkeyed /\ demo.step <= 3 => Cleaning
  /\ demo.name \in Demo!Keyed /\ (demo.step <= 8 \/ demo.name = "demo:crash-write") => Cleaning
  /\ demo.name \in Unkeyed /\ demo.step >= 4 => Sending
  /\ demo.name \in Placing /\ demo.step >= 9 => Relaying
  /\ demo.name \in Unkeyed \cup Placing => Counting

-----------------------------------------------------------------------------
LEMMA DemosOperators ==
  \A S : Demo!Cardinality(S) = Cardinality(S)
BY Zenon DEF Demo!Cardinality, Cardinality

USE DEF Inboxes, Brokers, DemoStates

LEMMA AtStep ==
  ASSUME Demo!NamesAssumption, DemoTypes, NEW s, Demo!At(s)
  PROVE  /\ demo.name \in Demo!Programs /\ demo.step \in 1 .. ScriptLength(demo.name)
         /\ demo.verdict = "none" /\ ScriptLength(demo.name) \in {7, 9, 13}
         /\ StepIs(demo.name, s, demo.step)
<1>1. demo.name \in Demo!Programs
  BY DEF Demo!At, DemoTypes
<1> QED BY <1>1, StepsOfScripts DEF Demo!At, DemoTypes

\* A step that only goes on to the next one.
LEMMA ContinuesFacts ==
  ASSUME Demo!NamesAssumption, DemoTypes, NEW s, Demo!At(s), s # "count", Demo!Continues
  PROVE  /\ demo'.name = demo.name /\ demo'.step = demo.step + 1
         /\ demo'.published = demo.published /\ demo'.settled = demo.settled
         /\ demo'.verdict = "none" /\ demo'.marked = demo.marked
         /\ demo' \in DemoStates
         /\ demo'.step \in 1 .. ScriptLength(demo.name)
<1>1. demo.step # ScriptLength(demo.name) /\ demo.step \in 1 .. ScriptLength(demo.name)
      /\ ScriptLength(demo.name) \in {7, 9, 13} /\ demo.verdict = "none"
  BY AtStep DEF StepIs
<1>2. demo' = [demo EXCEPT !.step = demo.step + 1]
  BY DEF Demo!Continues, Demo!Goes
<1>3. demo \in DemoStates
  BY DEF DemoTypes
<1> QED BY <1>1, <1>2, <1>3

\* The types, after such a step.
LEMMA ContinuesTypes ==
  ASSUME Demo!NamesAssumption, DemoTypes, NEW s, Demo!At(s), s # "count", Demo!Continues,
         owned' \in [Demo!Keyed -> Orders \cup {None}],
         outbox' \in [Orders -> {"none", "waiting", "published"}],
         inbox' \in Inboxes,
         broker' \in Brokers,
         held' \in Seq(Demo!Events \cup {Demo!Poison}), Len(held') <= 1,
         placed' \in SUBSET Orders, programs' = programs
  PROVE  DemoTypes'
<1>1. demo.name \in Demo!Programs /\ None \notin Demo!Programs
  BY AtStep DEF Demo!NamesAssumption
<1> QED BY <1>1, ContinuesFacts DEF DemoTypes

LEMMA StillCleaning ==
  ASSUME Demo!NamesAssumption, DemoTypes, DemoTypes', Fresh', Cleaning', demo'.name \in Demo!Programs,
         demo'.name \in Unkeyed => demo'.step <= 3,
         demo'.name \in Demo!Keyed => demo'.step <= 8 \/ demo'.name = "demo:crash-write"
  PROVE  DemoInv'
<1>1. demo'.step \in Nat
  BY DEF DemoTypes
<1>2. demo'.name \in Unkeyed \cup Placing => ScriptLength(demo'.name) > demo'.step
  BY <1>1 DEF ScriptLength, Unkeyed, Placing, Demo!Keyed, Demo!Named
<1>3. Counting' \/ ~ (demo'.name \in Unkeyed \cup Placing)
  BY <1>1, <1>2 DEF Counting
<1>4. ~ (demo'.name \in Unkeyed /\ demo'.step >= 4)
  BY <1>1
<1>5. ~ (demo'.name \in Placing /\ demo'.step >= 9)
  BY <1>1 DEF Placing, Demo!Keyed
<1> QED BY <1>3, <1>4, <1>5 DEF DemoInv

LEMMA DeleteInboxInv ==
  ASSUME Demo!NamesAssumption, DemoInv, Demo!DeleteInbox
  PROVE  DemoInv'
<1> USE DEF DemoInv
<1>1. PICK s \in {"delete-deliveries", "delete-effects", "delete-processed"} : Demo!At(s)
  BY DEF Demo!DeleteInbox
<1>2. s # "count" /\ Demo!Continues /\ UNCHANGED <<owned, outbox, broker, held, placed, programs>>
  BY DEF Demo!DeleteInbox
<1>3. /\ demo.name \in Demo!Programs /\ StepIs(demo.name, s, demo.step) /\ demo.step \in 1 .. 3
      /\ s = "delete-processed" => demo.name \in Demo!Keyed
  BY <1>1, AtStep DEF StepIs
<1>4. Cleaning
  BY <1>3 DEF Demo!Programs, Unkeyed
<1>5. /\ demo'.name = demo.name /\ demo'.step = demo.step + 1
      /\ demo'.published = demo.published /\ demo'.settled = demo.settled
      /\ demo'.marked = demo.marked
  BY <1>1, <1>2, ContinuesFacts
<1>6. /\ inbox \in Inboxes
      /\ inbox' \in Inboxes
      /\ \A e \in Demo!Events : inbox'.deliveries[e] \in {0, inbox.deliveries[e]}
      /\ inbox'.effects \subseteq inbox.effects /\ inbox'.processed \subseteq inbox.processed
  BY DEF Demo!DeleteInbox, DemoTypes
<1>7. DemoTypes'
  BY <1>1, <1>2, <1>6, ContinuesTypes DEF DemoTypes
<1>8. Fresh'
  BY <1>2, <1>6 DEF Fresh, DemoTypes, Demo!Events
<1>9. Cleaning'
  <2>1. demo.name \in Unkeyed => Demo!Mine = Demo!Named /\ demo.name \notin Demo!Keyed
    BY DEF Demo!Mine, Unkeyed, Demo!Named, Demo!Keyed
  <2>2. demo.name \in Unkeyed /\ demo'.step = 2 => \A e \in Demo!Named : inbox'.deliveries[e] = 0
    BY <1>1, <1>3, <1>5, <2>1, AtStep DEF Demo!DeleteInbox, StepIs, DemoTypes, Demo!Events
  <2>3. demo.name \in Unkeyed /\ demo'.step = 3
          => inbox'.effects \cap Demo!Named = {} /\ \A e \in Demo!Named : inbox'.deliveries[e] = 0
    <3> SUFFICES ASSUME demo.name \in Unkeyed, demo'.step = 3
                 PROVE  inbox'.effects \cap Demo!Named = {} /\ \A e \in Demo!Named : inbox'.deliveries[e] = 0
      OBVIOUS
    <3>1. demo.step = 2 /\ \A e \in Demo!Named : inbox.deliveries[e] = 0
      BY <1>3, <1>4, <1>5 DEF Cleaning
    <3>2. ~ Demo!At("delete-deliveries") /\ ~ Demo!At("delete-processed")
      BY <2>1, <3>1, AtStep DEF StepIs
    <3>3. inbox' = [inbox EXCEPT !.effects = @ \ Demo!Named]
      BY <2>1, <3>2 DEF Demo!DeleteInbox
    <3> QED BY <1>6, <3>1, <3>3
  <2>4. demo.name \in Unkeyed => demo'.step <= 3
    BY <1>3, <1>5, <2>1 DEF StepIs
  <2>5. demo'.step <= 4
    BY <1>3, <1>5
  <2> QED BY <1>2, <1>3, <1>4, <1>5, <1>6, <2>2, <2>3, <2>4, <2>5 DEF Cleaning
<1>10. (demo.name \in Unkeyed => demo'.step <= 3) /\ demo'.step <= 4
  BY <1>3, <1>5 DEF StepIs, Unkeyed, Demo!Keyed, Demo!Named
<1> QED BY <1>3, <1>5, <1>7, <1>8, <1>9, <1>10, StillCleaning

LEMMA DeleteRowsInv ==
  ASSUME Demo!NamesAssumption, DemoInv, Demo!DeleteOutbox \/ Demo!DeleteKey
  PROVE  DemoInv'
<1> USE DEF DemoInv
<1>1. PICK s \in {"delete-outbox", "delete-key"} : Demo!At(s)
  BY DEF Demo!DeleteOutbox, Demo!DeleteKey
<1>2. s # "count" /\ Demo!Continues /\ UNCHANGED <<inbox, broker, held, placed, programs>>
  BY DEF Demo!DeleteOutbox, Demo!DeleteKey
<1>3. /\ demo.name \in Demo!Keyed /\ demo.step \in {4, 5} /\ demo.name \notin Unkeyed
      /\ demo.step = 5 <=> s = "delete-key"
  BY <1>1, AtStep DEF StepIs, Demo!Keyed, Unkeyed, Demo!Named
<1>4. Cleaning
  BY <1>3
<1>5. /\ demo'.name = demo.name /\ demo'.step = demo.step + 1
      /\ demo'.published = demo.published /\ demo'.settled = demo.settled
      /\ demo'.marked = demo.marked
  BY <1>1, <1>2, ContinuesFacts
<1>6. /\ owned' \in [Demo!Keyed -> Orders \cup {None}]
      /\ outbox' \in [Orders -> {"none", "waiting", "published"}]
      /\ \A o \in Orders : outbox'[o] \in {"none", outbox[o]}
      /\ \A k \in Demo!Keyed : owned'[k] \in {None, owned[k]}
  BY DEF Demo!DeleteOutbox, Demo!DeleteKey, DemoTypes
<1>7. DemoTypes'
  BY <1>1, <1>2, <1>6, ContinuesTypes DEF DemoTypes
<1>8. Fresh'
  BY <1>2, <1>6 DEF Fresh, DemoTypes
<1>9. Cleaning'
  <2>1. s = "delete-key" => owned'[demo.name] = None
    <3> SUFFICES ASSUME s = "delete-key" PROVE owned'[demo.name] = None
      OBVIOUS
    <3>1. ~ Demo!At("delete-outbox")
      BY <1>3, AtStep DEF StepIs
    <3> QED BY <1>3, <3>1 DEF Demo!DeleteOutbox, Demo!DeleteKey, DemoTypes
  <2> QED BY <1>2, <1>3, <1>4, <1>5, <2>1 DEF Cleaning, Unkeyed, Demo!Keyed, Demo!Named
<1> QED BY <1>3, <1>5, <1>7, <1>8, <1>9, AtStep, <1>1, StillCleaning

\* Nothing was sent yet.
LEMMA NothingSent ==
  ASSUME NEW e, broker.work = <<>>, broker.dlq = 0, held = <<>>, demo.settled = 0,
         e = Demo!Poison => inbox.effects \cap Demo!Named = {},
         e # Demo!Poison => e \in Demo!Events /\ inbox.deliveries[e] = 0,
         e # Demo!Poison => (e \in inbox.processed => demo.marked)
  PROVE  Awaits(e, 0, 0)
<1>1. <<>> \in Seq({e}) /\ Len(<<>>) = 0
  OBVIOUS
<1>2. broker.work \in Seq({e}) /\ held \in Seq({e})
  BY <1>1
<1>3. Len(broker.work) + Len(held) + demo.settled = 0
  BY <1>1
<1>4. e = Demo!Poison => broker.dlq = demo.settled /\ inbox.effects \cap Demo!Named = {}
  OBVIOUS
<1>5. ASSUME e # Demo!Poison
      PROVE  /\ e \in Demo!Events /\ broker.dlq = 0
             /\ inbox.deliveries[e] + Len(broker.work) = 0 + 0
             /\ inbox.deliveries[e] = 0 /\ e \in inbox.processed => demo.marked
             /\ inbox.deliveries[e] # 0 => e \in inbox.processed /\ (e \in inbox.effects \/ demo.marked)
  <2>1. e \in Demo!Events /\ inbox.deliveries[e] = 0 /\ (e \in inbox.processed => demo.marked)
    BY <1>5
  <2>2. inbox.deliveries[e] + Len(broker.work) = 0 + 0
    BY <1>1, <2>1
  <2> QED BY <2>1, <2>2
<1> QED BY <1>2, <1>3, <1>4, <1>5 DEF Awaits

LEMMA DropInv ==
  ASSUME Demo!NamesAssumption, DemoInv, Demo!Drop
  PROVE  DemoInv'
<1> USE DEF DemoInv
<1>1. /\ Demo!At("drop") /\ Demo!Continues /\ broker' = [up |-> FALSE, work |-> <<>>, dlq |-> 0]
      /\ UNCHANGED <<owned, outbox, inbox, held, placed, programs>>
  BY DEF Demo!Drop
<1>2. /\ demo.name \in Demo!Programs
      /\ demo.name \in Demo!Keyed => demo.step = 6
      /\ demo.name \notin Demo!Keyed => demo.step = 3
  BY <1>1, AtStep DEF StepIs
<1>3. Cleaning
  BY <1>2 DEF Demo!Programs, Unkeyed
<1>4. /\ demo'.name = demo.name /\ demo'.step = demo.step + 1
      /\ demo'.published = demo.published /\ demo'.settled = demo.settled
      /\ demo'.marked = demo.marked
  BY <1>1, ContinuesFacts
<1>5. DemoTypes'
  <2>1. broker' \in Brokers
    <3>1. <<>> \in Seq(Demo!Events \cup {Demo!Poison})
      OBVIOUS
    <3> QED BY <1>1, <3>1
  <2> QED BY <1>1, <2>1, ContinuesTypes DEF DemoTypes
<1>6. Fresh'
  BY <1>1 DEF Fresh
<1>7. CASE demo.name \in Demo!Keyed
  <2>1. demo.name \notin Unkeyed
    BY <1>7 DEF Demo!Keyed, Unkeyed, Demo!Named
  <2>2. Cleaning'
    BY <1>1, <1>2, <1>3, <1>4, <1>7, <2>1 DEF Cleaning, Unkeyed
  <2> QED BY <1>2, <1>4, <1>5, <1>6, <1>7, <2>1, <2>2, StillCleaning
<1>8. CASE demo.name \notin Demo!Keyed
  <2>1. demo.name \in Unkeyed /\ demo.step = 3 /\ demo.name \notin Placing
    BY <1>2, <1>8 DEF Demo!Programs, Unkeyed, Placing, Demo!Keyed
  <2>2. Own' \in Demo!Named \cup {Demo!Poison} /\ (Own' # Demo!Poison => Own' = demo.name)
    BY <1>4, <1>8, <2>1 DEF Own, Unkeyed
  <2>3. Awaits(Own, 0, 0)'
    BY <1>1, <1>3, <1>4, <2>1, <2>2 DEF Cleaning, Awaits, Demo!Events
  <2>4. Sending'
    BY <1>4, <2>1, <2>3 DEF Sending
  <2>5. Counting'
    BY <1>4, <2>1 DEF Counting, ScriptLength
  <2> QED BY <1>4, <1>5, <1>6, <1>8, <2>1, <2>4, <2>5
<1> QED BY <1>7, <1>8

LEMMA DeclareInv ==
  ASSUME Demo!NamesAssumption, DemoInv, Demo!Declare
  PROVE  DemoInv'
<1> USE DEF DemoInv
<1>1. /\ Demo!At("declare") /\ Demo!Continues /\ broker' = [broker EXCEPT !.up = TRUE]
      /\ UNCHANGED <<owned, outbox, inbox, held, placed, programs>>
  BY DEF Demo!Declare
<1>2. /\ demo.name \in Demo!Programs
      /\ demo.name \in Demo!Keyed => demo.step = 7
      /\ demo.name \notin Demo!Keyed => demo.step = 4
  BY <1>1, AtStep DEF StepIs
<1>3. /\ demo'.name = demo.name /\ demo'.step = demo.step + 1
      /\ demo'.published = demo.published /\ demo'.settled = demo.settled
      /\ demo'.marked = demo.marked
  BY <1>1, ContinuesFacts
<1>4. /\ broker' \in Brokers
      /\ broker'.work = broker.work /\ broker'.dlq = broker.dlq
  BY <1>1 DEF DemoTypes
<1>5. DemoTypes'
  BY <1>1, <1>4, ContinuesTypes DEF DemoTypes
<1>6. Fresh'
  BY <1>1 DEF Fresh
<1>7. CASE demo.name \in Demo!Keyed
  <2>1. demo.name \notin Unkeyed /\ Cleaning
    BY <1>2, <1>7 DEF Demo!Keyed, Unkeyed, Demo!Named
  <2>2. Cleaning'
    BY <1>1, <1>2, <1>3, <1>4, <1>7, <2>1 DEF Cleaning, Unkeyed
  <2> QED BY <1>2, <1>3, <1>5, <1>6, <1>7, <2>1, <2>2, StillCleaning
<1>8. CASE demo.name \notin Demo!Keyed
  <2>1. demo.name \in Unkeyed /\ demo.step = 4 /\ demo.name \notin Placing
    BY <1>2, <1>8 DEF Demo!Programs, Unkeyed, Placing, Demo!Keyed
  <2>2. Own' = Own
    BY <1>1, <1>3 DEF Own
  <2>3. Awaits(Own, 0, 0)'
    BY <1>1, <1>3, <1>4, <2>1, <2>2 DEF Sending, Awaits
  <2>4. Sending'
    BY <1>3, <2>1, <2>3 DEF Sending
  <2>5. Counting'
    BY <1>3, <2>1 DEF Counting, ScriptLength
  <2> QED BY <1>3, <1>5, <1>6, <1>8, <2>1, <2>4, <2>5
<1> QED BY <1>7, <1>8

LEMMA WriteFailsInv ==
  ASSUME Demo!NamesAssumption, DemoInv, Demo!WriteFails
  PROVE  DemoInv'
<1> USE DEF DemoInv
<1>1. /\ Demo!At("write-failed") /\ Demo!Continues
      /\ UNCHANGED <<owned, outbox, inbox, broker, held, placed, programs>>
  BY DEF Demo!WriteFails
<1>2. demo.name = "demo:crash-write" /\ demo.step = 8
  BY <1>1, AtStep DEF StepIs
<1>3. /\ demo'.name = demo.name /\ demo'.step = demo.step + 1
      /\ demo'.published = demo.published /\ demo'.settled = demo.settled
      /\ demo'.marked = demo.marked
  BY <1>1, ContinuesFacts
<1>4. DemoTypes'
  BY <1>1, ContinuesTypes DEF DemoTypes
<1>5. Fresh'
  BY <1>1 DEF Fresh
<1>6. Cleaning'
  BY <1>1, <1>2, <1>3 DEF Cleaning, Demo!Keyed, Unkeyed, Demo!Named
<1> QED BY <1>2, <1>3, <1>4, <1>5, <1>6, StillCleaning DEF Demo!Programs, Demo!Keyed, Unkeyed, Demo!Named

LEMMA StartInv ==
  ASSUME Demo!NamesAssumption, DemoInv, NEW p \in Demo!Programs, Demo!Start(p)
  PROVE  DemoInv'
<1> USE DEF DemoInv
<1> DEFINE again == p \in inbox.processed
<1>1. /\ demo.name = None /\ programs' = programs + 1 /\ programs < MaxPrograms
      /\ demo' = [Demo!NoDemo EXCEPT !.name = p, !.marked = again]
      /\ UNCHANGED <<owned, outbox, inbox, broker, held, placed>>
  BY DEF Demo!Start
<1>2. again \in BOOLEAN /\ (p \in inbox.processed => again)
  OBVIOUS
<1> HIDE DEF again
<1>3. demo' = [name |-> p, step |-> 1, published |-> 0, settled |-> 0, verdict |-> "none",
               marked |-> again]
  BY <1>1 DEF Demo!NoDemo
<1>4. held = <<>> /\ 1 \in 1 .. ScriptLength(p) /\ p \in Demo!Programs \cup {None}
  BY <1>1, StepsOfScripts DEF DemoTypes
<1>5. /\ demo'.name = p /\ demo'.step = 1 /\ demo'.published = 0 /\ demo'.settled = 0
      /\ demo'.verdict = "none" /\ demo'.marked = again
  BY <1>3
<1>6. p \in inbox.processed => demo'.marked
  BY <1>2, <1>5, Zenon
<1>7. demo' \in DemoStates
  BY <1>2, <1>3, <1>4
<1>8. programs' \in 0 .. MaxPrograms
  BY <1>1 DEF DemoTypes, Demo!NamesAssumption
<1>9. DemoTypes'
  BY <1>1, <1>4, <1>5, <1>7, <1>8 DEF DemoTypes, Demo!NamesAssumption
<1>10. Fresh'
  BY <1>1 DEF Fresh
<1>11. Cleaning'
  BY <1>1, <1>4, <1>5, <1>6 DEF Cleaning
<1> QED BY <1>5, <1>9, <1>10, <1>11, StillCleaning

\* A program that ends leaves only its rows.
LEMMA EndsInv ==
  ASSUME Demo!NamesAssumption, DemoInv, NEW verdict \in {"ok", "failed", "cut"}, Demo!Ends(verdict),
         verdict = "failed" => demo.marked,
         UNCHANGED <<owned, outbox, inbox, placed, programs>>
  PROVE  DemoInv'
<1> USE DEF DemoInv
<1>1. /\ demo' = [name |-> None, step |-> 1, published |-> 0, settled |-> 0,
                  verdict |-> verdict, marked |-> demo.marked]
      /\ held' = <<>>
      /\ broker' = [broker EXCEPT !.work = held \o broker.work]
  BY DEF Demo!Ends, Demo!NoDemo
<1>2. /\ broker'.work \in Seq(Demo!Events \cup {Demo!Poison})
      /\ broker' \in Brokers
  <2>1. held \o broker.work \in Seq(Demo!Events \cup {Demo!Poison})
    BY ConcatProperties DEF DemoTypes
  <2> QED BY <1>1, <2>1 DEF DemoTypes
<1>3. None \notin Demo!Programs /\ demo.marked \in BOOLEAN
  BY DEF Demo!NamesAssumption, DemoTypes
<1>4. DemoTypes'
  BY <1>1, <1>2, <1>3 DEF DemoTypes
<1>5. Fresh'
  BY DEF Fresh
<1> QED BY <1>1, <1>3, <1>4, <1>5 DEF Unkeyed, Placing, Demo!Programs, Demo!Keyed

-----------------------------------------------------------------------------
(* One more copy, one delivered, one settled.                              *)

LEMMA OneMoreCopy ==
  ASSUME NEW e, NEW w \in Seq({e}), NEW h \in Seq({e})
  PROVE  /\ w \o <<e>> \in Seq({e}) /\ Len(w \o <<e>>) = Len(w) + 1
         /\ w # <<>> => /\ Head(w) = e /\ Tail(w) \in Seq({e}) /\ Len(w) > 0
                        /\ Len(Tail(w)) = Len(w) - 1
         /\ <<e>> \in Seq({e}) /\ <<>> \in Seq({e})
         /\ h # <<>> /\ Len(h) <= 1 => h = <<e>> /\ Len(h) = 1
         /\ Len(w) \in Nat /\ (w = <<>> <=> Len(w) = 0)
<1>1. w \o <<e>> \in Seq({e}) /\ Len(w \o <<e>>) = Len(w) + 1
  BY <<e>> \in Seq({e}), Len(<<e>>) = 1, ConcatProperties
<1>2. w # <<>> => Head(w) = e /\ Tail(w) \in Seq({e}) /\ Len(w) > 0 /\ Len(Tail(w)) = Len(w) - 1
  <2> HAVE w # <<>>
  <2>1. Head(w) \in {e} /\ Tail(w) \in Seq({e}) /\ Len(Tail(w)) = Len(w) - 1
    BY HeadTailProperties
  <2>2. Len(w) > 0
    BY EmptySeq, LenProperties
  <2> QED BY <2>1, <2>2
<1>3. h # <<>> /\ Len(h) <= 1 => h = <<e>> /\ Len(h) = 1
  <2> HAVE h # <<>> /\ Len(h) <= 1
  <2>1. Len(h) \in Nat /\ Len(h) # 0
    BY EmptySeq, LenProperties
  <2>2. Len(h) = 1
    <3>1. \A i \in Nat : i # 0 /\ i <= 1 => i = 1
      OBVIOUS
    <3> QED BY <2>1, <3>1
  <2>3. h[1] = e
    BY <2>2, ElementOfSeq
  <2> QED BY <2>2, <2>3
<1> QED BY <1>1, <1>2, <1>3, EmptySeq, LenProperties

LEMMA SentMore ==
  ASSUME NEW e, NEW n \in Nat, NEW b \in Nat, Awaits(e, n, b),
         broker'.work = broker.work \o <<e>>, broker'.dlq = broker.dlq,
         inbox' = inbox, held' = held, demo'.settled = demo.settled, demo'.marked = demo.marked,
         DemoTypes
  PROVE  Awaits(e, n + 1, b)'
<1>1. /\ broker'.work \in Seq({e}) /\ Len(broker'.work) = Len(broker.work) + 1
      /\ Len(broker.work) \in Nat /\ Len(held) \in Nat
  BY OneMoreCopy DEF Awaits
<1>2. demo.settled \in Nat /\ \A x \in Demo!Events : inbox.deliveries[x] \in Nat
  BY DEF DemoTypes
<1>3. Len(broker'.work) + Len(held') + demo'.settled = n + 1
  BY <1>1, <1>2 DEF Awaits
<1>4. ASSUME e # Demo!Poison PROVE inbox'.deliveries[e] + Len(broker'.work) = b + (n + 1)
  <2>1. inbox.deliveries[e] + Len(broker.work) = b + n /\ inbox.deliveries[e] \in Nat
    BY <1>2, <1>4 DEF Awaits
  <2>2. inbox'.deliveries[e] = inbox.deliveries[e]
    OBVIOUS
  <2> QED BY <1>1, <2>1, <2>2
<1> QED BY <1>1, <1>3, <1>4 DEF Awaits

LEMMA TakenOne ==
  ASSUME NEW e, NEW n \in Nat, NEW b \in Nat, Awaits(e, n, b), DemoTypes,
         held = <<>>, broker.work # <<>>,
         held' = <<Head(broker.work)>>, broker'.work = Tail(broker.work),
         broker'.dlq = broker.dlq,
         IF Head(broker.work) = Demo!Poison THEN UNCHANGED inbox ELSE Demo!Apply(Head(broker.work)),
         demo' = demo
  PROVE  /\ Awaits(e, n, b)' /\ Head(broker.work) = e /\ held' # <<>>
         /\ Len(held') = 1 /\ Len(broker.work) > 0 /\ Len(broker'.work) = Len(broker.work) - 1
<1>1. /\ Head(broker.work) = e /\ broker'.work \in Seq({e}) /\ held' \in Seq({e})
      /\ Len(broker.work) \in Nat /\ Len(broker.work) > 0
      /\ Len(broker'.work) = Len(broker.work) - 1 /\ Len(held) = 0
  BY OneMoreCopy DEF Awaits
<1>2. Len(held') = 1 /\ held' # <<>>
  OBVIOUS
<1>3. demo.settled \in Nat /\ \A x \in Demo!Events : inbox.deliveries[x] \in Nat
  BY DEF DemoTypes
<1>4. e = Demo!Poison => Awaits(e, n, b)'
  BY <1>1, <1>2, <1>3 DEF Awaits
<1>5. ASSUME e # Demo!Poison PROVE Awaits(e, n, b)'
  <2>1. e \in Demo!Events /\ Demo!Apply(e)
    BY <1>1, <1>5 DEF Awaits
  <2>2. /\ inbox'.deliveries[e] = inbox.deliveries[e] + 1 /\ e \in inbox'.processed
        /\ e \in inbox.processed => inbox'.effects = inbox.effects
        /\ e \notin inbox.processed => e \in inbox'.effects
    BY <2>1 DEF Demo!Apply, DemoTypes
  <2>3. e \in inbox'.effects \/ demo.marked
    BY <1>5, <2>2 DEF Awaits
  <2>4. inbox'.deliveries[e] \in Nat /\ inbox'.deliveries[e] # 0
    BY <1>3, <2>1, <2>2
  <2>5. Len(broker'.work) + Len(held') + demo'.settled = n
    BY <1>1, <1>2, <1>3 DEF Awaits
  <2>6. inbox'.deliveries[e] + Len(broker'.work) = b + n
    <3>1. inbox.deliveries[e] + Len(broker.work) = b + n /\ inbox.deliveries[e] \in Nat
      BY <1>3, <1>5, <2>1 DEF Awaits
    <3> QED BY <1>1, <2>2, <3>1
  <2> QED BY <1>1, <1>5, <2>1, <2>2, <2>3, <2>4, <2>5, <2>6 DEF Awaits
<1> QED BY <1>1, <1>2, <1>4, <1>5

LEMMA SettledOne ==
  ASSUME NEW e, NEW n \in Nat, NEW b \in Nat, Awaits(e, n, b), DemoTypes,
         held # <<>>, held' = <<>>, inbox' = inbox, broker'.work = broker.work,
         held = <<Demo!Poison>> => broker'.dlq = broker.dlq + 1,
         held # <<Demo!Poison>> => broker'.dlq = broker.dlq,
         demo'.settled = demo.settled + 1, demo'.marked = demo.marked
  PROVE  Awaits(e, n, b)'
<1>1. /\ held = <<e>> /\ Len(held) = 1 /\ Len(held') = 0 /\ held' \in Seq({e})
      /\ Len(broker.work) \in Nat
  <2>1. broker.work \in Seq({e}) /\ held \in Seq({e}) /\ Len(held) <= 1
    BY DEF Awaits, DemoTypes
  <2>2. held = <<e>> /\ Len(held) = 1 /\ Len(broker.work) \in Nat
    BY <2>1, OneMoreCopy
  <2> QED BY <2>2
<1>2. e = Demo!Poison <=> held = <<Demo!Poison>>
  BY <1>1
<1>3. demo.settled \in Nat
  BY DEF DemoTypes
<1>4. Len(broker'.work) + Len(held') + demo'.settled = n
  <2>1. Len(broker.work) + Len(held) + demo.settled = n
    BY DEF Awaits
  <2> QED BY <1>1, <1>3, <2>1
<1>5. e = Demo!Poison => broker'.dlq = demo'.settled /\ inbox'.effects \cap Demo!Named = {}
  BY <1>2, <1>3 DEF Awaits
<1>6. e # Demo!Poison => broker'.dlq = broker.dlq
  BY <1>2
<1> QED BY <1>1, <1>4, <1>5, <1>6 DEF Awaits

-----------------------------------------------------------------------------
(* While a program consumes.                                               *)

\* Deliveries of its event before the last copy was sent.
EarlierDeliveries == IF demo.name = "demo:duplicate" /\ demo.step >= 8 THEN 1 ELSE 0

LEMMA WhileConsuming ==
  ASSUME Demo!NamesAssumption, DemoInv, Demo!At("consume") \/ Demo!At("child")
  PROVE  /\ Awaits(Own, Demo!StopAfter, EarlierDeliveries)
         /\ Demo!StopAfter \in {1, 2} /\ EarlierDeliveries \in {0, 1}
         /\ Demo!StopAfter + EarlierDeliveries <= 2
         /\ Own \in Demo!Events \cup {Demo!Poison}
         /\ demo.name \in Unkeyed \cup Placing /\ demo.step \in {6, 8, 12}
         /\ demo.step < ScriptLength(demo.name) /\ demo.verdict = "none"
         /\ Demo!At("consume") => demo.step + 1 = ScriptLength(demo.name)
         /\ Demo!At("child") => demo.name = "demo:duplicate" /\ demo.step = 6
         /\ demo.name \in Placing => demo.step = 12 /\ demo.name \notin Unkeyed /\ Own \in Orders
         /\ Own \in Orders => Own \in placed
<1> USE DEF DemoInv
<1>1. CASE Demo!At("child")
  <2>1. demo.name = "demo:duplicate" /\ demo.step = 6 /\ demo.verdict = "none"
    BY <1>1, AtStep DEF StepIs
  <2>2. demo.name \in Unkeyed /\ demo.name \notin Placing /\ demo.name \notin Demo!Keyed
    BY <2>1 DEF Unkeyed, Placing, Demo!Keyed, Demo!Named
  <2>3. Own = "demo:duplicate" /\ Demo!StopAfter = 1 /\ EarlierDeliveries = 0 /\ ScriptLength(demo.name) = 9
    BY <2>1, <2>2 DEF Own, Demo!StopAfter, EarlierDeliveries, ScriptLength, Placing
  <2>4. Awaits(Own, 1, 0) /\ ~ Demo!At("consume")
    BY <2>1, <2>2, <2>3, AtStep DEF Sending, StepIs
  <2> QED BY <2>1, <2>2, <2>3, <2>4 DEF Demo!Events, Demo!Named, Demo!NamesAssumption
<1>2. CASE Demo!At("consume")
  <2>1. /\ demo.name \in Demo!Programs /\ demo.name # "demo:crash-write" /\ ~ Demo!At("child")
        /\ demo.step = ScriptLength(demo.name) - 1 /\ demo.verdict = "none"
    <3>1. StepIs(demo.name, "consume", demo.step) /\ demo.name \in Demo!Programs /\ demo.verdict = "none"
      BY <1>2, AtStep
    <3>2. ~ Demo!At("child")
      BY <1>2 DEF Demo!At
    <3> QED BY <3>1, <3>2 DEF StepIs
  <2>2. CASE demo.name \in Unkeyed
    <3>1. demo.name \notin Placing /\ demo.name \notin Demo!Keyed
      BY <2>2 DEF Unkeyed, Placing, Demo!Keyed, Demo!Named
    <3>2. Own \in Demo!Named \cup {Demo!Poison}
      BY <2>2, <3>1 DEF Own, Unkeyed
    <3>3. Demo!StopAfter = 1
      BY <2>2 DEF Demo!StopAfter, Unkeyed, Demo!Named
    <3>4. CASE demo.name = "demo:duplicate"
      <4>1. demo.step = 8 /\ EarlierDeliveries = 1 /\ ScriptLength(demo.name) = 9
        BY <2>1, <3>4 DEF ScriptLength, Placing, EarlierDeliveries
      <4>2. Awaits(Own, 1, 1)
        BY <2>2, <3>4, <4>1 DEF Sending
      <4> QED BY <2>1, <2>2, <3>1, <3>2, <3>3, <4>1, <4>2 DEF Demo!Events, Demo!NamesAssumption
    <3>5. CASE demo.name # "demo:duplicate"
      <4>1. demo.step = 6 /\ EarlierDeliveries = 0 /\ ScriptLength(demo.name) = 7
        BY <2>1, <2>2, <3>5 DEF ScriptLength, Unkeyed, Demo!Named, EarlierDeliveries
      <4>2. Awaits(Own, 1, 0)
        BY <2>2, <4>1 DEF Sending
      <4> QED BY <2>1, <2>2, <3>1, <3>2, <3>3, <4>1, <4>2 DEF Demo!Events, Demo!NamesAssumption
    <3> QED BY <3>4, <3>5
  <2>3. CASE demo.name \notin Unkeyed
    <3>1. demo.name \in Placing /\ demo.name \in Demo!Keyed /\ demo.step = 12 /\ ScriptLength(demo.name) = 13
      BY <2>1, <2>3 DEF Demo!Programs, Unkeyed, Placing, Demo!Keyed, ScriptLength
    <3>2. Own = owned[demo.name] /\ Own \in placed /\ Own \in Orders /\ EarlierDeliveries = 0
      BY <3>1 DEF Own, Relaying, DemoTypes, Placing, EarlierDeliveries
    <3>3. /\ demo.name = "demo:outbox" => Awaits(Own, 1, 0) /\ Demo!StopAfter = 1
          /\ demo.name = "demo:crash-relay" => Awaits(Own, 2, 0) /\ Demo!StopAfter = 2
      BY <3>1, <3>2 DEF Relaying, Demo!StopAfter
    <3> QED BY <2>1, <2>3, <3>1, <3>2, <3>3 DEF Demo!Events, Placing
  <2> QED BY <2>2, <2>3
<1> QED BY <1>1, <1>2

LEMMA StillConsuming ==
  ASSUME Demo!NamesAssumption, DemoInv, Demo!At("consume") \/ Demo!At("child"), DemoTypes', Fresh',
         UNCHANGED <<owned, outbox, placed>>,
         Awaits(Own, Demo!StopAfter, EarlierDeliveries)',
         demo'.name = demo.name, demo'.step = demo.step, demo'.published = demo.published,
         Demo!At("child") => demo'.settled = demo.settled
  PROVE  DemoInv'
<1> USE DEF DemoInv
<1>1. /\ demo.name \in Unkeyed \cup Placing /\ demo.step \in {6, 8, 12}
      /\ demo.step < ScriptLength(demo.name)
      /\ demo.name \in Placing => demo.step = 12 /\ demo.name \notin Unkeyed
      /\ Demo!At("consume") => demo.step + 1 = ScriptLength(demo.name)
      /\ Demo!At("child") => demo.name = "demo:duplicate" /\ demo.step = 6
  BY WhileConsuming
<1>2. Counting'
  BY <1>1, AtStep DEF Counting
<1>3. demo.name # "demo:crash-write"
  BY <1>1 DEF Unkeyed, Placing, Demo!Named
<1>4. ASSUME demo.name \in Placing PROVE Relaying'
  <2>1. Own' = owned[demo.name] /\ EarlierDeliveries' = 0 /\ demo.step = 12
    BY <1>1, <1>4 DEF Own, EarlierDeliveries, Placing, Demo!Keyed
  <2>2. /\ demo.name = "demo:outbox" => Demo!StopAfter' = 1
        /\ demo.name = "demo:crash-relay" => Demo!StopAfter' = 2
    BY DEF Demo!StopAfter
  <2>3. Relaying
    BY <1>1, <1>4
  <2> QED BY <1>4, <2>1, <2>2, <2>3 DEF Relaying, Placing, Awaits
<1>5. ASSUME demo.name \in Unkeyed PROVE Sending'
  <2>1. Demo!StopAfter' = 1
    BY <1>5 DEF Demo!StopAfter, Unkeyed, Demo!Named
  <2>2. CASE demo.name # "demo:duplicate"
    <3>1. EarlierDeliveries' = 0 /\ demo.step = 6
      BY <1>1, <1>5, <2>2 DEF EarlierDeliveries, ScriptLength, Unkeyed, Placing, Demo!Named
    <3> QED BY <2>1, <2>2, <3>1 DEF Sending, Awaits
  <2>3. CASE demo.name = "demo:duplicate"
    <3>1. ScriptLength(demo.name) = 9 /\ demo.step \in {6, 8} /\ (demo.step = 6 => Demo!At("child"))
      BY <1>1, <2>3 DEF ScriptLength, Placing
    <3>2. Sending /\ (demo.step = 6 => demo'.settled = 0)
      BY <1>5, <1>1, <3>1 DEF Sending
    <3> QED BY <2>1, <2>3, <3>1, <3>2 DEF Sending, Awaits, EarlierDeliveries
  <2> QED BY <2>2, <2>3
<1> QED BY <1>1, <1>2, <1>3, <1>4, <1>5 DEF Placing, Demo!Keyed

-----------------------------------------------------------------------------
(* What the programs do.                                                   *)

LEMMA SendOwnInv ==
  ASSUME Demo!NamesAssumption, DemoInv, Demo!SendOwn
  PROVE  DemoInv'
<1> USE DEF DemoInv
<1>1. /\ Demo!At("send") /\ Demo!Continues /\ broker' = [broker EXCEPT !.work = @ \o <<Own>>]
      /\ UNCHANGED <<owned, outbox, inbox, held, placed, programs>>
      /\ demo.name \in Unkeyed /\ demo.name \notin Demo!Keyed /\ demo.name \notin Placing
      /\ demo.step = 5 /\ demo.name \in Demo!Programs
  <2>1. demo.name \in Unkeyed /\ demo.step = 5 /\ demo.name \in Demo!Programs
    BY AtStep DEF Demo!SendOwn, StepIs
  <2>2. demo.name \notin Demo!Keyed /\ demo.name \notin Placing
    BY <2>1 DEF Unkeyed, Demo!Keyed, Demo!Named, Placing
  <2> QED BY <2>1, <2>2 DEF Demo!SendOwn, Demo!Route, Own
<1>2. /\ demo'.name = demo.name /\ demo'.step = 6
      /\ demo'.published = demo.published /\ demo'.settled = demo.settled
      /\ demo'.marked = demo.marked
  BY <1>1, ContinuesFacts
<1>3. Awaits(Own, 0, 0) /\ Own \in Demo!Events \cup {Demo!Poison}
  BY <1>1 DEF Sending, Own, Unkeyed, Demo!Events
<1>4. /\ broker'.work = broker.work \o <<Own>> /\ broker'.dlq = broker.dlq
      /\ broker' \in Brokers
  <2>1. broker.work \in Seq(Demo!Events \cup {Demo!Poison}) /\ <<Own>> \in Seq(Demo!Events \cup {Demo!Poison})
    BY <1>3 DEF DemoTypes
  <2>2. broker.work \o <<Own>> \in Seq(Demo!Events \cup {Demo!Poison})
    BY <2>1, ConcatProperties
  <2> QED BY <1>1, <2>2 DEF DemoTypes
<1>5. DemoTypes'
  BY <1>1, <1>4, ContinuesTypes DEF DemoTypes
<1>6. Fresh'
  BY <1>1 DEF Fresh
<1>7. Awaits(Own, 1, 0)'
  <2> PICK e : e = Own
    OBVIOUS
  <2>1. Own' = e
    BY <1>1, <1>2 DEF Own
  <2>2. /\ inbox' = inbox /\ held' = held
    BY <1>1
  <2>3. Awaits(e, 0, 0) /\ broker'.work = broker.work \o <<e>>
    BY <1>3, <1>4
  <2>4. Awaits(e, 0 + 1, 0)'
    BY <1>2, <1>4, <2>2, <2>3, SentMore
  <2> QED BY <2>1, <2>4 DEF Awaits
<1>8. Sending'
  <2>1. demo.settled = 0
    BY <1>3 DEF Awaits, DemoTypes
  <2> QED BY <1>2, <1>7, <2>1 DEF Sending
<1>9. Counting'
  BY <1>1, <1>2 DEF Counting, ScriptLength
<1> QED BY <1>1, <1>2, <1>5, <1>6, <1>8, <1>9

LEMMA PlaceOrderInv ==
  ASSUME Demo!NamesAssumption, DemoInv, Demo!PlaceOrder
  PROVE  DemoInv'
<1> USE DEF DemoInv
<1>1. /\ Demo!At("order") /\ Demo!Continues /\ UNCHANGED <<inbox, broker, held, programs>>
  BY DEF Demo!PlaceOrder
<1>2. /\ demo.name \in Placing /\ demo.name \in Demo!Keyed /\ demo.name \in Demo!Programs
      /\ demo.name \notin Unkeyed
      /\ demo.step = 8 \/ (demo.step = 9 /\ demo.name = "demo:outbox")
  BY <1>1, AtStep DEF StepIs, Placing, Demo!Keyed, Unkeyed, Demo!Named
<1>3. /\ demo'.name = demo.name /\ demo'.step = demo.step + 1
      /\ demo'.published = demo.published /\ demo'.settled = demo.settled
      /\ demo'.marked = demo.marked
  BY <1>1, ContinuesFacts
<1>4. Counting'
  BY <1>2, <1>3 DEF Counting, ScriptLength
<1>5. CASE demo.step = 8
  <2>1. Cleaning
    BY <1>2, <1>5
  <2>2. owned[demo.name] = None
    BY <1>2, <1>5, <2>1 DEF Cleaning
  <2> PICK o : o = Demo!NextOrder
    OBVIOUS
  <2>3. placed # Orders /\ placed' = placed \cup {o} /\ owned' = [owned EXCEPT ![demo.name] = o]
        /\ outbox' = [outbox EXCEPT ![o] = "waiting"]
    BY <2>2 DEF Demo!PlaceOrder
  <2>4. o \in Orders /\ o \notin placed
    BY <2>3 DEF Demo!NextOrder, DemoTypes
  <2>5. DemoTypes'
    <3>1. /\ owned' \in [Demo!Keyed -> Orders \cup {None}]
          /\ outbox' \in [Orders -> {"none", "waiting", "published"}]
          /\ placed' \in SUBSET Orders
      BY <1>2, <2>3, <2>4 DEF DemoTypes
    <3> QED BY <1>1, <3>1, ContinuesTypes DEF DemoTypes
  <2>6. Fresh'
    BY <1>1, <1>2, <2>3, <2>4 DEF Fresh, DemoTypes
  <2>7. Relaying'
    <3>1. owned'[demo.name] = o /\ outbox'[o] = "waiting"
      BY <1>2, <2>3, <2>4 DEF DemoTypes
    <3>2. /\ inbox.deliveries[o] = 0 /\ o \notin inbox.processed
          /\ o \in Demo!Events /\ o # Demo!Poison
      BY <2>4 DEF Fresh, Demo!Events, Demo!NamesAssumption
    <3>3. Awaits(o, 0, 0)'
      <4>1. /\ broker.work = <<>> /\ broker.dlq = 0 /\ held = <<>> /\ demo.settled = 0
            /\ o # Demo!Poison
        BY <1>2, <1>5, <2>1, <3>2 DEF Cleaning
      <4>2. Awaits(o, 0, 0)
        BY <3>2, <4>1, NothingSent
      <4> QED BY <1>1, <1>3, <4>2 DEF Awaits
    <3> QED BY <1>2, <1>3, <1>5, <2>1, <2>3, <3>1, <3>3 DEF Relaying, Cleaning, Awaits
  <2> QED BY <1>2, <1>3, <1>4, <1>5, <2>5, <2>6, <2>7 DEF Placing
<1>6. CASE demo.step = 9 /\ demo.name = "demo:outbox"
  <2>1. Relaying /\ owned[demo.name] # None
    BY <1>2, <1>6 DEF Relaying, DemoTypes, Demo!NamesAssumption
  <2>2. UNCHANGED <<owned, outbox, placed>>
    BY <2>1 DEF Demo!PlaceOrder
  <2>3. DemoTypes'
    BY <1>1, <2>2, ContinuesTypes DEF DemoTypes
  <2>4. Fresh'
    BY <1>1, <2>2 DEF Fresh
  <2>5. Relaying'
    BY <1>1, <1>3, <1>6, <2>1, <2>2 DEF Relaying, Awaits
  <2> QED BY <1>2, <1>3, <1>4, <1>6, <2>3, <2>4, <2>5
<1> QED BY <1>2, <1>5, <1>6

\* The relay claims the row of its order and no other.
LEMMA RelayFacts ==
  ASSUME Demo!NamesAssumption, DemoInv, Demo!Relay
  PROVE  /\ demo.name \in Placing /\ demo.name \in Demo!Programs /\ demo.name \in Demo!Keyed
         /\ demo.name \notin Unkeyed
         /\ Demo!At("relay") => demo.step = 10
         /\ Demo!At("crash") => demo.step = 9 /\ demo.name = "demo:crash-relay"
         /\ Demo!At("relay") \/ Demo!At("crash")
         /\ owned[demo.name] \in Orders /\ owned[demo.name] \in placed
         /\ outbox[owned[demo.name]] = "waiting"
         /\ broker' = [broker EXCEPT !.work = @ \o <<owned[demo.name]>>]
         /\ demo'.name = demo.name /\ demo'.step = demo.step + 1
         /\ demo'.published = demo.published + 1 /\ demo'.settled = demo.settled
         /\ demo'.verdict = demo.verdict /\ demo'.marked = demo.marked
         /\ demo' \in DemoStates
         /\ UNCHANGED <<owned, outbox, inbox, held, placed, programs>>
<1> USE DEF DemoInv
<1>1. /\ demo.name \in Placing /\ demo.name \in Demo!Programs /\ demo.name \in Demo!Keyed
      /\ demo.name \notin Unkeyed
      /\ Demo!At("relay") => demo.step = 10
      /\ Demo!At("crash") => demo.step = 9 /\ demo.name = "demo:crash-relay"
      /\ Demo!At("relay") \/ Demo!At("crash")
  <2>1. Demo!At("relay") => demo.name \in Placing /\ demo.step = 10 /\ demo.name \in Demo!Programs
    BY AtStep DEF StepIs
  <2>2. Demo!At("crash") => demo.name = "demo:crash-relay" /\ demo.step = 9 /\ demo.name \in Demo!Programs
    BY AtStep DEF StepIs
  <2> QED BY <2>1, <2>2 DEF Demo!Relay, Placing, Demo!Keyed, Unkeyed, Demo!Named
<1>2. Relaying /\ owned[demo.name] \in Orders /\ owned[demo.name] \in placed
      /\ outbox[owned[demo.name]] = "waiting"
  BY <1>1 DEF Relaying, Placing, DemoTypes
<1> DEFINE o == owned[demo.name]
<1>3. Demo!Claim = {o}
  BY <1>2 DEF Demo!Claim, Demo!Waiting
<1> HIDE DEF o
<1>4. Demo!Cardinality(Demo!Claim) = 1
  BY <1>3, FS_Singleton, DemosOperators
<1>5. PICK claimed \in [1 .. 1 -> {o}] : broker' = Demo!Route(broker, claimed)
  BY <1>3, <1>4 DEF Demo!Relay
<1>6. claimed = <<o>>
  OBVIOUS
<1>7. /\ demo' = [[demo EXCEPT !.published = @ + 1] EXCEPT !.step = @ + 1]
      /\ UNCHANGED <<owned, outbox, inbox, held, placed, programs>>
  BY <1>3, <1>4 DEF Demo!Relay, Demo!Goes
<1>8. /\ demo'.name = demo.name /\ demo'.step = demo.step + 1
      /\ demo'.published = demo.published + 1 /\ demo'.settled = demo.settled
      /\ demo'.verdict = demo.verdict /\ demo'.marked = demo.marked
      /\ demo' \in DemoStates
  <2>1. demo \in DemoStates
    BY DEF DemoTypes
  <2>2. PICK d : d = [demo EXCEPT !.published = demo.published + 1]
    OBVIOUS
  <2>3. /\ d.name = demo.name /\ d.step = demo.step
        /\ d.published = demo.published + 1 /\ d.settled = demo.settled
        /\ d.verdict = demo.verdict /\ d.marked = demo.marked
        /\ d \in DemoStates
    BY <2>1, <2>2
  <2>4. demo' = [d EXCEPT !.step = d.step + 1]
    BY <1>7, <2>2
  <2> QED BY <2>3, <2>4
<1> QED BY <1>1, <1>2, <1>5, <1>6, <1>7, <1>8 DEF Demo!Route, o

LEMMA RelayInv ==
  ASSUME Demo!NamesAssumption, DemoInv, Demo!Relay
  PROVE  DemoInv'
<1> USE DEF DemoInv
<1> PICK o : o = owned[demo.name]
  OBVIOUS
<1>1. /\ demo.name \in Placing /\ demo.name \in Demo!Programs /\ demo.name \notin Unkeyed
      /\ Demo!At("relay") => demo.step = 10
      /\ Demo!At("crash") => demo.step = 9 /\ demo.name = "demo:crash-relay"
      /\ Demo!At("relay") \/ Demo!At("crash")
      /\ o \in Orders /\ o \in placed /\ outbox[o] = "waiting"
      /\ UNCHANGED <<owned, outbox, inbox, held, placed, programs>>
      /\ broker' = [broker EXCEPT !.work = @ \o <<o>>]
  BY RelayFacts
<1>2. /\ demo'.name = demo.name /\ demo'.step = demo.step + 1
      /\ demo'.published = demo.published + 1 /\ demo'.settled = demo.settled
      /\ demo'.verdict = demo.verdict /\ demo'.marked = demo.marked
      /\ demo' \in DemoStates
  BY RelayFacts
<1>3. demo'.step \in 1 .. ScriptLength(demo.name) /\ demo.verdict = "none" /\ ScriptLength(demo.name) = 13
  <2>1. ScriptLength(demo.name) = 13
    BY <1>1 DEF ScriptLength, Placing
  <2>2. demo.verdict = "none" /\ demo.step \in {9, 10}
    BY <1>1 DEF DemoTypes
  <2> QED BY <1>2, <2>1, <2>2
<1>4. /\ broker'.work = broker.work \o <<o>> /\ broker'.dlq = broker.dlq
      /\ broker' \in Brokers
  <2>1. broker.work \in Seq(Demo!Events \cup {Demo!Poison}) /\ <<o>> \in Seq(Demo!Events \cup {Demo!Poison})
    BY <1>1 DEF DemoTypes, Demo!Events
  <2>2. broker.work \o <<o>> \in Seq(Demo!Events \cup {Demo!Poison})
    BY <2>1, ConcatProperties
  <2> QED BY <1>1, <2>2 DEF DemoTypes
<1>5. outbox' \in [Orders -> {"none", "waiting", "published"}]
  BY <1>1 DEF DemoTypes
<1>6. DemoTypes'
  BY <1>1, <1>2, <1>3, <1>4, <1>5 DEF DemoTypes, Demo!NamesAssumption
<1>7. Fresh'
  BY <1>1 DEF Fresh
<1>8. Counting'
  BY <1>1, <1>2, <1>3 DEF Counting
<1>9. Relaying'
  <2>1. owned'[demo.name] = o
    BY <1>1
  <2>2. ASSUME NEW n \in Nat, Awaits(o, n, 0) PROVE Awaits(o, n + 1, 0)'
    <3> HIDE DEF DemoInv
    <3>1. DemoTypes /\ inbox' = inbox /\ held' = held
      BY <1>1 DEF DemoInv
    <3> QED BY <1>2, <1>4, <2>2, <3>1, SentMore
  <2>3. CASE Demo!At("crash") /\ ~ Demo!At("relay")
    <3>1. /\ demo.step = 9 /\ demo.name = "demo:crash-relay" /\ Awaits(o, 0, 0)
          /\ demo.published = 0 /\ outbox'[o] = "waiting"
      BY <1>1, <2>3 DEF Relaying
    <3>2. Awaits(o, 0 + 1, 0)'
      BY <2>2, <3>1
    <3>3. held' = <<>> /\ demo'.settled = 0
      BY <1>1, <1>2, <3>1, EmptySeq, LenProperties DEF Awaits, DemoTypes
    <3> QED BY <1>1, <1>2, <2>1, <3>1, <3>2, <3>3 DEF Relaying, Awaits
  <2>4. CASE Demo!At("relay")
    <3>1. demo.step = 10 /\ outbox'[o] = "waiting"
      BY <1>1, <2>4
    <3>2. CASE demo.name = "demo:outbox"
      <4>1. Awaits(o, 0, 0) /\ demo.published = 0
        BY <1>1, <3>1, <3>2 DEF Relaying
      <4>2. Awaits(o, 0 + 1, 0)'
        BY <2>2, <4>1
      <4> QED BY <1>1, <1>2, <2>1, <3>1, <3>2, <4>1, <4>2 DEF Relaying, Awaits
    <3>3. CASE demo.name = "demo:crash-relay"
      <4>1. Awaits(o, 1, 0) /\ demo.published = 1
        BY <1>1, <3>1, <3>3 DEF Relaying
      <4>2. Awaits(o, 1 + 1, 0)'
        BY <2>2, <4>1
      <4> QED BY <1>1, <1>2, <2>1, <3>1, <3>3, <4>1, <4>2 DEF Relaying, Awaits
    <3> QED BY <1>1, <3>2, <3>3 DEF Placing
  <2> QED BY <1>1, <2>3, <2>4
<1> QED BY <1>1, <1>2, <1>6, <1>7, <1>8, <1>9, <1>3 DEF Placing, Demo!Keyed

\* published_at: nothing the counts look at changes.
LEMMA MarkInv ==
  ASSUME Demo!NamesAssumption, DemoInv, Demo!Mark
  PROVE  DemoInv'
<1> USE DEF DemoInv
<1>1. /\ Demo!At("mark") /\ Demo!Continues
      /\ outbox' = [o \in Orders |-> IF o \in Demo!Claim THEN "published" ELSE outbox[o]]
      /\ UNCHANGED <<owned, inbox, broker, held, placed, programs>>
  BY DEF Demo!Mark
<1>2. demo.name \in Placing /\ demo.step = 11 /\ demo.name \in Demo!Programs
  BY <1>1, AtStep DEF StepIs
<1>3. /\ demo'.name = demo.name /\ demo'.step = demo.step + 1
      /\ demo'.published = demo.published /\ demo'.settled = demo.settled
      /\ demo'.marked = demo.marked
  BY <1>1, ContinuesFacts
<1>4. /\ outbox' \in [Orders -> {"none", "waiting", "published"}]
      /\ \A o \in Orders : (outbox'[o] = "none") <=> (outbox[o] = "none")
  BY <1>1 DEF DemoTypes, Demo!Claim, Demo!Waiting
<1>5. DemoTypes'
  BY <1>1, <1>4, ContinuesTypes DEF DemoTypes
<1>6. Fresh'
  BY <1>1, <1>4 DEF Fresh
<1>7. owned[demo.name] \in Orders /\ Relaying
  BY <1>2 DEF Relaying, DemoTypes
<1>8. Relaying'
  BY <1>1, <1>2, <1>3, <1>4, <1>7 DEF Relaying, Awaits
<1>9. Counting' /\ ScriptLength(demo.name) = 13
  BY <1>2, <1>3 DEF Counting, ScriptLength, Placing
<1>10. demo.name \notin Unkeyed
  BY <1>2 DEF Placing, Unkeyed, Demo!Named
<1> QED BY <1>2, <1>3, <1>5, <1>6, <1>8, <1>9, <1>10 DEF Placing

LEMMA HandleInv ==
  ASSUME Demo!NamesAssumption, DemoInv, Demo!Handle
  PROVE  DemoInv'
<1>1. /\ Demo!At("consume") \/ Demo!At("child")
      /\ held = <<>> /\ broker.work # <<>> /\ held' = <<Head(broker.work)>>
      /\ broker' = [broker EXCEPT !.work = Tail(broker.work)]
      /\ IF Head(broker.work) = Demo!Poison THEN UNCHANGED inbox ELSE Demo!Apply(Head(broker.work))
      /\ UNCHANGED <<owned, outbox, demo, placed, programs>>
  BY DEF Demo!Handle
<1>2. PICK e, n, b : e = Own /\ n = Demo!StopAfter /\ b = EarlierDeliveries
  OBVIOUS
<1>3. /\ Awaits(e, n, b) /\ n \in Nat /\ b \in Nat /\ n + b <= 2
      /\ e \in Demo!Events \cup {Demo!Poison} /\ (e \in Orders => e \in placed)
      /\ demo.step < ScriptLength(demo.name) /\ demo.name \in Unkeyed \cup Placing
  BY <1>1, <1>2, WhileConsuming
<1>4. DemoTypes /\ Fresh
  BY DEF DemoInv
<1>5. /\ broker'.work = Tail(broker.work) /\ broker'.dlq = broker.dlq
      /\ broker' = [up |-> broker.up, work |-> Tail(broker.work), dlq |-> broker.dlq]
  BY <1>1, <1>4 DEF DemoTypes
<1>6. /\ Awaits(e, n, b)' /\ Head(broker.work) = e /\ Len(held') = 1
  BY <1>1, <1>3, <1>4, <1>5, TakenOne
<1>7. Own' = e /\ Demo!StopAfter' = n /\ EarlierDeliveries' = b
  BY <1>1, <1>2 DEF Own, Demo!StopAfter, EarlierDeliveries
<1>8. e # Demo!Poison => e \in Demo!Events /\ inbox.deliveries[e] + 1 <= 2 /\ inbox.deliveries[e] \in Nat
  <2> HAVE e # Demo!Poison
  <2>1. e \in Demo!Events /\ inbox.deliveries[e] + Len(broker.work) = b + n
    BY <1>3 DEF Awaits
  <2>2. Len(broker.work) \in Nat /\ Len(broker.work) # 0
    BY <1>1, <1>4, EmptySeq, LenProperties DEF DemoTypes
  <2>3. inbox.deliveries[e] \in Nat
    BY <1>4, <2>1 DEF DemoTypes
  <2> QED BY <1>3, <2>1, <2>2, <2>3
<1>9. inbox' \in Inboxes
  <2>1. CASE e = Demo!Poison
    BY <1>1, <1>4, <1>6, <2>1 DEF DemoTypes
  <2>2. CASE e # Demo!Poison
    <3>1. inbox' = [deliveries |-> [inbox.deliveries EXCEPT ![e] = @ + 1],
                    processed |-> inbox.processed \cup {e},
                    effects |-> IF e \in inbox.processed THEN inbox.effects
                                ELSE inbox.effects \cup {e}]
      BY <1>1, <1>6, <2>2 DEF Demo!Apply
    <3>2. [inbox.deliveries EXCEPT ![e] = @ + 1] \in [Demo!Events -> 0 .. 2]
      BY <1>4, <1>8, <2>2 DEF DemoTypes
    <3>3. /\ (IF e \in inbox.processed THEN inbox.effects ELSE inbox.effects \cup {e})
               \in SUBSET Demo!Events
          /\ inbox.processed \cup {e} \in SUBSET Demo!Events
      BY <1>4, <1>8, <2>2 DEF DemoTypes
    <3> QED BY <3>1, <3>2, <3>3
  <2> QED BY <2>1, <2>2
<1>10. DemoTypes'
  <2>1. held' \in Seq(Demo!Events \cup {Demo!Poison}) /\ Len(held') <= 1
    BY <1>1, <1>3, <1>6
  <2>2. Tail(broker.work) \in Seq(Demo!Events \cup {Demo!Poison})
    BY <1>1, <1>4, HeadTailProperties DEF DemoTypes
  <2>3. broker' \in Brokers
    BY <1>4, <1>5, <2>2 DEF DemoTypes
  <2>4. demo.name # None
    BY <1>3 DEF Demo!NamesAssumption, Unkeyed, Placing, Demo!Programs, Demo!Keyed
  <2> QED BY <1>1, <1>4, <1>9, <2>1, <2>3, <2>4 DEF DemoTypes
<1>11. Fresh'
  <2>1. CASE e = Demo!Poison
    BY <1>1, <1>4, <1>6, <2>1 DEF Fresh
  <2>2. CASE e # Demo!Poison
    <3>1. /\ \A o \in Orders \ placed : o # e /\ o \in Demo!Events
          /\ \A x \in Demo!Events \ {e} :
               /\ inbox'.deliveries[x] = inbox.deliveries[x]
               /\ x \in inbox'.effects <=> x \in inbox.effects
               /\ x \in inbox'.processed <=> x \in inbox.processed
      BY <1>1, <1>3, <1>4, <1>6, <2>2 DEF Demo!Apply, DemoTypes, Demo!Events
    <3> QED BY <1>1, <1>4, <3>1 DEF Fresh
  <2> QED BY <2>1, <2>2
<1>12. Awaits(Own, Demo!StopAfter, EarlierDeliveries)'
  BY <1>6, <1>7 DEF Awaits
<1> QED BY <1>1, <1>10, <1>11, <1>12, StillConsuming

LEMMA SettleInv ==
  ASSUME Demo!NamesAssumption, DemoInv, Demo!Settle
  PROVE  DemoInv'
<1>1. /\ Demo!At("consume") /\ held # <<>> /\ held' = <<>>
      /\ broker' = IF held = <<Demo!Poison>> THEN [broker EXCEPT !.dlq = @ + 1] ELSE broker
      /\ demo' = [demo EXCEPT !.settled = @ + 1]
      /\ UNCHANGED <<owned, outbox, inbox, placed, programs>>
  BY DEF Demo!Settle
<1>2. PICK e, n, b : e = Own /\ n = Demo!StopAfter /\ b = EarlierDeliveries
  OBVIOUS
<1>3. /\ Awaits(e, n, b) /\ n \in Nat /\ b \in Nat /\ n + b <= 2
      /\ e \in Demo!Events \cup {Demo!Poison} /\ ~ (Demo!At("child") /\ Demo!At("consume"))
      /\ n = 2 => demo.name = "demo:crash-relay"
  <2>1. ~ (Demo!At("child") /\ Demo!At("consume"))
    BY DEF Demo!At
  <2> QED BY <1>1, <1>2, <2>1, WhileConsuming DEF Demo!StopAfter
<1>4. DemoTypes /\ Fresh /\ demo.name \in Demo!Programs
  BY <1>1, AtStep DEF DemoInv
<1>5. /\ demo'.name = demo.name /\ demo'.step = demo.step
      /\ demo'.published = demo.published /\ demo'.settled = demo.settled + 1
      /\ demo'.verdict = demo.verdict /\ demo'.marked = demo.marked
      /\ demo' \in DemoStates
  <2>1. demo \in DemoStates
    BY <1>4 DEF DemoTypes
  <2> QED BY <1>1, <2>1
<1>6. /\ broker \in Brokers
      /\ broker'.work = broker.work
      /\ held = <<Demo!Poison>> => broker'.dlq = broker.dlq + 1
      /\ held # <<Demo!Poison>> => broker'.dlq = broker.dlq
  <2>1. broker \in Brokers
    BY <1>4 DEF DemoTypes
  <2> QED BY <1>1, <2>1
<1>7. Awaits(e, n, b)'
  BY <1>1, <1>3, <1>4, <1>5, <1>6, SettledOne
<1>8. Own' = e /\ Demo!StopAfter' = n /\ EarlierDeliveries' = b
  BY <1>1, <1>2, <1>5 DEF Own, Demo!StopAfter, EarlierDeliveries
<1>9. Awaits(Own, Demo!StopAfter, EarlierDeliveries)'
  BY <1>7, <1>8 DEF Awaits
<1>10. broker' \in Brokers
  <2>1. held = <<Demo!Poison>> => broker.dlq = 0
    <3> HAVE held = <<Demo!Poison>>
    <3>1. e = Demo!Poison /\ Len(held) = 1
      BY <1>3, OneMoreCopy DEF Awaits
    <3>2. n = 1
      <4>1. n \in {1, 2} /\ (n = 2 => demo.name = "demo:crash-relay")
        BY <1>1, <1>2, <1>3, WhileConsuming
      <4>2. demo.name = "demo:crash-relay" => e \in Orders
        BY <1>1, <1>2, WhileConsuming DEF Placing
      <4> QED BY <3>1, <4>1, <4>2 DEF Demo!NamesAssumption
    <3>3. Len(broker.work) \in Nat /\ demo.settled \in Nat
      BY <1>4, LenProperties DEF DemoTypes
    <3> QED BY <1>3, <3>1, <3>2, <3>3 DEF Awaits
  <2> QED BY <1>1, <1>6, <2>1
<1>11. DemoTypes'
  <2>1. held' \in Seq(Demo!Events \cup {Demo!Poison}) /\ Len(held') <= 1
    BY <1>1
  <2> QED BY <1>1, <1>4, <1>5, <1>10, <2>1 DEF DemoTypes
<1>12. Fresh'
  BY <1>1, <1>4 DEF Fresh
<1>13. ~ Demo!At("child") \/ demo'.settled = demo.settled
  BY <1>1, <1>3
<1> QED BY <1>1, <1>5, <1>9, <1>11, <1>12, <1>13, StillConsuming

LEMMA ConsumedInv ==
  ASSUME Demo!NamesAssumption, DemoInv, Demo!Consumed
  PROVE  DemoInv'
<1> USE DEF DemoInv
<1>1. /\ Demo!At("consume") /\ held = <<>> /\ Demo!Continues
      /\ demo.settled = Demo!StopAfter \/ broker.work = <<>>
      /\ UNCHANGED <<owned, outbox, inbox, broker, held, placed, programs>>
  BY DEF Demo!Consumed
<1>2. /\ demo'.name = demo.name /\ demo'.step = demo.step + 1
      /\ demo'.published = demo.published /\ demo'.settled = demo.settled
      /\ demo'.marked = demo.marked
  BY <1>1, ContinuesFacts
<1>3. /\ Awaits(Own, Demo!StopAfter, EarlierDeliveries) /\ Demo!StopAfter \in {1, 2}
      /\ demo.name \in Unkeyed \cup Placing /\ demo.step \in {6, 8, 12}
      /\ demo.step + 1 = ScriptLength(demo.name)
      /\ demo.name \in Placing => demo.step = 12 /\ demo.name \notin Unkeyed
  BY <1>1, WhileConsuming
<1>4. DemoTypes'
  BY <1>1, ContinuesTypes DEF DemoTypes
<1>5. Fresh'
  BY <1>1 DEF Fresh
<1>6. demo.settled = Demo!StopAfter
  <2>1. ASSUME broker.work = <<>> PROVE demo.settled = Demo!StopAfter
    <3>1. Len(broker.work) = 0 /\ Len(held) = 0 /\ demo.settled \in Nat
      BY <1>1, <2>1 DEF DemoTypes
    <3> QED BY <1>3, <3>1 DEF Awaits
  <2> QED BY <1>1, <2>1
<1>7. Counting'
  BY <1>1, <1>2, <1>6 DEF Counting, Demo!StopAfter
<1>8. demo.name \in Placing => Relaying'
  <2> HAVE demo.name \in Placing
  <2>1. Relaying /\ demo.step = 12
    BY <1>3
  <2> QED BY <1>1, <1>2, <2>1 DEF Relaying, Awaits, Placing
<1>9. demo.name \in Unkeyed => Sending'
  <2> HAVE demo.name \in Unkeyed
  <2>1. Sending /\ demo.step \in {6, 8}
    BY <1>3 DEF ScriptLength, Unkeyed, Placing, Demo!Named
  <2>2. Own' = Own
    BY <1>1, <1>2 DEF Own
  <2>3. demo.name = "demo:duplicate" <=> demo.step = 8
    BY <1>3, <2>1 DEF ScriptLength, Placing, Unkeyed, Demo!Named
  <2> QED BY <1>1, <1>2, <2>1, <2>2, <2>3 DEF Sending, Awaits
<1>10. demo.name # "demo:crash-write"
  BY <1>3 DEF Unkeyed, Placing, Demo!Named
<1>11. /\ demo'.step >= 4 /\ (demo.name \in Placing => demo'.step = 13)
       /\ demo.name \in Demo!Keyed => demo.name \in Placing
  BY <1>2, <1>3 DEF Unkeyed, Placing, Demo!Keyed, Demo!Named
<1> QED BY <1>2, <1>3, <1>4, <1>5, <1>7, <1>8, <1>9, <1>10, <1>11

\* The child that demo:duplicate waits for has applied the event, and holds it.
LEMMA ChildHolds ==
  ASSUME Demo!NamesAssumption, DemoInv, demo.name = "demo:duplicate", demo.step \in {6, 7}, held # <<>>
  PROVE  /\ Own = demo.name /\ Own \in Demo!Events /\ Own # Demo!Poison /\ Awaits(Own, 1, 0)
         /\ demo.settled = 0
         /\ held = <<Own>> /\ broker.work = <<>> /\ inbox.deliveries[Own] = 1
         /\ Own \in inbox.processed /\ (Own \in inbox.effects \/ demo.marked)
<1> USE DEF DemoInv
<1>1. demo.name \in Unkeyed /\ Own = demo.name /\ Own \in Demo!Events /\ Own # Demo!Poison
  BY DEF Unkeyed, Demo!Named, Own, Demo!Keyed, Demo!Events, Demo!Poison
<1>2. Awaits(Own, 1, 0) /\ demo.settled = 0
  BY <1>1 DEF Sending, DemoTypes
<1>3. held = <<Own>> /\ Len(held) = 1 /\ Len(broker.work) \in Nat
  BY <1>2, OneMoreCopy DEF Awaits, DemoTypes
<1>4. Len(broker.work) = 0
  BY <1>2, <1>3 DEF Awaits
<1>5. broker.work = <<>>
  BY <1>4, EmptySeq DEF DemoTypes
<1>6. inbox.deliveries[Own] = 1
  BY <1>1, <1>2, <1>4 DEF Awaits, DemoTypes
<1> QED BY <1>1, <1>2, <1>3, <1>5, <1>6 DEF Awaits

LEMMA EffectSeenInv ==
  ASSUME Demo!NamesAssumption, DemoInv, Demo!EffectSeen
  PROVE  DemoInv'
<1>1. /\ Demo!At("child") /\ held # <<>>
      /\ UNCHANGED <<owned, outbox, inbox, placed, programs>>
  BY DEF Demo!EffectSeen
<1>2. DemoTypes /\ demo.name = "demo:duplicate" /\ demo.step = 6
  BY <1>1, AtStep DEF StepIs, DemoInv
<1>3. /\ Own = demo.name /\ Awaits(Own, 1, 0) /\ demo.settled = 0
      /\ Own \in inbox.effects \/ demo.marked
  BY <1>1, <1>2, ChildHolds
<1>4. CASE demo.name \notin inbox.effects
  <2>1. Demo!Ends("failed") /\ demo.marked
    BY <1>3, <1>4 DEF Demo!EffectSeen
  <2> QED BY <1>1, <2>1, EndsInv
<1>5. CASE demo.name \in inbox.effects
  <2>1. Demo!Continues /\ UNCHANGED <<broker, held>>
    BY <1>5 DEF Demo!EffectSeen
  <2>2. /\ demo'.name = demo.name /\ demo'.step = 7
        /\ demo'.published = demo.published /\ demo'.settled = demo.settled
        /\ demo'.marked = demo.marked
    BY <1>1, <1>2, <2>1, ContinuesFacts
  <2>3. DemoTypes'
    BY <1>1, <1>2, <2>1, ContinuesTypes DEF DemoTypes
  <2>4. Fresh'
    BY <1>1 DEF Fresh, DemoInv
  <2>5. Sending'
    <3>1. Own' = Own
      BY <1>1, <2>2 DEF Own
    <3> QED BY <1>1, <1>2, <1>3, <2>1, <2>2, <3>1 DEF Sending, Awaits
  <2>6. Counting'
    BY <1>2, <2>2 DEF Counting, ScriptLength, Placing
  <2> QED BY <1>2, <2>2, <2>3, <2>4, <2>5, <2>6 DEF DemoInv, Placing, Demo!Keyed
<1> QED BY <1>4, <1>5

LEMMA KillChildInv ==
  ASSUME Demo!NamesAssumption, DemoInv, Demo!KillChild
  PROVE  DemoInv'
<1>1. /\ Demo!At("kill") /\ held' = <<>> /\ Demo!Continues
      /\ broker' = [broker EXCEPT !.work = held \o broker.work]
      /\ UNCHANGED <<owned, outbox, inbox, placed, programs>>
  BY DEF Demo!KillChild
<1>2. DemoTypes /\ demo.name = "demo:duplicate" /\ demo.step = 7
  BY <1>1, AtStep DEF StepIs, DemoInv
<1>3. held # <<>>
  BY <1>2 DEF DemoInv, Sending, Unkeyed, Demo!Named
<1>4. PICK e : e = Own
  OBVIOUS
<1>5. /\ e = demo.name /\ e \in Demo!Events /\ e # Demo!Poison /\ Awaits(e, 1, 0) /\ demo.settled = 0
      /\ held = <<e>> /\ broker.work = <<>> /\ inbox.deliveries[e] = 1
      /\ e \in inbox.processed /\ (e \in inbox.effects \/ demo.marked)
  BY <1>2, <1>3, <1>4, ChildHolds
<1>6. /\ demo'.name = demo.name /\ demo'.step = 8
      /\ demo'.published = demo.published /\ demo'.settled = demo.settled
      /\ demo'.marked = demo.marked
  BY <1>1, <1>2, ContinuesFacts
<1>7. /\ broker'.work = <<e>> /\ broker'.dlq = 0
      /\ broker' \in Brokers
  <2>1. held \o broker.work = <<e>>
    BY <1>5
  <2>2. <<e>> \in Seq(Demo!Events \cup {Demo!Poison}) /\ broker.dlq = 0
    BY <1>5 DEF Awaits
  <2> QED BY <1>1, <1>2, <2>1, <2>2 DEF DemoTypes
<1>8. DemoTypes'
  <2>1. held' \in Seq(Demo!Events \cup {Demo!Poison}) /\ Len(held') <= 1
    BY <1>1
  <2> QED BY <1>1, <1>2, <1>7, <2>1, ContinuesTypes DEF DemoTypes
<1>9. Fresh'
  BY <1>1 DEF Fresh, DemoInv
<1>10. Awaits(e, 1, 1)'
  <2>1. broker'.work \in Seq({e}) /\ held' \in Seq({e}) /\ Len(broker'.work) = 1 /\ Len(held') = 0
    <3>1. <<e>> \in Seq({e}) /\ <<>> \in Seq({e}) /\ Len(<<e>>) = 1 /\ Len(<<>>) = 0
      OBVIOUS
    <3> QED BY <1>1, <1>7, <3>1
  <2> QED BY <1>1, <1>5, <1>6, <1>7, <2>1 DEF Awaits
<1>11. Sending'
  <2>1. Own' = e
    BY <1>1, <1>4, <1>6 DEF Own
  <2> QED BY <1>2, <1>6, <1>10, <2>1 DEF Sending, Awaits
<1>12. Counting'
  BY <1>2, <1>6 DEF Counting, ScriptLength, Placing
<1> QED BY <1>2, <1>6, <1>8, <1>9, <1>11, <1>12 DEF DemoInv, Placing, Demo!Keyed

\* The counts are as shown.
LEMMA Shown ==
  ASSUME Demo!NamesAssumption, DemoInv, Demo!At("count")
  PROVE  Demo!AsShown \/ demo.marked
<1> USE DEF DemoInv
<1>1. demo.name \in Demo!Programs /\ demo.step = ScriptLength(demo.name)
  BY AtStep DEF StepIs
<1>2. CASE demo.name = "demo:publish"
  <2>1. /\ demo.name \in Unkeyed /\ demo.step = 7 /\ Own = demo.name /\ Own # Demo!Poison
        /\ demo.settled = 1
    BY <1>1, <1>2 DEF Unkeyed, Demo!Named, ScriptLength, Own, Demo!Keyed, Counting,
                      Demo!StopAfter, Demo!Poison
  <2>2. Awaits(Own, 1, 0)
    BY <1>2, <2>1 DEF Sending
  <2>3. Own \in inbox.effects \/ demo.marked
    <3>1. Len(broker.work) \in Nat /\ Len(held) \in Nat
      BY LenProperties DEF DemoTypes
    <3>2. Len(broker.work) = 0
      BY <2>1, <2>2, <3>1 DEF Awaits
    <3>3. Own \in Demo!Events /\ inbox.deliveries[Own] + 0 = 1 /\ inbox.deliveries[Own] \in Nat
      BY <2>1, <2>2, <3>2 DEF Awaits, DemoTypes
    <3> QED BY <2>1, <2>2, <3>3 DEF Awaits
  <2>4. Demo!PublishOk \/ demo.marked
    BY <2>1, <2>2, <2>3 DEF Demo!PublishOk, Awaits
  <2> QED BY <1>2, <2>4, Zenon DEF Demo!AsShown
<1>3. CASE demo.name = "demo:dlq"
  <2>1. demo.name \in Unkeyed /\ demo.step = 7 /\ Own = Demo!Poison /\ demo.settled = 1
    BY <1>1, <1>3 DEF Unkeyed, Demo!Named, ScriptLength, Own, Counting, Demo!StopAfter
  <2>2. Awaits(Own, 1, 0)
    BY <1>3, <2>1 DEF Sending
  <2>3. broker.work = <<>>
    <3>1. Len(broker.work) \in Nat /\ Len(held) \in Nat
      BY LenProperties DEF DemoTypes
    <3>2. Len(broker.work) = 0
      BY <2>1, <2>2, <3>1 DEF Awaits
    <3> QED BY <3>2, EmptySeq DEF DemoTypes
  <2>4. Demo!DlqOk
    BY <2>1, <2>2, <2>3 DEF Demo!DlqOk, Awaits
  <2>5. demo.name # "demo:publish"
    BY <1>3
  <2> QED BY <1>3, <2>4, <2>5, Zenon DEF Demo!AsShown
<1>4. CASE demo.name = "demo:duplicate"
  <2>1. /\ demo.name \in Unkeyed /\ demo.step = 9 /\ Own = demo.name /\ Own # Demo!Poison
        /\ demo.settled = 1
    BY <1>1, <1>4 DEF Unkeyed, Demo!Named, ScriptLength, Placing, Own, Demo!Keyed,
                      Counting, Demo!StopAfter, Demo!Poison
  <2>2. Awaits(Own, 1, 1)
    BY <1>4, <2>1 DEF Sending
  <2>3. inbox.deliveries[Own] = 2 /\ (Own \in inbox.effects \/ demo.marked)
    <3>1. Len(broker.work) \in Nat /\ Len(held) \in Nat
      BY LenProperties DEF DemoTypes
    <3>2. Len(broker.work) = 0
      BY <2>1, <2>2, <3>1 DEF Awaits
    <3>3. Own \in Demo!Events /\ inbox.deliveries[Own] + 0 = 2 /\ inbox.deliveries[Own] \in Nat
      BY <2>1, <2>2, <3>2 DEF Awaits, DemoTypes
    <3> QED BY <2>1, <2>2, <3>3 DEF Awaits
  <2>4. Demo!DuplicateOk \/ demo.marked
    BY <2>1, <2>3 DEF Demo!DuplicateOk
  <2>5. demo.name # "demo:publish" /\ demo.name # "demo:dlq"
    BY <1>4
  <2> QED BY <1>4, <2>4, <2>5, Zenon DEF Demo!AsShown
<1>5. CASE demo.name \in Placing
  <2>1. Relaying /\ demo.step = 13 /\ Counting
    BY <1>1, <1>5 DEF ScriptLength, Placing
  <2> PICK o : o = owned[demo.name]
    OBVIOUS
  <2>2. o \in Orders /\ o # None /\ o \in Demo!Events /\ o # Demo!Poison
    BY <2>1 DEF Relaying, DemoTypes, Demo!NamesAssumption, Demo!Events
  <2>3. PICK n \in {1, 2} :
          /\ Awaits(o, n, 0) /\ n = Demo!StopAfter /\ demo.published = n
          /\ demo.name = "demo:outbox" => n = 1 /\ outbox[o] # "none"
          /\ demo.name = "demo:crash-relay" => n = 2
    BY <1>5, <2>1 DEF Relaying, Demo!StopAfter, Placing
  <2>4. inbox.deliveries[o] = n /\ o \in inbox.processed /\ (o \in inbox.effects \/ demo.marked)
    <3>1. Len(broker.work) \in Nat /\ Len(held) \in Nat /\ demo.settled = n
      BY <1>1, <2>1, <2>3, LenProperties DEF DemoTypes, Counting
    <3>2. Len(broker.work) = 0
      BY <2>3, <3>1 DEF Awaits
    <3>3. inbox.deliveries[o] + 0 = n /\ inbox.deliveries[o] \in Nat
      <4>1. inbox.deliveries[o] \in Nat
        BY <2>2 DEF DemoTypes
      <4>2. inbox.deliveries[o] + Len(broker.work) = 0 + n
        BY <2>2, <2>3 DEF Awaits
      <4> QED BY <3>2, <4>1, <4>2
    <3>4. inbox.deliveries[o] = n /\ n # 0
      BY <2>3, <3>3
    <3>5. o # Demo!Poison /\ Awaits(o, n, 0)
      BY <2>2, <2>3
    <3>6. o \in inbox.processed /\ (o \in inbox.effects \/ demo.marked)
      BY <3>4, <3>5 DEF Awaits
    <3> QED BY <3>4, <3>6
  <2>5. ~ demo.marked =>
          Demo!Measured = [orders |-> 1, outbox |-> IF outbox[o] = "none" THEN 0 ELSE 1,
                      deliveries |-> n, effect |-> 1, processed |-> 1]
    BY <2>2, <2>4 DEF Demo!Measured
  <2>6. CASE demo.name = "demo:outbox"
    <3>1. Demo!OutboxOk \/ demo.marked
      BY <2>3, <2>5, <2>6 DEF Demo!OutboxOk
    <3>2. demo.name \notin {"demo:publish", "demo:dlq", "demo:duplicate"}
      BY <2>6
    <3> QED BY <2>6, <3>1, <3>2, Zenon DEF Demo!AsShown
  <2>7. CASE demo.name = "demo:crash-relay"
    <3>1. Demo!CrashRelayOk \/ demo.marked
      BY <2>3, <2>5, <2>7 DEF Demo!CrashRelayOk
    <3>2. demo.name \notin {"demo:publish", "demo:dlq", "demo:duplicate", "demo:outbox"}
      BY <2>7
    <3> QED BY <2>7, <3>1, <3>2, Zenon DEF Demo!AsShown
  <2> QED BY <1>5, <2>6, <2>7 DEF Placing
<1>6. CASE demo.name = "demo:crash-write"
  <2>1. demo.name \in Demo!Keyed /\ demo.step = 9
    BY <1>1, <1>6 DEF Demo!Keyed, ScriptLength, Placing
  <2>2. owned[demo.name] = None
    BY <1>6, <2>1 DEF Cleaning
  <2>3. Demo!CrashWriteOk
    BY <2>2 DEF Demo!CrashWriteOk, Demo!Measured
  <2>4. demo.name \notin {"demo:publish", "demo:dlq", "demo:duplicate", "demo:outbox",
                          "demo:crash-relay"}
    BY <1>6
  <2> QED BY <1>6, <2>3, <2>4, Zenon DEF Demo!AsShown
<1> QED BY <1>1, <1>2, <1>3, <1>4, <1>5, <1>6 DEF Demo!Programs, Demo!Keyed, Demo!Named, Placing

LEMMA ReportInv ==
  ASSUME Demo!NamesAssumption, DemoInv, Demo!Report
  PROVE  DemoInv'
<1>1. /\ Demo!At("count") /\ Demo!Ends(IF Demo!AsShown THEN "ok" ELSE "failed")
      /\ UNCHANGED <<owned, outbox, inbox, placed, programs>>
  BY DEF Demo!Report
<1>2. Demo!AsShown \/ demo.marked
  BY <1>1, Shown
<1> HIDE DEF Demo!AsShown
<1>3. CASE Demo!AsShown
  <2>1. Demo!Ends("ok")
    BY <1>1, <1>3
  <2> QED BY <1>1, <2>1, EndsInv
<1>4. CASE ~ Demo!AsShown
  <2>1. Demo!Ends("failed")
    BY <1>1, <1>4
  <2> QED BY <1>1, <1>2, <1>4, <2>1, EndsInv
<1> QED BY <1>3, <1>4

LEMMA CutInv ==
  ASSUME Demo!NamesAssumption, DemoInv, Demo!Cut
  PROVE  DemoInv'
BY EndsInv DEF Demo!Cut

LEMMA DemoStart ==
  ASSUME Demo!NamesAssumption, Demo!Init
  PROVE  DemoInv
<1>1. /\ demo = [name |-> None, step |-> 1, published |-> 0, settled |-> 0, verdict |-> "none",
                 marked |-> FALSE]
      /\ owned = [p \in Demo!Keyed |-> None] /\ outbox = [o \in Orders |-> "none"]
      /\ inbox = [deliveries |-> [e \in Demo!Events |-> 0], effects |-> {}, processed |-> {}]
      /\ broker = [up |-> FALSE, work |-> <<>>, dlq |-> 0] /\ held = <<>>
      /\ placed = {} /\ programs = 0
  BY DEF Demo!Init, Demo!NoDemo
<1>2. <<>> \in Seq(Demo!Events \cup {Demo!Poison}) /\ Len(<<>>) = 0
  OBVIOUS
<1>3. DemoTypes
  BY <1>1, <1>2 DEF DemoTypes, Demo!NamesAssumption
<1>4. Fresh
  BY <1>1 DEF Fresh, Demo!Events
<1>5. None \notin Demo!Programs
  BY DEF Demo!NamesAssumption
<1> QED BY <1>1, <1>3, <1>4, <1>5 DEF DemoInv, Unkeyed, Placing, Demo!Programs, Demo!Keyed

LEMMA DemoNextInv ==
  ASSUME Demo!NamesAssumption, DemoInv, [Demo!Next]_Demo!demoVars
  PROVE  DemoInv'
<1>1. CASE \E p \in Demo!Programs : Demo!Start(p)
  BY <1>1, StartInv
<1>2. CASE Demo!DeleteInbox \/ Demo!DeleteOutbox \/ Demo!DeleteKey \/ Demo!Drop \/ Demo!Declare
  BY <1>2, DeleteInboxInv, DeleteRowsInv, DropInv, DeclareInv
<1>3. CASE Demo!SendOwn \/ Demo!PlaceOrder \/ Demo!WriteFails \/ Demo!Relay \/ Demo!Mark
  BY <1>3, SendOwnInv, PlaceOrderInv, WriteFailsInv, RelayInv, MarkInv
<1>4. CASE Demo!Handle \/ Demo!Settle \/ Demo!Consumed \/ Demo!EffectSeen \/ Demo!KillChild
  BY <1>4, HandleInv, SettleInv, ConsumedInv, EffectSeenInv, KillChildInv
<1>5. CASE Demo!Report \/ Demo!Cut
  BY <1>5, ReportInv, CutInv
<1>6. CASE UNCHANGED Demo!demoVars
  <2>1. UNCHANGED <<owned, outbox, inbox, broker, held, demo, placed, programs>>
    BY <1>6 DEF Demo!demoVars
  <2>2. DemoTypes' /\ Fresh'
    BY <2>1 DEF DemoInv, DemoTypes, Fresh
  <2>3. Cleaning' <=> Cleaning
    BY <2>1 DEF Cleaning
  <2>4. Sending' <=> Sending
    BY <2>1 DEF Sending, Awaits, Own
  <2>5. Relaying' <=> Relaying
    BY <2>1 DEF Relaying, Awaits
  <2>6. Counting' <=> Counting
    BY <2>1 DEF Counting, Demo!StopAfter
  <2>7. /\ demo' = demo
        /\ (DemoTypes /\ Fresh)'
    BY <2>1, <2>2
  <2> QED BY <2>3, <2>4, <2>5, <2>6, <2>7 DEF DemoInv
<1> QED BY <1>1, <1>2, <1>3, <1>4, <1>5, <1>6 DEF Demo!Next

LEMMA DemoTypesOK ==
  ASSUME Demo!NamesAssumption, DemoInv
  PROVE  Demo!TypeOK
<1>1. demo.name # None => demo.step \in DOMAIN Demo!Script[demo.name]
  BY StepsOfScripts DEF DemoInv, DemoTypes
<1> QED BY <1>1 DEF DemoInv, DemoTypes, Demo!TypeOK

-----------------------------------------------------------------------------
(* The parts side by side: a step is a step of one of them.                *)

LEMMA PartsStart ==
  ASSUME PartsInit
  PROVE  /\ KeysInv /\ RotationInv /\ PagesInv
         /\ RetryInv /\ BackupInv /\ SeedInv /\ SeedStarts /\ DemoInv
<1>1. /\ Init /\ Rotation!Init /\ Pages!Init
      /\ Retry!Init /\ Backup!Init /\ Seed!Init /\ Demo!Init
  BY DEF PartsInit
<1> QED BY <1>1, BoundsOfParts, ListsOfParts, KeysInitInv, RotationInitInv, PagesInitInv,
           RetryInitInv, BackupInitInv, SeedInitInv, SeedStartsInit, DemoStart

LEMMA PartsStep ==
  ASSUME [PartsNext]_partsVars
  PROVE  /\ [Next]_vars /\ [Rotation!Next]_Rotation!vars /\ [Pages!Next]_Pages!vars
         /\ [Retry!Next]_Retry!retryVars /\ [Backup!Next]_Backup!backupVars
         /\ [Seed!Next]_Seed!seedVars /\ [Demo!Next]_Demo!demoVars
<1>1. [Next]_vars
  BY DEF PartsNext, partsVars
<1>2. [Rotation!Next]_Rotation!vars
  BY DEF PartsNext, partsVars, rotationVars, Rotation!vars, Rotation!secrets, Rotation!pooler
<1>3. [Pages!Next]_Pages!vars
  BY DEF PartsNext, partsVars, pagesVars, Pages!vars, Pages!table, Pages!given
<1>4. [Retry!Next]_Retry!retryVars
  BY DEF PartsNext, partsVars, retryVars, Retry!retryVars, Retry!table
<1>5. [Backup!Next]_Backup!backupVars
  BY DEF PartsNext, partsVars, backupVars, Backup!backupVars
<1>6. [Seed!Next]_Seed!seedVars
  BY DEF PartsNext, partsVars, seedVars, Seed!seedVars
<1>7. [Demo!Next]_Demo!demoVars
  BY DEF PartsNext, partsVars, demoVars, Demo!demoVars
<1> QED BY <1>1, <1>2, <1>3, <1>4, <1>5, <1>6, <1>7

\* The map of every process stays sorted by expiry, with a key in it once, so
\* that sweep of the interceptor, which stops at the first record that has not
\* expired, leaves none that has.
THEOREM MapsAreSwept == PartsSpec => []SweepLeavesNothing
<1>1. PartsInit => KeysInv
  BY PartsStart
<1>2. KeysInv /\ [PartsNext]_partsVars => KeysInv'
  BY PartsStep, BoundsOfParts, ListsOfParts, KeysNextInv
<1>3. KeysInv => SweepLeavesNothing
  BY KeysSwept
<1> QED BY <1>1, <1>2, <1>3, PTL DEF PartsSpec

\* Whichever process the requests of a key reach, after restarts and after the
\* map has forgotten the key: every 201 names one order and answers one body,
\* and 422 is said only when a request of the key came with another body.
THEOREM KeysStandForOneOrder == PartsSpec => []OneAnswerPerKey
<1>1. PartsInit => KeysInv
  BY PartsStart
<1>2. KeysInv /\ [PartsNext]_partsVars => KeysInv'
  BY PartsStep, BoundsOfParts, ListsOfParts, KeysNextInv
<1>3. KeysInv => OneAnswerPerKey
  BY KeysAnswer
<1> QED BY <1>1, <1>2, <1>3, PTL DEF PartsSpec

\* The interceptor and the table implement KeyStore, for any requests, processes
\* and kills: a key is given one order and keeps it, beyond the 24 hours of
\* openapi.yaml too, and each answer has its reason in the requests of that key.
THEOREM KeysKeepPromise == PartsSpec => KeysKeepTheirOrder
<1>1. PartsInit => KeysInv /\ InFlightHeld /\ Promise!Init
  BY PartsStart, HeldInit, KeysPromiseInit DEF PartsInit
<1>2. KeysInv /\ InFlightHeld /\ [PartsNext]_partsVars => KeysInv' /\ InFlightHeld'
  BY PartsStep, KeysNextInv, HeldNext
<1>3. KeysInv /\ InFlightHeld /\ [PartsNext]_partsVars => [Promise!Next]_(Promise!vars)
  BY PartsStep, KeysPromise
<1> QED BY <1>1, <1>2, <1>3, PTL DEF PartsSpec, KeysKeepTheirOrder, Promise!Spec

\* With any number of walks, limits and rows: a walk through paginate gets no
\* row twice and, at its end, every row that was there all along.
THEOREM WalksSeeEachOnce == PartsSpec => []WalkSeesEachOnce
<1>1. PartsInit => PagesInv
  BY PartsStart
<1>2. PagesInv /\ [PartsNext]_partsVars => PagesInv'
  BY PartsStep, BoundsOfParts, ListsOfParts, PagesNextInv
<1>3. PagesInv => WalkSeesEachOnce
  BY PagesWalkSees DEF WalkSeesEachOnce
<1> QED BY <1>1, <1>2, <1>3, PTL DEF PartsSpec

\* With any number of callers, attempts and faults: the balance of demo-retry is
\* the number of commits, no call of withSerializationRetry commits twice, one
\* that returned has committed, and when all have, one of them was repeated.
THEOREM NoUpdateLost == PartsSpec => []NoLostUpdate
<1>1. PartsInit => RetryInv
  BY PartsStart
<1>2. RetryInv /\ [PartsNext]_partsVars => RetryInv'
  BY PartsStep, BoundsOfParts, ListsOfParts, RetryNextInv
<1>3. RetryInv => NoLostUpdate
  BY ListsOfParts, BoundsOfParts, RetryNoLostUpdate DEF NoLostUpdate
<1> QED BY <1>1, <1>2, <1>3, PTL DEF PartsSpec

\* Once a backup has succeeded there is a complete dump with its checksum,
\* whatever was killed, pruned or written since; and restore-drill finds other
\* sums only in a dump with a write between its sums and its snapshot.
THEOREM DumpsRestore == PartsSpec => []BackupsRestore
<1>1. PartsInit => BackupInv
  BY PartsStart
<1>2. BackupInv /\ [PartsNext]_partsVars => BackupInv'
  BY PartsStep, BoundsOfParts, ListsOfParts, BackupNextInv
<1>3. BackupInv => BackupsRestore
  BY BackupRestores DEF BackupsRestore
<1> QED BY <1>1, <1>2, <1>3, PTL DEF PartsSpec

\* Whenever and however often seed.ts is killed, started again and run twice at
\* once: no user twice, nothing twice unless two have run at once, and what a
\* seed has passed is there but for what was deleted meanwhile.
THEOREM SeedsConverge == PartsSpec => []SeedConverges
<1>1. PartsInit => SeedInv
  BY PartsStart
<1>2. SeedInv /\ [PartsNext]_partsVars => SeedInv'
  BY PartsStep, BoundsOfParts, ListsOfParts, SeedNextInv
<1>3. SeedInv => SeedConverges
  BY SeedConverged DEF SeedConverges
<1> QED BY <1>1, <1>2, <1>3, PTL DEF PartsSpec

\* A demo that is run to its end shows the counts of README, whatever demos ran
\* before it and wherever they were cut off, for any number of orders and
\* programs, unless its event is marked as processed since an earlier program.
THEOREM DemosShowTheirCounts == PartsSpec => []DemosRepeat
<1>1. PartsInit => DemoInv
  BY PartsStart
<1>2. DemoInv /\ [PartsNext]_partsVars => DemoInv'
  BY PartsStep, ListsOfParts, DemoNextInv
<1>3. DemoInv => DemosRepeat
  BY DEF DemoInv, DemoTypes, DemosRepeat, Demo!DemosRepeat
<1> QED BY <1>1, <1>2, <1>3, PTL DEF PartsSpec

\* Every variable of every part keeps its type.
THEOREM PartsTypeCorrect == PartsSpec => []TypesOK
<1> DEFINE PartsInv == /\ KeysInv /\ RotationInv /\ PagesInv
                       /\ RetryInv /\ BackupInv /\ SeedInv /\ SeedStarts /\ DemoInv
<1>1. PartsInit => PartsInv
  BY PartsStart
<1>2. PartsInv /\ [PartsNext]_partsVars => PartsInv'
  BY PartsStep, BoundsOfParts, ListsOfParts, KeysNextInv, RotationNextInv, PagesNextInv,
     RetryNextInv, BackupNextInv, SeedNextInv, SeedStartsNext, DemoNextInv
<1>3. PartsInv => TypesOK
  BY BoundsOfParts, ListsOfParts, KeysTypeOK, PagesTypeOK, RetryTypeOK, BackupTypeOK,
     SeedTypeOK, DemoTypesOK DEF TypesOK, RotationInv
<1> QED
  <2> HIDE DEF PartsInv
  <2> QED BY <1>1, <1>2, <1>3, PTL DEF PartsSpec

\* With no script at work and PgBouncer back, no pool's query fails but TypeORM's
\* in a process older than the password, and unless the file was left empty, for
\* any number of rotations and cuts.
THEOREM RotationsLetIn == PartsSpec => FailsOnlyInRotation
<1> DEFINE Only == \A p \in Rotation!Pools :
                     Rotation!Fails(p) => \/ script # "idle"
                                          \/ bouncer # "up"
                                          \/ file = Rotation!Nothing
                                          \/ p = "typeorm" /\ startup # file
<1>1. PartsInit => RotationInv
  BY PartsStart
<1>2. RotationInv /\ [PartsNext]_partsVars => RotationInv'
  BY PartsStep, BoundsOfParts, RotationNextInv
<1>3. RotationInv => [Only]_Rotation!vars
  BY RotationAnswers
<1>4. PartsSpec => [][Only]_Rotation!vars
  <2> HIDE DEF Only
  <2> QED BY <1>1, <1>2, <1>3, PTL DEF PartsSpec
<1> QED BY <1>4 DEF FailsOnlyInRotation, Rotation!FailsOnlyInRotation

=============================================================================
