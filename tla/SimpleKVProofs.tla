--------------------------- MODULE SimpleKVProofs ----------------------------
(***************************************************************************)
(* The two key-value stores, ppm_ch11_4 and ppm_ch11_5, for every set of   *)
(* keys and values, every number of buckets and every hash function: each  *)
(* step of a store, deaths of the process included, is a step of the map   *)
(* that DurableMap promises or leaves it as it is.                         *)
(***************************************************************************)
EXTENDS MCPoolPrograms, Sequences, WellFoundedInduction, TLAPS

InBuckets == [0 .. N - 1 -> Seq(Key \X Nat)]

Puts == [op : {"put"}, key : Key, val : Value]

\* emplace_back on a vector.
LEMMA AppendFacts ==
  ASSUME NEW S, NEW s \in Seq(S), NEW x \in S, NEW t, t = Append(s, x)
  PROVE  /\ t \in Seq(S) /\ Len(t) = Len(s) + 1 /\ Len(s) \in Nat
         /\ DOMAIN t = DOMAIN s \cup {Len(s) + 1} /\ Len(s) + 1 \notin DOMAIN s
         /\ t[Len(s) + 1] = x
         /\ \A m \in DOMAIN s : t[m] = s[m]
  OBVIOUS
-----------------------------------------------------------------------------
(* simplekv, ppm_ch11_4 *)

Stores == [kv : BOOLEAN, values : Seq(Value), buckets : InBuckets]

\* Every entry is in the bucket of its key and names a value; no two entries have the
\* same key or name the same value.
Consistent(p) ==
  /\ p \in Stores
  /\ \A b \in 0 .. N - 1 : \A m \in DOMAIN p.buckets[b] :
       /\ KV!index(p.buckets[b][m][1]) = b
       /\ p.buckets[b][m][2] < Len(p.values)
  /\ \A b, c \in 0 .. N - 1 : \A m \in DOMAIN p.buckets[b], l \in DOMAIN p.buckets[c] :
       \/ p.buckets[b][m][1] = p.buckets[c][l][1]
       \/ p.buckets[b][m][2] = p.buckets[c][l][2]
       => b = c /\ m = l

MapOf(p) == [key \in Key |-> KV!Lookup(p, key)]

\* Outside of a transaction the pool is consistent; inside of one, what it started from
\* is, and the pool differs from it by as much of the put as has been done.
KVOutside == kvUndo = <<>> /\ Consistent(kvPool)
KVInside  == kvUndo = <<kvUndo[1]>> /\ Consistent(kvUndo[1])

KVDown    == kvPc = "down" /\ KVOutside /\ kvCall = KV!NoCall
KVRun     == kvPc \in {"make_kv", "run"} /\ KVOutside /\ kvCall \in KV!Calls
KVMade    == /\ kvPc = "commit_kv" /\ KVInside /\ kvCall \in KV!Calls
             /\ kvPool = [kvUndo[1] EXCEPT !.kv = TRUE]
KVGrown   == /\ kvPc = "emplace_bucket" /\ KVInside /\ kvCall \in Puts
             /\ kvPool = [kvUndo[1] EXCEPT !.values = Append(@, kvCall.val)]
             /\ KV!Matches(kvUndo[1], kvCall.key) = {}
KVWritten == /\ kvPc = "commit_put" /\ KVInside /\ kvCall \in Puts
             /\ Consistent(kvPool)
             /\ MapOf(kvPool) = [MapOf(kvUndo[1]) EXCEPT ![kvCall.key] = kvCall.val]
KVDone    == kvPc = "return" /\ KVOutside /\ kvCall.op = "done"

KVInv == KVDown \/ KVRun \/ KVMade \/ KVGrown \/ KVWritten \/ KVDone

LEMMA IndexInRange == \A key \in Key : KV!index(key) \in 0 .. N - 1
  BY HashAssumption DEF KV!index

LEMMA MinOfOne == \A m \in Nat : KV!Min({m}) = m
  <1> SUFFICES ASSUME NEW m \in Nat PROVE KV!Min({m}) = m  OBVIOUS
  <1> QED  BY DEF KV!Min

LEMMA BucketType ==
  ASSUME NEW p \in Stores, NEW b \in 0 .. N - 1, NEW m \in DOMAIN p.buckets[b]
  PROVE  /\ p.buckets[b] \in Seq(Key \X Nat) /\ m \in Nat
         /\ p.buckets[b][m] \in Key \X Nat
         /\ p.buckets[b][m][1] \in Key /\ p.buckets[b][m][2] \in Nat
  <1>1. p.buckets[b] \in Seq(Key \X Nat)  BY DEF Stores, InBuckets
  <1>2. m \in Nat /\ p.buckets[b][m] \in Key \X Nat  BY <1>1
  <1> QED  BY <1>1, <1>2

Entry(p, b, m, key, at) ==
  /\ b \in 0 .. N - 1 /\ m \in DOMAIN p.buckets[b]
  /\ p.buckets[b][m][1] = key /\ p.buckets[b][m][2] = at

\* The search finds the one entry of the key, wherever it is in the bucket.
LEMMA LookupHit ==
  ASSUME NEW p, Consistent(p), NEW b, NEW m, NEW key, NEW at, Entry(p, b, m, key, at)
  PROVE  /\ KV!Matches(p, key) = {m} /\ KV!place(p, key) = at
         /\ KV!Lookup(p, key) = p.values[at + 1]
  <1>1. KV!index(key) = b  BY DEF Consistent, Entry
  <1>2. m \in Nat  BY BucketType DEF Consistent, Entry
  <1>3. KV!Matches(p, key) = {m}  BY <1>1 DEF Consistent, KV!Matches, Entry
  <1>4. KV!place(p, key) = at  BY <1>1, <1>2, <1>3, MinOfOne DEF KV!place, Entry
  <1> QED  BY <1>3, <1>4 DEF KV!Lookup

\* Every search finds an entry or nothing.
LEMMA LookupCases ==
  ASSUME NEW p, Consistent(p), NEW key \in Key
  PROVE  \/ KV!Matches(p, key) = {} /\ KV!Lookup(p, key) = Nothing
         \/ \E m \in DOMAIN p.buckets[KV!index(key)] : p.buckets[KV!index(key)][m][1] = key
  BY DEF KV!Matches, KV!Lookup

\* Overwriting the value a key leads to changes the map at this key.
LEMMA UpdateStores ==
  ASSUME NEW p, Consistent(p), NEW key \in Key, NEW v \in Value, KV!Matches(p, key) # {},
         NEW q, q = [p EXCEPT !.values[KV!place(p, key) + 1] = v]
  PROVE  Consistent(q) /\ MapOf(q) = [MapOf(p) EXCEPT ![key] = v]
  <1> DEFINE b == KV!index(key)
  <1>1. PICK m \in DOMAIN p.buckets[b] : p.buckets[b][m][1] = key
    BY LookupCases
  <1>2. b \in 0 .. N - 1  BY IndexInRange
  <1> DEFINE at == p.buckets[b][m][2]
  <1>3. KV!place(p, key) = at
    <2>1. Entry(p, b, m, key, at)  BY <1>1, <1>2 DEF Entry
    <2> QED  BY <2>1, LookupHit
  <1>4. p \in Stores /\ at \in Nat /\ at < Len(p.values)
    BY <1>1, <1>2, BucketType DEF Consistent
  <1> HIDE DEF b, at
  <1>5. /\ q \in Stores /\ q.buckets = p.buckets /\ Len(q.values) = Len(p.values)
        /\ \A l \in 1 .. Len(p.values) : q.values[l] = IF l = at + 1 THEN v ELSE p.values[l]
    <2> DEFINE w == [p.values EXCEPT ![at + 1] = v]
    <2>1. q = [p EXCEPT !.values = w]  BY <1>3
    <2>2. p.values \in Seq(Value)  BY <1>4 DEF Stores
    <2>3. /\ w \in Seq(Value) /\ Len(w) = Len(p.values)
          /\ \A l \in 1 .. Len(p.values) : w[l] = IF l = at + 1 THEN v ELSE p.values[l]
      BY <1>4, <2>2
    <2> HIDE DEF w
    <2>4. q.values = w /\ q.buckets = p.buckets /\ q \in Stores  BY <1>4, <2>1, <2>3 DEF Stores
    <2> QED  BY <2>3, <2>4
  <1>6. Consistent(q)  BY <1>5 DEF Consistent
  <1>7. ASSUME NEW other \in Key
        PROVE  KV!Lookup(q, other) = IF other = key THEN v ELSE KV!Lookup(p, other)
    <2>1. CASE KV!Matches(p, other) = {}
      <3>1. KV!Matches(q, other) = {}  BY <1>5, <2>1 DEF KV!Matches
      <3>2. other # key  BY <2>1
      <3> QED  BY <2>1, <3>1, <3>2 DEF KV!Lookup
    <2>2. CASE KV!Matches(p, other) # {}
      <3> DEFINE c == KV!index(other)
      <3>1. PICK l \in DOMAIN p.buckets[c] : p.buckets[c][l][1] = other
        BY <2>2, LookupCases
      <3>2. c \in 0 .. N - 1  BY IndexInRange
      <3> DEFINE its == p.buckets[c][l][2]
      <3>3. KV!Lookup(p, other) = p.values[its + 1]
        <4>1. Entry(p, c, l, other, its)  BY <3>1, <3>2 DEF Entry
        <4> QED  BY <4>1, LookupHit
      <3>4. KV!Lookup(q, other) = q.values[its + 1]
        <4>1. Entry(q, c, l, other, its)  BY <1>5, <3>1, <3>2 DEF Entry
        <4> HIDE DEF c, its
        <4> QED  BY <1>6, <4>1, LookupHit, ZenonT(30)
      <3>5. its \in Nat /\ its < Len(p.values)
        BY <1>4, <3>2, BucketType DEF Consistent
      <3>6. its = at <=> other = key
        <4>1. other = key => c = b  BY DEF b
        <4> HIDE DEF c
        <4> QED  BY <1>1, <1>2, <3>1, <3>2, <4>1 DEF Consistent, at
      <3> HIDE DEF its, c
      <3>7. its + 1 \in 1 .. Len(p.values) /\ (its + 1 = at + 1 <=> its = at)
        BY <1>4, <3>5
      <3> QED  BY <1>5, <3>3, <3>4, <3>6, <3>7
    <2> QED  BY <2>1, <2>2
  <1>8. MapOf(q) = [MapOf(p) EXCEPT ![key] = v]  BY <1>7 DEF MapOf
  <1> QED  BY <1>6, <1>8

Inserted(p, q, key, v) ==
  /\ q \in Stores
  /\ q.values = Append(p.values, v)
  /\ q.buckets = [p.buckets EXCEPT ![KV!index(key)] = Append(@, <<key, Len(p.values)>>)]

\* Appending a value and an entry that leads to it adds a key that was not there.
LEMMA InsertStores ==
  ASSUME NEW p, Consistent(p), NEW key \in Key, NEW v \in Value, KV!Matches(p, key) = {},
         NEW q, Inserted(p, q, key, v)
  PROVE  Consistent(q) /\ MapOf(q) = [MapOf(p) EXCEPT ![key] = v]
  <1> DEFINE b == KV!index(key)
             new == Len(p.buckets[b]) + 1
  <1>1. p \in Stores /\ Len(p.values) \in Nat /\ b \in 0 .. N - 1
    BY IndexInRange DEF Consistent, Stores
  <1>2. p.buckets[b] \in Seq(Key \X Nat) /\ p.buckets \in [0 .. N - 1 -> Seq(Key \X Nat)]
    BY <1>1 DEF Stores, InBuckets
  <1>3. /\ \A c \in 0 .. N - 1 : c # b => q.buckets[c] = p.buckets[c]
        /\ q.buckets[b] = Append(p.buckets[b], <<key, Len(p.values)>>)
    BY <1>1, <1>2 DEF Inserted
  <1>4. /\ DOMAIN q.buckets[b] = DOMAIN p.buckets[b] \cup {new} /\ new \notin DOMAIN p.buckets[b]
        /\ q.buckets[b][new] = <<key, Len(p.values)>>
        /\ \A m \in DOMAIN p.buckets[b] : q.buckets[b][m] = p.buckets[b][m]
    <2> DEFINE s == p.buckets[b]
               x == <<key, Len(p.values)>>
    <2>1. s \in Seq(Key \X Nat) /\ x \in Key \X Nat /\ q.buckets[b] = Append(s, x)
      BY <1>1, <1>2, <1>3
    <2> HIDE DEF s, x
    <2>2. /\ DOMAIN q.buckets[b] = DOMAIN s \cup {Len(s) + 1} /\ Len(s) + 1 \notin DOMAIN s
          /\ q.buckets[b][Len(s) + 1] = x
          /\ \A m \in DOMAIN s : q.buckets[b][m] = s[m]
      BY <2>1, AppendFacts
    <2> QED  BY <2>2 DEF s, x
  <1>5. /\ Len(q.values) = Len(p.values) + 1 /\ q.values[Len(p.values) + 1] = v
        /\ \A l \in 1 .. Len(p.values) : q.values[l] = p.values[l]
    BY <1>1 DEF Stores, Inserted
  <1> HIDE DEF b, new
  <1> DEFINE Old(c, m) == m \in DOMAIN p.buckets[c] /\ q.buckets[c][m] = p.buckets[c][m]
             New(c, m) == c = b /\ m = new /\ q.buckets[c][m] = <<key, Len(p.values)>>
  <1>6. \A c \in 0 .. N - 1 : \A m \in DOMAIN q.buckets[c] : Old(c, m) \/ New(c, m)
    BY <1>3, <1>4
  <1>7. ASSUME NEW c \in 0 .. N - 1, NEW m \in DOMAIN p.buckets[c]
        PROVE  /\ m \in DOMAIN q.buckets[c] /\ q.buckets[c][m] = p.buckets[c][m]
               /\ p.buckets[c][m][1] # key
               /\ p.buckets[c][m][2] \in Nat /\ p.buckets[c][m][2] < Len(p.values)
    <2>1. m \in DOMAIN q.buckets[c] /\ q.buckets[c][m] = p.buckets[c][m]  BY <1>3, <1>4
    <2>2. p.buckets[c][m][2] \in Nat /\ p.buckets[c][m][2] < Len(p.values)
      BY <1>1, BucketType DEF Consistent
    <2>3. p.buckets[c][m][1] # key  BY DEF Consistent, KV!Matches
    <2> QED  BY <2>1, <2>2, <2>3
  <1>8. Consistent(q)
    <2>1. ASSUME NEW c \in 0 .. N - 1, NEW m \in DOMAIN q.buckets[c]
          PROVE  KV!index(q.buckets[c][m][1]) = c /\ q.buckets[c][m][2] < Len(q.values)
      <3>1. CASE Old(c, m)  BY <1>1, <1>5, <1>7, <3>1 DEF Consistent
      <3>2. CASE New(c, m)  BY <1>1, <1>5, <3>2 DEF b
      <3> QED  BY <1>6, <3>1, <3>2
    <2>2. ASSUME NEW c \in 0 .. N - 1, NEW d \in 0 .. N - 1,
                 NEW m \in DOMAIN q.buckets[c], NEW l \in DOMAIN q.buckets[d],
                 \/ q.buckets[c][m][1] = q.buckets[d][l][1]
                 \/ q.buckets[c][m][2] = q.buckets[d][l][2]
          PROVE  c = d /\ m = l
      <3>1. CASE Old(c, m) /\ Old(d, l)  BY <2>2, <3>1 DEF Consistent
      <3>2. CASE New(c, m) /\ New(d, l)  BY <3>2
      <3>3. CASE Old(c, m) /\ New(d, l)  BY <1>1, <1>7, <2>2, <3>3
      <3>4. CASE New(c, m) /\ Old(d, l)  BY <1>1, <1>7, <2>2, <3>4
      <3> QED  BY <1>6, <3>1, <3>2, <3>3, <3>4
    <2> QED  BY <2>1, <2>2 DEF Consistent, Inserted
  <1>9. ASSUME NEW other \in Key
        PROVE  KV!Lookup(q, other) = IF other = key THEN v ELSE KV!Lookup(p, other)
    <2> DEFINE c == KV!index(other)
    <2>0. c \in 0 .. N - 1  BY IndexInRange
    <2>1. CASE other = key
      <3>1. new \in DOMAIN q.buckets[b] /\ q.buckets[b][new] = <<key, Len(p.values)>>
        BY <1>4
      <3>2. Entry(q, b, new, key, Len(p.values))  BY <1>1, <3>1 DEF Entry
      <3>3. KV!Lookup(q, key) = q.values[Len(p.values) + 1]  BY <1>8, <3>2, LookupHit
      <3> QED  BY <1>5, <2>1, <3>3
    <2>2. CASE other # key /\ KV!Matches(p, other) = {}
      <3>1. ASSUME NEW m \in DOMAIN q.buckets[c] PROVE q.buckets[c][m][1] # other
        <4>1. CASE Old(c, m)  BY <2>2, <4>1 DEF KV!Matches
        <4>2. CASE New(c, m)  BY <2>2, <4>2
        <4> QED  BY <1>6, <2>0, <4>1, <4>2
      <3>2. KV!Matches(q, other) = {}  BY <3>1 DEF KV!Matches
      <3> QED  BY <2>2, <3>2 DEF KV!Lookup
    <2>3. CASE other # key /\ KV!Matches(p, other) # {}
      <3>1. PICK m \in DOMAIN p.buckets[c] : p.buckets[c][m][1] = other
        BY <2>3, LookupCases
      <3>2. /\ m \in DOMAIN q.buckets[c] /\ q.buckets[c][m] = p.buckets[c][m]
            /\ p.buckets[c][m][2] \in Nat /\ p.buckets[c][m][2] < Len(p.values)
        BY <1>7, <2>0
      <3> DEFINE its == p.buckets[c][m][2]
      <3>3. KV!Lookup(p, other) = p.values[its + 1]
        <4>1. Entry(p, c, m, other, its)  BY <2>0, <3>1 DEF Entry
        <4> QED  BY <4>1, LookupHit
      <3>4. KV!Lookup(q, other) = q.values[its + 1]
        <4>1. Entry(q, c, m, other, its)  BY <2>0, <3>1, <3>2 DEF Entry
        <4> HIDE DEF c, its
        <4> QED  BY <1>8, <4>1, LookupHit
      <3>5. its + 1 \in 1 .. Len(p.values)  BY <1>1, <3>2
      <3> HIDE DEF its, c
      <3> QED  BY <1>5, <2>3, <3>3, <3>4, <3>5
    <2> QED  BY <2>1, <2>2, <2>3
  <1>10. MapOf(q) = [MapOf(p) EXCEPT ![key] = v]  BY <1>9 DEF MapOf
  <1> QED  BY <1>8, <1>10

LEMMA NewStore == Consistent([kv |-> FALSE, values |-> <<>>, buckets |-> KV!NoBuckets])
                  /\ MapOf([kv |-> FALSE, values |-> <<>>, buckets |-> KV!NoBuckets])
                       = [key \in Key |-> Nothing]
  <1> DEFINE p == [kv |-> FALSE, values |-> <<>>, buckets |-> KV!NoBuckets]
  <1>1. p \in Stores /\ \A b \in 0 .. N - 1 : DOMAIN p.buckets[b] = {}
    BY DEF Stores, InBuckets, KV!NoBuckets
  <1>2. Consistent(p)  BY <1>1 DEF Consistent
  <1>3. \A key \in Key : KV!Lookup(p, key) = Nothing
    BY <1>1, IndexInRange DEF KV!Lookup, KV!Matches
  <1> QED  BY <1>2, <1>3 DEF MapOf

\* Whether the root names the store is no part of the map.
LEMMA FlagStores ==
  ASSUME NEW p, Consistent(p), NEW q, q = [p EXCEPT !.kv = TRUE]
  PROVE  Consistent(q) /\ MapOf(q) = MapOf(p)
  <1>1. q \in Stores /\ q.values = p.values /\ q.buckets = p.buckets
    BY DEF Consistent, Stores
  <1> QED  BY <1>1 DEF Consistent, MapOf, KV!Lookup, KV!Matches, KV!place

LEMMA KVStart == KV!Init => KVInv /\ KV!Map!Init
  <1> SUFFICES ASSUME KV!Init PROVE KVInv /\ KV!Map!Init  OBVIOUS
  <1>1. KVDown  BY NewStore DEF KV!Init, KVDown, KVOutside
  <1>2. KV!Stored = MapOf(kvPool)
    BY DEF KV!Init, KV!Stored, KV!Tx!Durable, KV!Tx!InTx, MapOf
  <1>3. KV!Map!Init
    BY <1>2, NewStore DEF KV!Init, KV!Map!Init, KV!Map!NoCall, KV!NoCall
  <1> QED  BY <1>1, <1>3 DEF KVInv

\* What the refinement mapping sees, outside and inside of a transaction.
LEMMA StoredIs ==
  /\ KVOutside => KV!Stored = MapOf(kvPool)
  /\ KVInside => KV!Stored = MapOf(kvUndo[1])
  BY DEF KVOutside, KVInside, KV!Stored, KV!Tx!Durable, KV!Tx!InTx, MapOf

LEMMA StoredWillBe ==
  /\ KVOutside' => KV!Stored' = MapOf(kvPool')
  /\ KVInside' => KV!Stored' = MapOf(kvUndo'[1])
  BY DEF KVOutside, KVInside, KV!Stored, KV!Tx!Durable, KV!Tx!InTx, MapOf

\* A process that ends without an answer leaves the map alone.
LEMMA KVEnds ==
  ASSUME KVInv, KV!Tx!Recover, KV!End("lost"), kvPc # "down"
  PROVE  KVInv' /\ KV!Map!Next
  <1>1. KVOutside \/ KVInside
    BY DEF KVInv, KVDown, KVRun, KVMade, KVGrown, KVWritten, KVDone
  <1>2. KVOutside' /\ KV!Stored' = KV!Stored
    BY <1>1, StoredIs, StoredWillBe
       DEF KV!Tx!Recover, KV!Tx!Durable, KV!Tx!InTx, KVOutside, KVInside
  <1>3. KVDown'  BY <1>2 DEF KVDown, KV!End, KV!NoCall
  <1>4. kvCall # KV!NoCall
    BY DEF KVInv, KVDown, KVRun, KVMade, KVGrown, KVWritten, KVDone, KV!Calls, Puts, KV!NoCall
  <1>5. KV!Map!Lost
    BY <1>2, <1>4 DEF KV!Map!Lost, KV!End, KV!NoCall, KV!Map!NoCall
  <1> QED  BY <1>3, <1>5 DEF KVInv, KV!Map!Next

\* Each step of the store is a step of the map, or none.
LEMMA KVStepRefines ==
  ASSUME KVInv, [KV!Next]_(KV!vars)
  PROVE  KVInv' /\ [KV!Map!Next]_(KV!Map!vars)
  <1> USE DEF KV!Map!vars
  <1>1. ASSUME NEW c \in KV!Calls, KV!Start(c) PROVE KVInv' /\ KV!Map!Next
    <2>1. KVDown  BY <1>1 DEF KV!Start, KVInv, KVDown, KVRun, KVMade, KVGrown, KVWritten, KVDone
    <2>2. KVOutside' /\ KV!Stored' = KV!Stored
      BY <1>1, <2>1, StoredIs, StoredWillBe DEF KV!Start, KVDown, KVOutside
    <2>3. KVRun'  BY <1>1, <2>2 DEF KV!Start, KVRun, KV!Calls
    <2>4. KV!Map!Invoke(c)
      BY <1>1, <2>1, <2>2 DEF KV!Start, KVDown, KV!Map!Invoke, KV!NoCall, KV!Map!NoCall
    <2>5. c \in KV!Map!Calls  BY DEF KV!Calls, KV!Map!Calls
    <2> QED  BY <2>3, <2>4, <2>5 DEF KVInv, KV!Map!Next
  <1>2. CASE KV!MakeKV
    <2>1. KVRun  BY <1>2 DEF KV!MakeKV, KVInv, KVDown, KVRun, KVMade, KVGrown, KVWritten, KVDone
    <2>2. /\ kvUndo' = <<kvPool>> /\ kvPool' = [kvPool EXCEPT !.kv = TRUE]
          /\ kvPc' = "commit_kv" /\ UNCHANGED <<kvCall, kvReply>>
      BY <1>2 DEF KV!MakeKV, KV!Tx!BeginWith
    <2>3. KVInside' /\ KV!Stored' = KV!Stored
      BY <2>1, <2>2, StoredIs, StoredWillBe DEF KVRun, KVOutside, KVInside
    <2>4. KVMade'  BY <2>1, <2>2, <2>3 DEF KVMade, KVRun, KV!Calls
    <2> QED  BY <2>2, <2>3, <2>4 DEF KVInv
  <1>3. CASE KV!CommitKV
    <2>1. KVMade  BY <1>3 DEF KV!CommitKV, KVInv, KVDown, KVRun, KVMade, KVGrown, KVWritten, KVDone
    <2>2. /\ kvUndo' = <<>> /\ kvPc' = "run" /\ UNCHANGED <<kvPool, kvCall, kvReply>>
      BY <1>3 DEF KV!CommitKV, KV!Tx!Commit
    <2>3. Consistent(kvPool) /\ MapOf(kvPool) = MapOf(kvUndo[1])
      BY <2>1, FlagStores DEF KVMade, KVInside
    <2>4. KVOutside' /\ KV!Stored' = KV!Stored
      BY <2>1, <2>2, <2>3, StoredIs, StoredWillBe DEF KVMade, KVOutside
    <2>5. KVRun'  BY <2>1, <2>2, <2>4 DEF KVMade, KVRun, KV!Calls
    <2> QED  BY <2>2, <2>4, <2>5 DEF KVInv
  <1>4. CASE KV!Usage \/ KV!get \/ KV!putReturn
    <2>1. KVRun \/ KVDone
      BY <1>4 DEF KV!Usage, KV!get, KV!putReturn, KVInv, KVDown, KVRun, KVMade, KVGrown,
                  KVWritten, KVDone
    <2>2. UNCHANGED <<kvPool, kvUndo>> /\ kvPc' = "down" /\ kvCall' = KV!NoCall
      BY <1>4 DEF KV!Usage, KV!get, KV!putReturn, KV!End
    <2>3. KVOutside' /\ KV!Stored' = KV!Stored
      BY <2>1, <2>2, StoredIs, StoredWillBe DEF KVRun, KVDone, KVOutside
    <2>4. KVInv'  BY <2>2, <2>3 DEF KVInv, KVDown, KV!NoCall
    <2>5. CASE KV!Usage
      <3>1. kvCall # KV!NoCall  BY <2>5 DEF KV!Usage, KV!NoCall
      <3>2. KV!Map!Lost
        BY <2>2, <2>3, <2>5, <3>1 DEF KV!Usage, KV!End, KV!Map!Lost, KV!NoCall, KV!Map!NoCall
      <3> QED  BY <2>4, <3>2 DEF KV!Map!Next
    <2>6. CASE KV!get
      <3>1. KVRun /\ kvCall.op = "get"
        BY <2>1, <2>6 DEF KV!get, KVRun, KVDone
      <3>2. kvCall.key \in Key  BY <3>1 DEF KVRun, KV!Calls
      <3>3. KV!Stored[kvCall.key] = KV!Lookup(kvPool, kvCall.key)
        BY <3>1, <3>2, StoredIs DEF KVRun, MapOf
      <3>4. KV!Map!Get
        BY <2>2, <2>3, <2>6, <3>3 DEF KV!get, KV!End, KV!Map!Get, KV!NoCall, KV!Map!NoCall
      <3> QED  BY <2>4, <3>4 DEF KV!Map!Next
    <2>7. CASE KV!putReturn
      <3>1. kvCall.op = "done"  BY <2>1, <2>7 DEF KV!putReturn, KVRun, KVDone
      <3>2. KV!Map!Return
        BY <2>2, <2>3, <2>7, <3>1
           DEF KV!putReturn, KV!End, KV!Map!Return, KV!NoCall, KV!Map!NoCall
      <3> QED  BY <2>4, <3>2 DEF KV!Map!Next
    <2> QED  BY <1>4, <2>5, <2>6, <2>7
  <1>5. CASE KV!putUpdate
    <2>1. KVRun  BY <1>5 DEF KV!putUpdate, KVInv, KVDown, KVRun, KVMade, KVGrown, KVWritten, KVDone
    <2>2. /\ kvCall.op = "put" /\ KV!Matches(kvPool, kvCall.key) # {}
          /\ kvUndo' = <<kvPool>>
          /\ kvPool' = [kvPool EXCEPT !.values[KV!place(kvPool, kvCall.key) + 1] = kvCall.val]
          /\ kvPc' = "commit_put" /\ UNCHANGED <<kvCall, kvReply>>
      BY <1>5 DEF KV!putUpdate, KV!Tx!BeginWith
    <2>3. kvCall \in Puts  BY <2>1, <2>2 DEF KVRun, KV!Calls, Puts
    <2>4. /\ Consistent(kvPool')
          /\ MapOf(kvPool') = [MapOf(kvPool) EXCEPT ![kvCall.key] = kvCall.val]
      <3>1. Consistent(kvPool) /\ kvCall.key \in Key /\ kvCall.val \in Value
        BY <2>1, <2>3 DEF KVRun, KVOutside, Puts
      <3> QED  BY <2>2, <3>1, UpdateStores
    <2>5. KVInside' /\ KV!Stored' = KV!Stored
      BY <2>1, <2>2, StoredIs, StoredWillBe DEF KVRun, KVOutside, KVInside
    <2>6. KVWritten'  BY <2>2, <2>3, <2>4, <2>5 DEF KVWritten
    <2> QED  BY <2>2, <2>5, <2>6 DEF KVInv
  <1>6. CASE KV!putEmplaceValue
    <2>1. KVRun
      BY <1>6 DEF KV!putEmplaceValue, KVInv, KVDown, KVRun, KVMade, KVGrown, KVWritten, KVDone
    <2>2. /\ kvCall.op = "put" /\ KV!Matches(kvPool, kvCall.key) = {}
          /\ kvUndo' = <<kvPool>>
          /\ kvPool' = [kvPool EXCEPT !.values = Append(@, kvCall.val)]
          /\ kvPc' = "emplace_bucket" /\ UNCHANGED <<kvCall, kvReply>>
      BY <1>6 DEF KV!putEmplaceValue, KV!Tx!BeginWith
    <2>3. kvCall \in Puts  BY <2>1, <2>2 DEF KVRun, KV!Calls, Puts
    <2>4. KVInside' /\ KV!Stored' = KV!Stored
      BY <2>1, <2>2, StoredIs, StoredWillBe DEF KVRun, KVOutside, KVInside
    <2>5. KVGrown'  BY <2>2, <2>3, <2>4 DEF KVGrown
    <2> QED  BY <2>2, <2>4, <2>5 DEF KVInv
  <1>7. CASE KV!putEmplaceBucket
    <2>1. KVGrown
      BY <1>7 DEF KV!putEmplaceBucket, KVInv, KVDown, KVRun, KVMade, KVGrown, KVWritten, KVDone
    <2> DEFINE old == kvUndo[1]
    <2>2. /\ kvPool' = [kvPool EXCEPT !.buckets[KV!index(kvCall.key)] =
                          Append(@, <<kvCall.key, Len(kvPool.values) - 1>>)]
          /\ kvPc' = "commit_put" /\ UNCHANGED <<kvUndo, kvCall, kvReply>>
      BY <1>7 DEF KV!putEmplaceBucket, KV!Tx!Write
    <2>3. /\ Consistent(old) /\ kvCall \in Puts /\ KV!Matches(old, kvCall.key) = {}
          /\ kvCall.key \in Key /\ kvCall.val \in Value
      BY <2>1 DEF KVGrown, KVInside, Puts
    <2>4. Inserted(old, kvPool', kvCall.key, kvCall.val)
      <3> DEFINE b == KV!index(kvCall.key)
      <3>1. /\ old \in Stores /\ b \in 0 .. N - 1
            /\ kvPool = [old EXCEPT !.values = Append(old.values, kvCall.val)]
        BY <2>1, <2>3, IndexInRange DEF KVGrown, Consistent
      <3> HIDE DEF b, old
      <3>2. /\ old.values \in Seq(Value) /\ old.buckets \in InBuckets
            /\ kvPool.values = Append(old.values, kvCall.val) /\ kvPool.buckets = old.buckets
            /\ kvPool \in Stores
        <4>1. old.values \in Seq(Value) /\ old.buckets \in InBuckets  BY <3>1 DEF Stores
        <4> DEFINE w == Append(old.values, kvCall.val)
        <4>2. w \in Seq(Value)  BY <2>3, <4>1
        <4>3. kvPool = [old EXCEPT !.values = w]  BY <3>1
        <4> HIDE DEF w
        <4>4. kvPool.values = w /\ kvPool.buckets = old.buckets /\ kvPool \in Stores
          BY <3>1, <4>2, <4>3 DEF Stores
        <4> QED  BY <4>1, <4>4 DEF w
      <3>3. Len(kvPool.values) - 1 = Len(old.values) /\ Len(old.values) \in Nat
        BY <2>3, <3>2
      <3> DEFINE new == [old.buckets EXCEPT ![b] = Append(@, <<kvCall.key, Len(old.values)>>)]
      <3>4. new \in InBuckets
        <4>1. old.buckets[b] \in Seq(Key \X Nat) /\ <<kvCall.key, Len(old.values)>> \in Key \X Nat
          BY <2>3, <3>1, <3>2, <3>3 DEF InBuckets
        <4> DEFINE bucket == Append(old.buckets[b], <<kvCall.key, Len(old.values)>>)
        <4>2. bucket \in Seq(Key \X Nat)  BY <4>1, AppendFacts
        <4>3. new = [old.buckets EXCEPT ![b] = bucket]  OBVIOUS
        <4> HIDE DEF bucket, new
        <4> QED  BY <3>1, <3>2, <4>2, <4>3 DEF InBuckets
      <3>5. kvPool' = [kvPool EXCEPT !.buckets = new]
        BY <2>2, <3>2, <3>3 DEF b
      <3> HIDE DEF new
      <3>6. kvPool' \in Stores /\ kvPool'.values = kvPool.values /\ kvPool'.buckets = new
        BY <3>2, <3>4, <3>5 DEF Stores
      <3> QED  BY <3>2, <3>6 DEF Inserted, new, b
    <2>5. /\ Consistent(kvPool')
          /\ MapOf(kvPool') = [MapOf(old) EXCEPT ![kvCall.key] = kvCall.val]
      BY <2>3, <2>4, InsertStores
    <2>6. KVInside' /\ KV!Stored' = KV!Stored
      BY <2>1, <2>2, StoredIs, StoredWillBe DEF KVGrown, KVInside
    <2>7. KVWritten'  BY <2>2, <2>3, <2>5, <2>6 DEF KVWritten
    <2> QED  BY <2>2, <2>6, <2>7 DEF KVInv
  <1>8. CASE KV!putCommit
    <2>1. KVWritten
      BY <1>8 DEF KV!putCommit, KVInv, KVDown, KVRun, KVMade, KVGrown, KVWritten, KVDone
    <2>2. /\ kvUndo' = <<>> /\ kvPc' = "return" /\ kvCall' = [kvCall EXCEPT !.op = "done"]
          /\ UNCHANGED <<kvPool, kvReply>>
      BY <1>8 DEF KV!putCommit, KV!Tx!Commit
    <2>3. KVOutside' /\ KV!Stored' = [KV!Stored EXCEPT ![kvCall.key] = kvCall.val]
      BY <2>1, <2>2, StoredIs, StoredWillBe DEF KVWritten, KVOutside
    <2>4. kvCall'.op = "done"  BY <2>1, <2>2 DEF KVWritten, Puts
    <2>5. KVDone'  BY <2>2, <2>3, <2>4 DEF KVDone
    <2>6. KV!Map!Put  BY <2>1, <2>2, <2>3 DEF KV!Map!Put, KVWritten, Puts
    <2> QED  BY <2>5, <2>6 DEF KVInv, KV!Map!Next
  <1>9. CASE KV!TxThrows
    <2>1. KV!Tx!Recover /\ kvPc # "down"
      BY <1>9 DEF KV!TxThrows, KV!Tx!Abort, KV!Tx!Recover, KV!Tx!Durable, KV!Tx!InTx,
                  KVInv, KVDown, KVRun, KVMade, KVGrown, KVWritten, KVDone, KVOutside
    <2> QED  BY <1>9, <2>1, KVEnds DEF KV!TxThrows
  <1>10. CASE KV!Crash  BY <1>10, KVEnds DEF KV!Crash
  <1>11. CASE UNCHANGED KV!vars
    <2>1. UNCHANGED <<kvPool, kvUndo, kvPc, kvCall, kvReply>>  BY <1>11 DEF KV!vars
    <2>2. KVInv'
      BY <2>1 DEF KVInv, KVDown, KVRun, KVMade, KVGrown, KVWritten, KVDone, KVOutside,
                  KVInside, KV!Calls
    <2>3. KV!Stored' = KV!Stored  BY <2>1 DEF KV!Stored, KV!Tx!Durable, KV!Tx!InTx
    <2> QED  BY <2>1, <2>2, <2>3
  <1> QED
    BY <1>1, <1>2, <1>3, <1>4, <1>5, <1>6, <1>7, <1>8, <1>9, <1>10, <1>11 DEF KV!Next

\* ppm_ch11_4: whatever keys share a bucket and wherever a run dies, a put takes effect at
\* one instant or not at all, and a get answers what the puts of all runs left.
THEOREM SimpleKVIsAMap == KV!Spec => ImplementsMap
  BY KVStart, KVStepRefines, PTL DEF KV!Spec, ImplementsMap, KV!ImplementsMap, KV!Map!Spec
-----------------------------------------------------------------------------
(* simplekv_rebuild, ppm_ch11_5 *)

Pairs == [kv : BOOLEAN, values : Seq(Value), keys : Seq(Key)]

\* The two vectors are equally long, and no key is there twice.
Paired(p) ==
  /\ p \in Pairs /\ Len(p.keys) = Len(p.values)
  /\ \A m, l \in DOMAIN p.keys : p.keys[m] = p.keys[l] => m = l

PairsMap(p) ==
  [key \in Key |->
     LET places == {m \in DOMAIN p.keys : p.keys[m] = key}
     IN  IF places = {} THEN Nothing ELSE p.values[Rebuild!Min(places)]]

\* The buckets lead to the first `size' pairs, each in the bucket of its key, and to
\* nothing else.
Leads(bk, p, size) ==
  /\ bk \in InBuckets
  /\ \A b \in 0 .. N - 1 : \A m \in DOMAIN bk[b] :
       /\ bk[b][m][2] < size
       /\ bk[b][m][1] = p.keys[bk[b][m][2] + 1]
  /\ \A l \in 1 .. size :
       \E m \in DOMAIN bk[Rebuild!index(p.keys[l])] :
         bk[Rebuild!index(p.keys[l])][m] = <<p.keys[l], l - 1>>

RBOutside == rbUndo = <<>> /\ Paired(rbPool)
RBInside  == rbUndo = <<rbUndo[1]>> /\ Paired(rbUndo[1])

RBDown    == rbPc = "down" /\ RBOutside /\ rbCall = Rebuild!NoCall
RBMake    == /\ rbPc = "make_kv" /\ RBOutside /\ rbCall = Rebuild!NoCall
             /\ rbBuckets = Rebuild!NoBuckets /\ rbI = 0
RBMade    == /\ rbPc = "commit_kv" /\ RBInside /\ rbCall = Rebuild!NoCall
             /\ rbBuckets = Rebuild!NoBuckets /\ rbI = 0
             /\ rbPool = [rbUndo[1] EXCEPT !.kv = TRUE]
RBBuild   == /\ rbPc = "rebuild" /\ RBOutside /\ rbCall = Rebuild!NoCall
             /\ rbI \in 0 .. Len(rbPool.values) /\ Leads(rbBuckets, rbPool, rbI)
RBLoop    == /\ rbPc = "loop" /\ RBOutside /\ rbCall = Rebuild!NoCall
             /\ Leads(rbBuckets, rbPool, Len(rbPool.values))
RBRun     == /\ rbPc = "run" /\ RBOutside /\ rbCall \in Rebuild!Calls
             /\ Leads(rbBuckets, rbPool, Len(rbPool.values))
RBUpdated == /\ rbPc = "commit_update" /\ RBInside /\ rbCall \in Puts
             /\ Leads(rbBuckets, rbUndo[1], Len(rbUndo[1].values))
             /\ Paired(rbPool) /\ rbPool.keys = rbUndo[1].keys
             /\ PairsMap(rbPool) = [PairsMap(rbUndo[1]) EXCEPT ![rbCall.key] = rbCall.val]
RBGrown   == /\ rbPc = "emplace_key" /\ RBInside /\ rbCall \in Puts
             /\ Leads(rbBuckets, rbUndo[1], Len(rbUndo[1].values))
             /\ rbPool = [rbUndo[1] EXCEPT !.values = Append(@, rbCall.val)]
             /\ Rebuild!Matches(rbCall.key) = {}
RBWritten == /\ rbPc = "commit_insert" /\ RBInside /\ rbCall \in Puts
             /\ Leads(rbBuckets, rbUndo[1], Len(rbUndo[1].values))
             /\ Paired(rbPool) /\ rbPool.keys = Append(rbUndo[1].keys, rbCall.key)
             /\ PairsMap(rbPool) = [PairsMap(rbUndo[1]) EXCEPT ![rbCall.key] = rbCall.val]
RBIndex   == /\ rbPc = "index" /\ RBOutside /\ rbCall.op = "done"
             /\ rbPool.keys # <<>> /\ rbCall.key = rbPool.keys[Len(rbPool.keys)]
             /\ Leads(rbBuckets, rbPool, Len(rbPool.keys) - 1)
RBDone    == /\ rbPc = "return" /\ RBOutside /\ rbCall.op = "done"
             /\ Leads(rbBuckets, rbPool, Len(rbPool.values))

RBInv == \/ RBDown \/ RBMake \/ RBMade \/ RBBuild \/ RBLoop \/ RBRun
         \/ RBUpdated \/ RBGrown \/ RBWritten \/ RBIndex \/ RBDone


LEMMA LeastNatural ==
  ASSUME NEW T \in SUBSET Nat, T # {}
  PROVE  \E x \in T : \A y \in T : x <= y
  <1> DEFINE Less == OpToRel(<, Nat)
  <1>1. IsWellFoundedOn(Less, Nat)  BY NatLessThanWellFounded
  <1>2. \A x, y \in Nat : x < y => <<x, y>> \in Less  BY DEF OpToRel
  <1> HIDE DEF Less
  <1>3. PICK x \in T : \A y \in T : ~(<<y, x>> \in Less)  BY <1>1, WFMin
  <1>4. ASSUME NEW y \in T PROVE x <= y
    <2>1. y \in Nat /\ x \in Nat  OBVIOUS
    <2>2. ~(y < x)  BY <1>2, <1>3, <2>1, Zenon
    <2> QED  BY <2>1, <2>2
  <1> QED  BY <1>3, <1>4

LEMMA MinIsThere ==
  ASSUME NEW T \in SUBSET Nat, T # {}
  PROVE  Rebuild!Min(T) \in T
  BY LeastNatural DEF Rebuild!Min

LEMMA RIndexInRange == \A key \in Key : Rebuild!index(key) \in 0 .. N - 1
  BY HashAssumption DEF Rebuild!index

\* What a pair of the vectors means for the map.
LEMMA PairsHit ==
  ASSUME NEW p, Paired(p), NEW l \in DOMAIN p.keys
  PROVE  p.keys[l] \in Key /\ PairsMap(p)[p.keys[l]] = p.values[l]
  <1> DEFINE T == {m \in DOMAIN p.keys : p.keys[m] = p.keys[l]}
  <1>1. p.keys \in Seq(Key)  BY DEF Paired, Pairs
  <1>2. p.keys[l] \in Key /\ l \in Nat  BY <1>1
  <1>3. T = {l}  BY DEF Paired
  <1>4. Rebuild!Min({l}) = l  BY <1>2, MinIsThere
  <1>5. PairsMap(p)[p.keys[l]] = IF T = {} THEN Nothing ELSE p.values[Rebuild!Min(T)]
    BY <1>2 DEF PairsMap
  <1> QED  BY <1>2, <1>3, <1>4, <1>5

LEMMA PairsMiss ==
  ASSUME NEW p, NEW key \in Key, \A l \in DOMAIN p.keys : p.keys[l] # key
  PROVE  PairsMap(p)[key] = Nothing
  BY DEF PairsMap

\* Overwriting the value of a pair changes the map at its key.
LEMMA UpdatePairs ==
  ASSUME NEW p, Paired(p), NEW at \in DOMAIN p.keys, NEW v \in Value,
         NEW q, q = [p EXCEPT !.values[at] = v]
  PROVE  Paired(q) /\ q.keys = p.keys /\ PairsMap(q) = [PairsMap(p) EXCEPT ![p.keys[at]] = v]
  <1> DEFINE w == [p.values EXCEPT ![at] = v]
  <1>1. p \in Pairs /\ p.values \in Seq(Value) /\ p.keys \in Seq(Key) /\ Len(p.keys) = Len(p.values)
    BY DEF Paired, Pairs
  <1>2. /\ w \in Seq(Value) /\ Len(w) = Len(p.values)
        /\ \A l \in DOMAIN p.keys : w[l] = IF l = at THEN v ELSE p.values[l]
    BY <1>1
  <1>3. q = [p EXCEPT !.values = w]  OBVIOUS
  <1> HIDE DEF w
  <1>4. q \in Pairs /\ q.values = w /\ q.keys = p.keys  BY <1>1, <1>2, <1>3 DEF Pairs
  <1>5. Paired(q)  BY <1>1, <1>2, <1>4 DEF Paired
  <1>6. ASSUME NEW key \in Key
        PROVE  PairsMap(q)[key] = IF key = p.keys[at] THEN v ELSE PairsMap(p)[key]
    <2>1. CASE \A l \in DOMAIN p.keys : p.keys[l] # key
      <3>1. PairsMap(p)[key] = Nothing /\ PairsMap(q)[key] = Nothing
        BY <1>4, <2>1, PairsMiss
      <3> QED  BY <2>1, <3>1
    <2>2. CASE \E l \in DOMAIN p.keys : p.keys[l] = key
      <3>1. PICK l \in DOMAIN p.keys : p.keys[l] = key  BY <2>2
      <3>2. PairsMap(p)[key] = p.values[l]  BY <3>1, PairsHit
      <3>3. l \in DOMAIN q.keys /\ q.keys[l] = key  BY <1>4, <3>1
      <3>4. PairsMap(q)[key] = w[l]  BY <1>4, <1>5, <3>3, PairsHit
      <3>5. l = at <=> key = p.keys[at]  BY <3>1 DEF Paired
      <3> QED  BY <1>2, <3>2, <3>4, <3>5
    <2> QED  BY <2>1, <2>2
  <1>7. PairsMap(p) = [key \in Key |-> PairsMap(p)[key]]
        /\ PairsMap(q) = [key \in Key |-> PairsMap(q)[key]]
    BY DEF PairsMap
  <1>8. PairsMap(q) = [PairsMap(p) EXCEPT ![p.keys[at]] = v]  BY <1>6, <1>7
  <1> QED  BY <1>4, <1>5, <1>8

AddedPair(p, q, key, v) ==
  q \in Pairs /\ q.values = Append(p.values, v) /\ q.keys = Append(p.keys, key)

\* Appending to both vectors adds a key that was not there.
LEMMA InsertPairs ==
  ASSUME NEW p, Paired(p), NEW key \in Key, NEW v \in Value,
         \A l \in DOMAIN p.keys : p.keys[l] # key,
         NEW q, AddedPair(p, q, key, v)
  PROVE  Paired(q) /\ PairsMap(q) = [PairsMap(p) EXCEPT ![key] = v]
  <1>1. /\ p.values \in Seq(Value) /\ p.keys \in Seq(Key) /\ Len(p.keys) = Len(p.values)
        /\ Len(p.keys) \in Nat
    BY DEF Paired, Pairs
  <1> DEFINE new == Len(p.keys) + 1
  <1>2. /\ Len(q.keys) = new /\ DOMAIN q.keys = DOMAIN p.keys \cup {new}
        /\ new \notin DOMAIN p.keys /\ q.keys[new] = key
        /\ \A l \in DOMAIN p.keys : q.keys[l] = p.keys[l]
    BY <1>1, AppendFacts DEF AddedPair
  <1>3. /\ Len(q.values) = new /\ q.values[new] = v
        /\ \A l \in DOMAIN p.keys : q.values[l] = p.values[l]
    BY <1>1, AppendFacts DEF AddedPair
  <1> HIDE DEF new
  <1>4. Paired(q)  BY <1>2, <1>3 DEF Paired, AddedPair
  <1>5. ASSUME NEW other \in Key
        PROVE  PairsMap(q)[other] = IF other = key THEN v ELSE PairsMap(p)[other]
    <2>1. CASE other = key
      <3>1. new \in DOMAIN q.keys /\ q.keys[new] = key  BY <1>2
      <3>2. PairsMap(q)[key] = q.values[new]  BY <1>4, <3>1, PairsHit
      <3> QED  BY <1>3, <2>1, <3>2
    <2>2. CASE other # key /\ \A l \in DOMAIN p.keys : p.keys[l] # other
      <3>1. \A l \in DOMAIN q.keys : q.keys[l] # other  BY <1>2, <2>2
      <3> QED  BY <2>2, <3>1, PairsMiss
    <2>3. CASE other # key /\ \E l \in DOMAIN p.keys : p.keys[l] = other
      <3>1. PICK l \in DOMAIN p.keys : p.keys[l] = other  BY <2>3
      <3>2. PairsMap(p)[other] = p.values[l]  BY <3>1, PairsHit
      <3>3. l \in DOMAIN q.keys /\ q.keys[l] = other  BY <1>2, <3>1
      <3>4. PairsMap(q)[other] = q.values[l]  BY <1>4, <3>3, PairsHit
      <3> QED  BY <1>3, <2>3, <3>2, <3>4
    <2> QED  BY <2>1, <2>2, <2>3
  <1>6. PairsMap(p) = [other \in Key |-> PairsMap(p)[other]]
        /\ PairsMap(q) = [other \in Key |-> PairsMap(q)[other]]
    BY DEF PairsMap
  <1>7. PairsMap(q) = [PairsMap(p) EXCEPT ![key] = v]  BY <1>5, <1>6
  <1> QED  BY <1>4, <1>7

\* Empty buckets lead nowhere.
LEMMA LeadsNowhere == \A p : Leads(Rebuild!NoBuckets, p, 0)
  <1> SUFFICES ASSUME NEW p PROVE Leads(Rebuild!NoBuckets, p, 0)  OBVIOUS
  <1>1. /\ Rebuild!NoBuckets \in InBuckets
        /\ \A b \in 0 .. N - 1 : DOMAIN Rebuild!NoBuckets[b] = {}
    BY DEF InBuckets, Rebuild!NoBuckets
  <1>2. 1 .. 0 = {}  OBVIOUS
  <1> QED  BY <1>1, <1>2 DEF Leads

\* Only the keys up to `size' matter.
LEMMA LeadsInBoth ==
  ASSUME NEW bk, NEW p, NEW q, NEW size \in Nat, Leads(bk, p, size),
         \A l \in 1 .. size : q.keys[l] = p.keys[l]
  PROVE  Leads(bk, q, size)
  <1>1. ASSUME NEW b \in 0 .. N - 1, NEW m \in DOMAIN bk[b]
        PROVE  bk[b][m][1] = q.keys[bk[b][m][2] + 1]
    <2>1. bk[b] \in Seq(Key \X Nat)  BY DEF Leads, InBuckets
    <2>2. bk[b][m] \in Key \X Nat  BY <2>1
    <2>3. bk[b][m][2] \in Nat /\ bk[b][m][2] < size  BY <2>2 DEF Leads
    <2>4. bk[b][m][2] + 1 \in 1 .. size  BY <2>3
    <2> QED  BY <2>4 DEF Leads
  <1> QED  BY <1>1 DEF Leads

NextPair(bk, p, size) ==
  [bk EXCEPT ![Rebuild!index(p.keys[size + 1])] = Append(@, <<p.keys[size + 1], size>>)]

\* An entry for the next pair, in the bucket of its key.
LEMMA LeadsFurther ==
  ASSUME NEW bk, NEW p, p.keys \in Seq(Key), NEW size \in Nat, size < Len(p.keys),
         Leads(bk, p, size), NEW next, next = NextPair(bk, p, size)
  PROVE  Leads(next, p, size + 1)
  <1> DEFINE key == p.keys[size + 1]
             b   == Rebuild!index(key)
             e   == <<key, size>>
             new == Len(bk[b]) + 1
  <1>1. size + 1 \in DOMAIN p.keys /\ key \in Key  OBVIOUS
  <1>2. b \in 0 .. N - 1  BY <1>1, RIndexInRange
  <1>3. bk \in [0 .. N - 1 -> Seq(Key \X Nat)] /\ bk[b] \in Seq(Key \X Nat) /\ e \in Key \X Nat
    BY <1>1, <1>2 DEF Leads, InBuckets
  <1>4. next = [bk EXCEPT ![b] = Append(bk[b], e)]  BY DEF NextPair
  <1> HIDE DEF b, e
  <1>5. /\ \A c \in 0 .. N - 1 : c # b => next[c] = bk[c]
        /\ next[b] = Append(bk[b], e)
    BY <1>2, <1>3, <1>4
  <1>6. /\ next[b] \in Seq(Key \X Nat) /\ DOMAIN next[b] = DOMAIN bk[b] \cup {new}
        /\ new \notin DOMAIN bk[b] /\ next[b][new] = e
        /\ \A m \in DOMAIN bk[b] : next[b][m] = bk[b][m]
    <2> DEFINE S == Key \X Nat
               s == bk[b]
               t == next[b]
    <2>1. s \in Seq(S) /\ e \in S /\ t = Append(s, e)  BY <1>3, <1>5
    <2> HIDE DEF S, s, t
    <2>2. /\ t \in Seq(S) /\ DOMAIN t = DOMAIN s \cup {Len(s) + 1}
          /\ Len(s) + 1 \notin DOMAIN s /\ t[Len(s) + 1] = e
          /\ \A m \in DOMAIN s : t[m] = s[m]
      BY <2>1, AppendFacts
    <2> QED  BY <2>2 DEF S, s, t
  <1>7. next \in InBuckets
    <2> DEFINE grown == Append(bk[b], e)
    <2>1. grown \in Seq(Key \X Nat)  BY <1>5, <1>6
    <2> HIDE DEF grown
    <2>2. next = [bk EXCEPT ![b] = grown]  BY <1>4 DEF grown
    <2> QED  BY <1>3, <2>1, <2>2 DEF InBuckets
  <1> HIDE DEF new
  <1>8. \A c \in 0 .. N - 1 : \A m \in DOMAIN bk[c] : m \in DOMAIN next[c] /\ next[c][m] = bk[c][m]
    BY <1>5, <1>6
  <1>9. ASSUME NEW c \in 0 .. N - 1, NEW m \in DOMAIN next[c]
        PROVE  next[c][m][2] < size + 1 /\ next[c][m][1] = p.keys[next[c][m][2] + 1]
    <2>1. CASE m \in DOMAIN bk[c]
      <3>1. bk[c] \in Seq(Key \X Nat)  BY <1>3
      <3>2. bk[c][m] \in Key \X Nat  BY <2>1, <3>1
      <3>3. bk[c][m][2] \in Nat /\ bk[c][m][2] < size /\ next[c][m] = bk[c][m]
        BY <1>8, <2>1, <3>2 DEF Leads
      <3>4. bk[c][m][1] = p.keys[bk[c][m][2] + 1]  BY <2>1 DEF Leads
      <3> QED  BY <3>3, <3>4
    <2>2. CASE c = b /\ m = new
      <3>1. next[c][m][1] = key /\ next[c][m][2] = size  BY <1>6, <2>2 DEF e
      <3> QED  BY <3>1
    <2> QED  BY <1>5, <1>6, <2>1, <2>2
  <1>10. ASSUME NEW l \in 1 .. size + 1
         PROVE  \E m \in DOMAIN next[Rebuild!index(p.keys[l])] :
                  next[Rebuild!index(p.keys[l])][m] = <<p.keys[l], l - 1>>
    <2>1. CASE l \in 1 .. size
      <3>1. PICK m \in DOMAIN bk[Rebuild!index(p.keys[l])] :
              bk[Rebuild!index(p.keys[l])][m] = <<p.keys[l], l - 1>>
        BY <2>1 DEF Leads
      <3>2. p.keys[l] \in Key  BY <2>1
      <3>3. Rebuild!index(p.keys[l]) \in 0 .. N - 1  BY <3>2, RIndexInRange
      <3> QED  BY <1>8, <3>1, <3>3
    <2>2. CASE l = size + 1
      <3>1. l - 1 = size /\ p.keys[l] = key  BY <2>2
      <3>2. next[Rebuild!index(p.keys[l])] = next[b]  BY <3>1 DEF b
      <3>3. next[b][new] = <<p.keys[l], l - 1>>  BY <1>6, <3>1 DEF e
      <3> QED  BY <1>6, <3>2, <3>3
    <2> QED  BY <2>1, <2>2
  <1> QED  BY <1>7, <1>9, <1>10 DEF Leads

\* The search in the buckets finds the pair of the key, if there is one.
LEMMA SearchFinds ==
  ASSUME NEW p, Paired(p), Leads(rbBuckets, p, Len(p.values)), NEW key \in Key
  PROVE  /\ Rebuild!Matches(key) = {} => \A l \in DOMAIN p.keys : p.keys[l] # key
         /\ Rebuild!Matches(key) # {} => /\ Rebuild!place(key) \in Nat
                                         /\ Rebuild!place(key) + 1 \in DOMAIN p.keys
                                         /\ p.keys[Rebuild!place(key) + 1] = key
  <1> DEFINE b == Rebuild!index(key)
  <1>0. b \in 0 .. N - 1  BY RIndexInRange
  <1>1. rbBuckets[b] \in Seq(Key \X Nat)  BY <1>0 DEF Leads, InBuckets
  <1>2. p.keys \in Seq(Key) /\ Len(p.keys) = Len(p.values) /\ Len(p.keys) \in Nat
    BY DEF Paired, Pairs
  <1>3. ASSUME Rebuild!Matches(key) = {}, NEW l \in DOMAIN p.keys, p.keys[l] = key PROVE FALSE
    <2>1. l \in 1 .. Len(p.values)  BY <1>2
    <2>2. PICK m \in DOMAIN rbBuckets[b] : rbBuckets[b][m] = <<key, l - 1>>
      BY <1>3, <2>1 DEF Leads
    <2> QED  BY <1>3, <2>2 DEF Rebuild!Matches
  <1>4. ASSUME Rebuild!Matches(key) # {}
        PROVE  /\ Rebuild!place(key) \in Nat /\ Rebuild!place(key) + 1 \in DOMAIN p.keys
               /\ p.keys[Rebuild!place(key) + 1] = key
    <2> DEFINE m == Rebuild!Min(Rebuild!Matches(key))
    <2>1. Rebuild!Matches(key) \in SUBSET Nat  BY <1>1 DEF Rebuild!Matches
    <2>2. m \in Rebuild!Matches(key)  BY <1>4, <2>1, MinIsThere
    <2> HIDE DEF m
    <2>3. m \in DOMAIN rbBuckets[b] /\ rbBuckets[b][m][1] = key  BY <2>2 DEF Rebuild!Matches
    <2>4. rbBuckets[b][m] \in Key \X Nat  BY <1>1, <2>3
    <2>5. rbBuckets[b][m][2] \in Nat /\ rbBuckets[b][m][2] < Len(p.values)
      BY <1>0, <2>3, <2>4 DEF Leads
    <2>6. Rebuild!place(key) = rbBuckets[b][m][2]  BY DEF Rebuild!place, m
    <2>7. p.keys[rbBuckets[b][m][2] + 1] = key  BY <1>0, <2>3 DEF Leads
    <2> QED  BY <1>2, <2>5, <2>6, <2>7
  <1> QED  BY <1>3, <1>4

LEMMA NewPairs ==
  LET p == [kv |-> FALSE, values |-> <<>>, keys |-> <<>>]
  IN  Paired(p) /\ PairsMap(p) = [key \in Key |-> Nothing]
  <1> DEFINE p == [kv |-> FALSE, values |-> <<>>, keys |-> <<>>]
  <1>1. p \in Pairs /\ DOMAIN p.keys = {} /\ Len(p.keys) = Len(p.values)  BY DEF Pairs
  <1> QED  BY <1>1 DEF Paired, PairsMap

LEMMA FlagPairs ==
  ASSUME NEW p, Paired(p), NEW q, q = [p EXCEPT !.kv = TRUE]
  PROVE  Paired(q) /\ PairsMap(q) = PairsMap(p)
  <1>1. q \in Pairs /\ q.values = p.values /\ q.keys = p.keys  BY DEF Paired, Pairs
  <1> QED  BY <1>1 DEF Paired, PairsMap

LEMMA RStoredIs ==
  /\ RBOutside => Rebuild!Stored = PairsMap(rbPool)
  /\ RBInside => Rebuild!Stored = PairsMap(rbUndo[1])
  <1>1. Rebuild!Stored = PairsMap(Rebuild!Tx!Durable)  BY DEF Rebuild!Stored, PairsMap
  <1> QED  BY <1>1 DEF RBOutside, RBInside, Rebuild!Tx!Durable, Rebuild!Tx!InTx

LEMMA RStoredWillBe ==
  /\ RBOutside' => Rebuild!Stored' = PairsMap(rbPool')
  /\ RBInside' => Rebuild!Stored' = PairsMap(rbUndo'[1])
  <1>1. Rebuild!Stored' = PairsMap(Rebuild!Tx!Durable')  BY DEF Rebuild!Stored, PairsMap
  <1> QED  BY <1>1 DEF RBOutside, RBInside, Rebuild!Tx!Durable, Rebuild!Tx!InTx

LEMMA RBStart == Rebuild!Init => RBInv /\ Rebuild!Map!Init
  <1> SUFFICES ASSUME Rebuild!Init PROVE RBInv /\ Rebuild!Map!Init  OBVIOUS
  <1>1. RBDown  BY NewPairs DEF Rebuild!Init, RBDown, RBOutside
  <1>2. Rebuild!Stored = PairsMap(rbPool)  BY <1>1, RStoredIs DEF RBDown
  <1>3. Rebuild!Map!Init
    BY <1>2, NewPairs DEF Rebuild!Init, Rebuild!Map!Init, Rebuild!Map!NoCall, Rebuild!NoCall
  <1> QED  BY <1>1, <1>3 DEF RBInv

\* Where the process is tells how far it has come.
LEMMA RBPlaces ==
  ASSUME RBInv
  PROVE  /\ rbPc = "down" => RBDown
         /\ rbPc = "make_kv" => RBMake
         /\ rbPc = "commit_kv" => RBMade
         /\ rbPc = "rebuild" => RBBuild
         /\ rbPc = "loop" => RBLoop
         /\ rbPc = "run" => RBRun
         /\ rbPc = "commit_update" => RBUpdated
         /\ rbPc = "emplace_key" => RBGrown
         /\ rbPc = "commit_insert" => RBWritten
         /\ rbPc = "index" => RBIndex
         /\ rbPc = "return" => RBDone
         /\ RBOutside \/ (RBInside /\ rbPc # "down")
  BY DEF RBInv, RBDown, RBMake, RBMade, RBBuild, RBLoop, RBRun, RBUpdated, RBGrown, RBWritten,
         RBIndex, RBDone

\* A process that ends without an answer leaves the map alone.
LEMMA RBEnds ==
  ASSUME RBInv, Rebuild!Tx!Recover, rbPc # "down",
         Rebuild!End(IF rbCall = Rebuild!NoCall THEN rbReply ELSE "lost")
  PROVE  RBInv' /\ [Rebuild!Map!Next]_(Rebuild!Map!vars)
  <1>1. RBOutside \/ RBInside  BY RBPlaces
  <1>2. RBOutside' /\ Rebuild!Stored' = Rebuild!Stored
    BY <1>1, RStoredIs, RStoredWillBe
       DEF Rebuild!Tx!Recover, Rebuild!Tx!Durable, Rebuild!Tx!InTx, RBOutside, RBInside
  <1>3. RBInv'  BY <1>2 DEF RBInv, RBDown, Rebuild!End, Rebuild!NoCall
  <1>4. CASE rbCall = Rebuild!NoCall
    BY <1>2, <1>3, <1>4 DEF Rebuild!End, Rebuild!NoCall, Rebuild!Map!vars
  <1>5. CASE rbCall # Rebuild!NoCall
    <2>1. Rebuild!Map!Lost
      BY <1>2, <1>5 DEF Rebuild!Map!Lost, Rebuild!End, Rebuild!NoCall, Rebuild!Map!NoCall
    <2> QED  BY <1>3, <2>1 DEF Rebuild!Map!Next
  <1> QED  BY <1>4, <1>5

\* Each step of the store is a step of the map, or none.
LEMMA RBStepRefines ==
  ASSUME RBInv, [Rebuild!Next]_(Rebuild!vars)
  PROVE  RBInv' /\ [Rebuild!Map!Next]_(Rebuild!Map!vars)
  <1> USE DEF Rebuild!Map!vars
  <1>1. CASE Rebuild!Start
    <2>1. RBDown  BY <1>1, RBPlaces DEF Rebuild!Start
    <2>2. /\ rbPc' = IF rbPool.kv THEN "rebuild" ELSE "make_kv"
          /\ rbBuckets' = Rebuild!NoBuckets /\ rbI' = 0
          /\ UNCHANGED <<rbPool, rbUndo, rbCall, rbReply>>
      BY <1>1 DEF Rebuild!Start
    <2>3. RBOutside' /\ Rebuild!Stored' = Rebuild!Stored /\ rbCall' = Rebuild!NoCall
      BY <2>1, <2>2, RStoredIs, RStoredWillBe DEF RBDown, RBOutside
    <2>4. CASE rbPool.kv
      <3>1. 0 \in 0 .. Len(rbPool.values)  BY <2>1 DEF RBDown, RBOutside, Paired, Pairs
      <3>2. RBBuild'
        BY <2>2, <2>3, <2>4, <3>1, LeadsNowhere DEF RBBuild, Rebuild!NoCall, Rebuild!NoBuckets
      <3> QED  BY <2>2, <2>3, <3>2 DEF RBInv
    <2>5. CASE ~rbPool.kv
      <3>1. RBMake'  BY <2>2, <2>3, <2>5 DEF RBMake, Rebuild!NoCall, Rebuild!NoBuckets
      <3> QED  BY <2>2, <2>3, <3>1 DEF RBInv
    <2> QED  BY <2>4, <2>5
  <1>2. CASE Rebuild!MakeKV
    <2>1. RBMake  BY <1>2, RBPlaces DEF Rebuild!MakeKV
    <2>2. /\ rbUndo' = <<rbPool>> /\ rbPool' = [rbPool EXCEPT !.kv = TRUE]
          /\ rbPc' = "commit_kv" /\ UNCHANGED <<rbBuckets, rbI, rbCall, rbReply>>
      BY <1>2 DEF Rebuild!MakeKV, Rebuild!Tx!BeginWith
    <2>3. RBInside' /\ Rebuild!Stored' = Rebuild!Stored
      BY <2>1, <2>2, RStoredIs, RStoredWillBe DEF RBMake, RBOutside, RBInside
    <2>4. RBMade'
      BY <2>1, <2>2, <2>3 DEF RBMade, RBMake, Rebuild!NoCall, Rebuild!NoBuckets
    <2> QED  BY <2>2, <2>3, <2>4 DEF RBInv
  <1>3. CASE Rebuild!CommitKV
    <2>1. RBMade  BY <1>3, RBPlaces DEF Rebuild!CommitKV
    <2>2. rbUndo' = <<>> /\ rbPc' = "rebuild" /\ UNCHANGED <<rbPool, rbBuckets, rbI, rbCall, rbReply>>
      BY <1>3 DEF Rebuild!CommitKV, Rebuild!Tx!Commit
    <2>3. Paired(rbPool) /\ PairsMap(rbPool) = PairsMap(rbUndo[1])
      BY <2>1, FlagPairs DEF RBMade, RBInside
    <2>4. RBOutside' /\ Rebuild!Stored' = Rebuild!Stored
      BY <2>1, <2>2, <2>3, RStoredIs, RStoredWillBe DEF RBMade, RBOutside
    <2>5. 0 \in 0 .. Len(rbPool.values)  BY <2>3 DEF Paired, Pairs
    <2>6. RBBuild'
      BY <2>1, <2>2, <2>4, <2>5, LeadsNowhere DEF RBMade, RBBuild, Rebuild!NoCall
    <2> QED  BY <2>2, <2>4, <2>6 DEF RBInv
  <1>4. CASE Rebuild!rebuild
    <2>1. RBBuild  BY <1>4, RBPlaces DEF Rebuild!rebuild
    <2>2. UNCHANGED <<rbPool, rbUndo, rbCall, rbReply>> /\ rbPc = "rebuild"
      BY <1>4 DEF Rebuild!rebuild
    <2>3. RBOutside' /\ Rebuild!Stored' = Rebuild!Stored /\ rbCall' = Rebuild!NoCall
      BY <2>1, <2>2, RStoredIs, RStoredWillBe DEF RBBuild, RBOutside
    <2>4. /\ rbPool.keys \in Seq(Key) /\ Len(rbPool.keys) = Len(rbPool.values)
          /\ Len(rbPool.values) \in Nat /\ rbI \in Nat /\ rbI <= Len(rbPool.values)
          /\ Leads(rbBuckets, rbPool, rbI)
      BY <2>1 DEF RBBuild, RBOutside, Paired, Pairs
    <2>5. CASE rbI < Len(rbPool.values)
      <3>1. /\ rbI' = rbI + 1 /\ rbPc' = "rebuild"
            /\ rbBuckets' = NextPair(rbBuckets, rbPool, rbI)
        BY <1>4, <2>2, <2>5 DEF Rebuild!rebuild, Rebuild!Indexed, NextPair
      <3>2. Leads(rbBuckets', rbPool, rbI + 1)  BY <2>4, <2>5, <3>1, LeadsFurther
      <3>3. rbI + 1 \in 0 .. Len(rbPool.values)  BY <2>4, <2>5
      <3>4. RBBuild'  BY <2>2, <2>3, <3>1, <3>2, <3>3 DEF RBBuild, Rebuild!NoCall
      <3> QED  BY <2>2, <2>3, <3>4 DEF RBInv
    <2>6. CASE ~(rbI < Len(rbPool.values))
      <3>1. rbPc' = "loop" /\ UNCHANGED <<rbBuckets, rbI>>
        BY <1>4, <2>6 DEF Rebuild!rebuild
      <3>2. rbI = Len(rbPool.values)  BY <2>4, <2>6
      <3>3. RBLoop'  BY <2>2, <2>3, <2>4, <3>1, <3>2 DEF RBLoop, Rebuild!NoCall
      <3> QED  BY <2>2, <2>3, <3>3 DEF RBInv
    <2> QED  BY <2>5, <2>6
  <1>5. ASSUME NEW c \in Rebuild!Calls, Rebuild!Read(c)
        PROVE  RBInv' /\ [Rebuild!Map!Next]_(Rebuild!Map!vars)
    <2>1. RBLoop  BY <1>5, RBPlaces DEF Rebuild!Read
    <2>2. rbCall' = c /\ rbPc' = "run" /\ UNCHANGED <<rbPool, rbUndo, rbBuckets, rbI, rbReply>>
      BY <1>5 DEF Rebuild!Read
    <2>3. RBOutside' /\ Rebuild!Stored' = Rebuild!Stored
      BY <2>1, <2>2, RStoredIs, RStoredWillBe DEF RBLoop, RBOutside
    <2>4. RBRun'  BY <2>1, <2>2, <2>3 DEF RBRun, RBLoop, Rebuild!Calls
    <2>5. Rebuild!Map!Invoke(c)
      BY <2>1, <2>2, <2>3 DEF RBLoop, Rebuild!Map!Invoke, Rebuild!NoCall, Rebuild!Map!NoCall
    <2>6. c \in Rebuild!Map!Calls  BY DEF Rebuild!Calls, Rebuild!Map!Calls
    <2> QED  BY <2>4, <2>5, <2>6 DEF RBInv, Rebuild!Map!Next
  <1>6. CASE Rebuild!Exit \/ Rebuild!Usage
    <2>1. RBRun  BY <1>6, RBPlaces DEF Rebuild!Exit, Rebuild!Usage
    <2>2. /\ UNCHANGED <<rbPool, rbUndo, rbBuckets, rbI>> /\ rbCall.op = "exit"
          /\ rbPc' \in {"down", "loop"} /\ rbCall' = Rebuild!NoCall /\ rbReply' = "lost"
      BY <1>6 DEF Rebuild!Exit, Rebuild!Usage, Rebuild!End
    <2>3. RBOutside' /\ Rebuild!Stored' = Rebuild!Stored
      BY <2>1, <2>2, RStoredIs, RStoredWillBe DEF RBRun, RBOutside
    <2>4. RBDown' \/ RBLoop'
      BY <2>1, <2>2, <2>3 DEF RBDown, RBLoop, RBRun, Rebuild!NoCall
    <2>5. rbCall # Rebuild!NoCall  BY <2>2 DEF Rebuild!NoCall
    <2>6. Rebuild!Map!Lost
      BY <2>2, <2>3, <2>5 DEF Rebuild!Map!Lost, Rebuild!NoCall, Rebuild!Map!NoCall
    <2> QED  BY <2>4, <2>6 DEF RBInv, Rebuild!Map!Next
  <1>7. CASE Rebuild!get
    <2>1. RBRun /\ rbCall.op = "get"  BY <1>7, RBPlaces DEF Rebuild!get
    <2>2. rbCall.key \in Key  BY <2>1 DEF RBRun, Rebuild!Calls
    <2>3. UNCHANGED <<rbPool, rbUndo, rbBuckets, rbI>> /\ rbCall' = Rebuild!NoCall
      BY <1>7 DEF Rebuild!get, Rebuild!End, Rebuild!Back
    <2>4. RBOutside' /\ Rebuild!Stored' = Rebuild!Stored /\ Rebuild!Stored = PairsMap(rbPool)
      BY <2>1, <2>3, RStoredIs, RStoredWillBe DEF RBRun, RBOutside
    <2>5. Paired(rbPool) /\ Leads(rbBuckets, rbPool, Len(rbPool.values))
      BY <2>1 DEF RBRun, RBOutside
    <2>6. CASE Rebuild!Matches(rbCall.key) = {}
      <3>1. rbPc' = "down" /\ rbReply' = Nothing  BY <1>7, <2>6 DEF Rebuild!get, Rebuild!End
      <3>2. PairsMap(rbPool)[rbCall.key] = Nothing
        BY <2>2, <2>5, <2>6, SearchFinds, PairsMiss
      <3>3. RBDown'  BY <2>3, <2>4, <3>1 DEF RBDown, Rebuild!NoCall
      <3>4. Rebuild!Map!Get
        BY <2>1, <2>3, <2>4, <3>1, <3>2 DEF Rebuild!Map!Get, Rebuild!NoCall, Rebuild!Map!NoCall
      <3> QED  BY <3>3, <3>4 DEF RBInv, Rebuild!Map!Next
    <2>7. CASE Rebuild!Matches(rbCall.key) # {}
      <3>1. rbPc' = "loop" /\ rbReply' = rbPool.values[Rebuild!place(rbCall.key) + 1]
        BY <1>7, <2>7 DEF Rebuild!get, Rebuild!Back
      <3>2. /\ Rebuild!place(rbCall.key) + 1 \in DOMAIN rbPool.keys
            /\ rbPool.keys[Rebuild!place(rbCall.key) + 1] = rbCall.key
        BY <2>2, <2>5, <2>7, SearchFinds
      <3>3. PairsMap(rbPool)[rbCall.key] = rbPool.values[Rebuild!place(rbCall.key) + 1]
        BY <2>5, <3>2, PairsHit
      <3>4. RBLoop'  BY <2>3, <2>4, <2>5, <3>1 DEF RBLoop, Rebuild!NoCall
      <3>5. Rebuild!Map!Get
        BY <2>1, <2>3, <2>4, <3>1, <3>3 DEF Rebuild!Map!Get, Rebuild!NoCall, Rebuild!Map!NoCall
      <3> QED  BY <3>4, <3>5 DEF RBInv, Rebuild!Map!Next
    <2> QED  BY <2>6, <2>7
  <1>8. CASE Rebuild!putUpdate
    <2>1. RBRun /\ rbCall.op = "put"  BY <1>8, RBPlaces DEF Rebuild!putUpdate
    <2>2. /\ Rebuild!Matches(rbCall.key) # {} /\ rbUndo' = <<rbPool>>
          /\ rbPool' = [rbPool EXCEPT !.values[Rebuild!place(rbCall.key) + 1] = rbCall.val]
          /\ rbPc' = "commit_update" /\ UNCHANGED <<rbBuckets, rbI, rbCall, rbReply>>
      BY <1>8 DEF Rebuild!putUpdate, Rebuild!Tx!BeginWith
    <2>3. rbCall \in Puts /\ rbCall.key \in Key /\ rbCall.val \in Value
      BY <2>1 DEF RBRun, Rebuild!Calls, Puts
    <2>4. Paired(rbPool) /\ Leads(rbBuckets, rbPool, Len(rbPool.values))
      BY <2>1 DEF RBRun, RBOutside
    <2>5. /\ Rebuild!place(rbCall.key) + 1 \in DOMAIN rbPool.keys
          /\ rbPool.keys[Rebuild!place(rbCall.key) + 1] = rbCall.key
      BY <2>2, <2>3, <2>4, SearchFinds
    <2>6. /\ Paired(rbPool') /\ rbPool'.keys = rbPool.keys
          /\ PairsMap(rbPool') = [PairsMap(rbPool) EXCEPT ![rbCall.key] = rbCall.val]
      <3> DEFINE at == Rebuild!place(rbCall.key) + 1
      <3>1. rbPool' = [rbPool EXCEPT !.values[at] = rbCall.val]  BY <2>2
      <3>2. at \in DOMAIN rbPool.keys /\ rbPool.keys[at] = rbCall.key  BY <2>5
      <3> HIDE DEF at
      <3> QED  BY <2>3, <2>4, <3>1, <3>2, UpdatePairs
    <2>7. RBInside' /\ Rebuild!Stored' = Rebuild!Stored
      BY <2>1, <2>2, RStoredIs, RStoredWillBe DEF RBRun, RBOutside, RBInside
    <2>8. RBUpdated'  BY <2>2, <2>3, <2>4, <2>6, <2>7 DEF RBUpdated
    <2> QED  BY <2>2, <2>7, <2>8 DEF RBInv
  <1>9. CASE Rebuild!putEmplaceValue
    <2>1. RBRun /\ rbCall.op = "put"  BY <1>9, RBPlaces DEF Rebuild!putEmplaceValue
    <2>2. /\ Rebuild!Matches(rbCall.key) = {} /\ rbUndo' = <<rbPool>>
          /\ rbPool' = [rbPool EXCEPT !.values = Append(@, rbCall.val)]
          /\ rbPc' = "emplace_key" /\ UNCHANGED <<rbBuckets, rbI, rbCall, rbReply>>
      BY <1>9 DEF Rebuild!putEmplaceValue, Rebuild!Tx!BeginWith
    <2>3. rbCall \in Puts  BY <2>1 DEF RBRun, Rebuild!Calls, Puts
    <2>4. RBInside' /\ Rebuild!Stored' = Rebuild!Stored
      BY <2>1, <2>2, RStoredIs, RStoredWillBe DEF RBRun, RBOutside, RBInside
    <2>5. Rebuild!Matches(rbCall.key)' = {}  BY <2>2 DEF Rebuild!Matches
    <2>6. RBGrown'  BY <2>1, <2>2, <2>3, <2>4, <2>5 DEF RBGrown, RBRun
    <2> QED  BY <2>2, <2>4, <2>6 DEF RBInv
  <1>10. CASE Rebuild!putEmplaceKey
    <2>1. RBGrown  BY <1>10, RBPlaces DEF Rebuild!putEmplaceKey
    <2> DEFINE old == rbUndo[1]
    <2>2. /\ rbPool' = [rbPool EXCEPT !.keys = Append(@, rbCall.key)]
          /\ rbPc' = "commit_insert" /\ UNCHANGED <<rbUndo, rbBuckets, rbI, rbCall, rbReply>>
      BY <1>10 DEF Rebuild!putEmplaceKey, Rebuild!Tx!Write
    <2>3. /\ Paired(old) /\ Leads(rbBuckets, old, Len(old.values)) /\ rbCall \in Puts
          /\ rbCall.key \in Key /\ rbCall.val \in Value
          /\ rbPool = [old EXCEPT !.values = Append(old.values, rbCall.val)]
          /\ Rebuild!Matches(rbCall.key) = {}
      BY <2>1 DEF RBGrown, RBInside, Puts
    <2> HIDE DEF old
    <2>4. \A l \in DOMAIN old.keys : old.keys[l] # rbCall.key  BY <2>3, SearchFinds
    <2>5. AddedPair(old, rbPool', rbCall.key, rbCall.val)
      <3> DEFINE w == Append(old.values, rbCall.val)
                 ks == Append(old.keys, rbCall.key)
      <3>1. old \in Pairs /\ old.values \in Seq(Value) /\ old.keys \in Seq(Key)
        BY <2>3 DEF Paired, Pairs
      <3>2. w \in Seq(Value) /\ ks \in Seq(Key)  BY <2>3, <3>1
      <3> HIDE DEF w
      <3>3. rbPool = [old EXCEPT !.values = w]  BY <2>3 DEF w
      <3>4. rbPool \in Pairs /\ rbPool.values = w /\ rbPool.keys = old.keys
        BY <3>1, <3>2, <3>3 DEF Pairs
      <3>5. rbPool' = [rbPool EXCEPT !.keys = ks]  BY <2>2, <3>4
      <3> HIDE DEF ks
      <3>6. rbPool' \in Pairs /\ rbPool'.values = w /\ rbPool'.keys = ks
        BY <3>2, <3>4, <3>5 DEF Pairs
      <3> QED  BY <3>6 DEF AddedPair, w, ks
    <2>6. /\ Paired(rbPool')
          /\ PairsMap(rbPool') = [PairsMap(old) EXCEPT ![rbCall.key] = rbCall.val]
      BY <2>3, <2>4, <2>5, InsertPairs
    <2>7. RBInside' /\ Rebuild!Stored' = Rebuild!Stored
      BY <2>1, <2>2, RStoredIs, RStoredWillBe DEF RBGrown, RBInside
    <2>8. RBWritten'
      BY <2>2, <2>3, <2>5, <2>6, <2>7 DEF RBWritten, AddedPair, old
    <2> QED  BY <2>2, <2>7, <2>8 DEF RBInv
  <1>11. CASE Rebuild!putCommit
    <2>1. RBUpdated \/ RBWritten  BY <1>11, RBPlaces DEF Rebuild!putCommit
    <2>2. /\ rbUndo' = <<>> /\ rbCall' = [rbCall EXCEPT !.op = "done"]
          /\ rbPc' = IF rbPc = "commit_update" THEN "return" ELSE "index"
          /\ UNCHANGED <<rbPool, rbBuckets, rbI, rbReply>>
      BY <1>11 DEF Rebuild!putCommit, Rebuild!Tx!Commit
    <2> DEFINE old == rbUndo[1]
    <2>3. /\ rbCall \in Puts /\ Paired(rbPool) /\ Paired(old)
          /\ Leads(rbBuckets, old, Len(old.values))
          /\ PairsMap(rbPool) = [PairsMap(old) EXCEPT ![rbCall.key] = rbCall.val]
      BY <2>1 DEF RBUpdated, RBWritten, RBInside
    <2>4. RBOutside' /\ Rebuild!Stored' = [Rebuild!Stored EXCEPT ![rbCall.key] = rbCall.val]
      BY <2>1, <2>2, <2>3, RStoredIs, RStoredWillBe DEF RBUpdated, RBWritten, RBOutside
    <2>5. rbCall'.op = "done" /\ rbCall'.key = rbCall.key /\ rbCall.key \in Key
      BY <2>2, <2>3 DEF Puts
    <2>6. Rebuild!Map!Put  BY <2>2, <2>3, <2>4 DEF Rebuild!Map!Put, Puts
    <2> HIDE DEF old
    <2>7. /\ Len(old.values) \in Nat /\ Len(old.keys) = Len(old.values) /\ old.keys \in Seq(Key)
          /\ Len(rbPool.keys) = Len(rbPool.values)
      BY <2>3 DEF Paired, Pairs
    <2>8. CASE RBUpdated
      <3>1. rbPool.keys = old.keys  BY <2>8 DEF RBUpdated, old
      <3>2. Len(rbPool.values) = Len(old.values)  BY <2>7, <3>1
      <3>3. Leads(rbBuckets, rbPool, Len(old.values))  BY <2>3, <2>7, <3>1, LeadsInBoth
      <3>4. RBDone'  BY <2>2, <2>4, <2>5, <2>8, <3>2, <3>3 DEF RBDone, RBUpdated
      <3> QED  BY <2>6, <3>4 DEF RBInv, Rebuild!Map!Next
    <2>9. CASE RBWritten
      <3>1. rbPool.keys = Append(old.keys, rbCall.key)  BY <2>9 DEF RBWritten, old
      <3>2. /\ Len(rbPool.keys) = Len(old.keys) + 1
            /\ rbPool.keys[Len(old.keys) + 1] = rbCall.key
            /\ \A l \in DOMAIN old.keys : rbPool.keys[l] = old.keys[l]
        BY <2>5, <2>7, <3>1, AppendFacts
      <3>3. DOMAIN old.keys = 1 .. Len(old.values)  BY <2>7
      <3>4. Leads(rbBuckets, rbPool, Len(old.values))  BY <2>3, <2>7, <3>2, <3>3, LeadsInBoth
      <3>5. Len(rbPool.keys) - 1 = Len(old.values)  BY <2>7, <3>2
      <3>6. rbPool.keys # <<>>
        <4>1. Len(<<>>) = 0  OBVIOUS
        <4> QED  BY <2>7, <3>2, <4>1
      <3>7. RBIndex'
        BY <2>2, <2>4, <2>5, <2>9, <3>2, <3>4, <3>5, <3>6 DEF RBIndex, RBWritten
      <3> QED  BY <2>6, <3>7 DEF RBInv, Rebuild!Map!Next
    <2> QED  BY <2>1, <2>8, <2>9
  <1>12. CASE Rebuild!putIndex
    <2>1. RBIndex  BY <1>12, RBPlaces DEF Rebuild!putIndex
    <2>2. /\ rbBuckets' = Rebuild!Indexed(rbCall.key, Len(rbPool.values) - 1)
          /\ rbPc' = "return" /\ UNCHANGED <<rbPool, rbUndo, rbI, rbCall, rbReply>>
      BY <1>12 DEF Rebuild!putIndex
    <2>3. RBOutside' /\ Rebuild!Stored' = Rebuild!Stored
      BY <2>1, <2>2, RStoredIs, RStoredWillBe DEF RBIndex, RBOutside
    <2> DEFINE size == Len(rbPool.keys) - 1
    <2>4. /\ rbPool.keys \in Seq(Key) /\ Len(rbPool.keys) = Len(rbPool.values)
          /\ rbPool.keys # <<>> /\ rbCall.key = rbPool.keys[Len(rbPool.keys)]
          /\ Leads(rbBuckets, rbPool, size)
      BY <2>1 DEF RBIndex, RBOutside, Paired, Pairs
    <2>5. size \in Nat /\ size < Len(rbPool.keys) /\ size + 1 = Len(rbPool.keys)
      BY <2>4
    <2>6. rbBuckets' = NextPair(rbBuckets, rbPool, size)
      BY <2>2, <2>4, <2>5 DEF Rebuild!Indexed, NextPair
    <2> HIDE DEF size
    <2>7. Leads(rbBuckets', rbPool, size + 1)  BY <2>4, <2>5, <2>6, LeadsFurther
    <2>8. RBDone'  BY <2>1, <2>2, <2>3, <2>4, <2>5, <2>7 DEF RBIndex, RBDone
    <2> QED  BY <2>2, <2>3, <2>8 DEF RBInv
  <1>13. CASE Rebuild!putReturn
    <2>1. RBDone  BY <1>13, RBPlaces DEF Rebuild!putReturn
    <2>2. /\ rbPc' = "loop" /\ rbCall' = Rebuild!NoCall /\ rbReply' = rbCall.val
          /\ UNCHANGED <<rbPool, rbUndo, rbBuckets, rbI>>
      BY <1>13 DEF Rebuild!putReturn, Rebuild!Back
    <2>3. RBOutside' /\ Rebuild!Stored' = Rebuild!Stored
      BY <2>1, <2>2, RStoredIs, RStoredWillBe DEF RBDone, RBOutside
    <2>4. RBLoop'  BY <2>1, <2>2, <2>3 DEF RBDone, RBLoop, Rebuild!NoCall
    <2>5. Rebuild!Map!Return
      BY <2>1, <2>2, <2>3 DEF RBDone, Rebuild!Map!Return, Rebuild!NoCall, Rebuild!Map!NoCall
    <2> QED  BY <2>4, <2>5 DEF RBInv, Rebuild!Map!Next
  <1>14. CASE Rebuild!TxThrows
    <2>1. Rebuild!Tx!InTx /\ rbUndo' = <<>> /\ rbPool' = rbUndo[1]
      BY <1>14 DEF Rebuild!TxThrows, Rebuild!Tx!Abort
    <2>2. Rebuild!Tx!Recover  BY <2>1 DEF Rebuild!Tx!Recover, Rebuild!Tx!Durable
    <2>3. rbPc # "down"  BY <2>1, RBPlaces DEF Rebuild!Tx!InTx, RBOutside
    <2> QED  BY <1>14, <2>2, <2>3, RBEnds DEF Rebuild!TxThrows
  <1>15. CASE Rebuild!Crash  BY <1>15, RBEnds DEF Rebuild!Crash
  <1>16. CASE UNCHANGED Rebuild!vars
    <2>1. UNCHANGED <<rbPool, rbUndo, rbBuckets, rbI, rbPc, rbCall, rbReply>>
      BY <1>16 DEF Rebuild!vars
    <2>2. RBInv'
      BY <2>1 DEF RBInv, RBDown, RBMake, RBMade, RBBuild, RBLoop, RBRun, RBUpdated, RBGrown,
                  RBWritten, RBIndex, RBDone, RBOutside, RBInside, Rebuild!Matches
    <2>3. Rebuild!Stored' = Rebuild!Stored
      BY <2>1 DEF Rebuild!Stored, Rebuild!Tx!Durable, Rebuild!Tx!InTx
    <2> QED  BY <2>1, <2>2, <2>3
  <1> QED
    BY <1>1, <1>2, <1>3, <1>4, <1>5, <1>6, <1>7, <1>8, <1>9, <1>10, <1>11, <1>12, <1>13,
       <1>14, <1>15, <1>16 DEF Rebuild!Next

\* ppm_ch11_5: the volatile buckets of a running process, and those it rebuilds after any
\* death, answer from the two vectors as one map, which a put changes at one instant.
THEOREM SimpleKVRebuildIsAMap == Rebuild!Spec => RebuildImplementsMap
  BY RBStart, RBStepRefines, PTL
     DEF Rebuild!Spec, RebuildImplementsMap, Rebuild!ImplementsMap, Rebuild!Map!Spec
=============================================================================
