------------------------- MODULE PoolProgramsProofs --------------------------
(***************************************************************************)
(* Three of the programs that keep an object pool.  For every number of    *)
(* runs and every size of the pool: the transaction of pmemobj_atomic_ops  *)
(* frees only what is allocated, and a run of it leaks three objects at    *)
(* most.  For every number of threads and increments: the counters of      *)
(* ppm_ch14_1, ppm_ch14_2 and pmem_distributed_counter.  For every set of  *)
(* values and every size of the pool: the queue of ppm_ch8_7 is the FIFO   *)
(* that DurableFifo promises, whatever its length.                         *)
(***************************************************************************)
EXTENDS MCPoolPrograms, Sequences, FiniteSetTheorems, WellFoundedInduction, TLAPS
-----------------------------------------------------------------------------
\* A set of numbers has a least one.
LEMMA LeastNatural ==
  ASSUME NEW T \in SUBSET Nat, T # {}
  PROVE  \E x \in T : \A y \in T : x <= y
  <1> DEFINE Less == OpToRel(<, Nat)
  <1>1. IsWellFoundedOn(Less, Nat)  BY NatLessThanWellFounded
  <1>2. \A x, y \in Nat : x < y => <<x, y>> \in Less  BY DEF OpToRel
  <1> HIDE DEF Less
  <1>3. PICK x \in T : \A y \in T : ~(<<y, x>> \in Less)  BY <1>1, WFMin
  <1>4. ASSUME NEW y \in T PROVE x <= y
    <2>1. y \in Nat /\ x \in Nat  OBVIOUS
    <2>2. ~(y < x)  BY <1>2, <1>3, <2>1, Zenon
    <2> QED  BY <2>1, <2>2
  <1> QED  BY <1>3, <1>4
-----------------------------------------------------------------------------
(* pmemobj_atomic_ops *)

RoundType ==
  /\ pc \in {"down", "alloc", "delete"}
  /\ k \in 0 .. 3 /\ (pc = "down" => k = 0) /\ ends \in Nat
  /\ ptr \in [1 .. 3 -> Address \cup {nullptr}]
  /\ IsFiniteSet(heap)

\* How many objects the round under way has allocated and not yet given back.
Made == IF pc = "alloc" THEN k ELSE IF pc = "delete" THEN 3 ELSE 0

\* The pointers set in this round name different allocated objects ...
RoundIsLive ==
  /\ \A i \in 1 .. Made : ptr[i] \in heap
  /\ \A i, m \in 1 .. Made : ptr[i] = ptr[m] => i = m

\* ... the transaction has freed the first k of them ...
FreeingIsPrefix == freeing = IF pc = "delete" THEN {ptr[i] : i \in 1 .. k} ELSE {}

\* ... and everything else allocated was left by runs that ended.
HeapCounted == Cardinality(heap) <= 3 * ends + Made

RoundInv == RoundType /\ RoundIsLive /\ FreeingIsPrefix /\ HeapCounted

LEMMA RoundInit == Init => RoundInv
  <1> SUFFICES ASSUME Init PROVE RoundInv  OBVIOUS
  <1>1. IsFiniteSet(heap) /\ Cardinality(heap) = 0  BY FS_EmptySet DEF Init
  <1> QED  BY <1>1 DEF Init, RoundInv, RoundType, RoundIsLive, FreeingIsPrefix, HeapCounted, Made

\* Taking three different elements out of a finite set.
LEMMA RemoveThree ==
  ASSUME NEW S, IsFiniteSet(S), NEW a \in S, NEW b \in S, NEW c \in S, a # b, a # c, b # c
  PROVE  IsFiniteSet(S \ {a, b, c}) /\ Cardinality(S \ {a, b, c}) = Cardinality(S) - 3
  <1>1. IsFiniteSet(S \ {a}) /\ Cardinality(S \ {a}) = Cardinality(S) - 1
    BY FS_RemoveElement
  <1>2. IsFiniteSet((S \ {a}) \ {b}) /\ Cardinality((S \ {a}) \ {b}) = Cardinality(S \ {a}) - 1
    BY <1>1, FS_RemoveElement
  <1>3. IsFiniteSet(((S \ {a}) \ {b}) \ {c})
        /\ Cardinality(((S \ {a}) \ {b}) \ {c}) = Cardinality((S \ {a}) \ {b}) - 1
    BY <1>2, FS_RemoveElement
  <1>4. ((S \ {a}) \ {b}) \ {c} = S \ {a, b, c}  OBVIOUS
  <1>5. Cardinality(S) \in Nat  BY FS_CardinalityType
  <1> QED  BY <1>1, <1>2, <1>3, <1>4, <1>5

LEMMA RoundStep == RoundInv /\ [Next]_vars => RoundInv'
  <1> SUFFICES ASSUME RoundInv, [Next]_vars PROVE RoundInv'  OBVIOUS
  <1>0. RoundType /\ RoundIsLive /\ FreeingIsPrefix /\ HeapCounted /\ Cardinality(heap) \in Nat
    BY FS_CardinalityType DEF RoundInv, RoundType
  <1> USE <1>0 DEF RoundInv, RoundType, Made
  <1>1. CASE Start
    BY <1>1 DEF Start, RoundIsLive, FreeingIsPrefix, HeapCounted
  <1>2. CASE Alloc
    <2>1. PICK a \in Address \ heap : heap' = heap \cup {a} /\ ptr' = [ptr EXCEPT ![k + 1] = a]
      BY <1>2 DEF Alloc
    <2>2. IsFiniteSet(heap') /\ Cardinality(heap') = Cardinality(heap) + 1
      BY <2>1, FS_AddElement
    <2>3. pc = "alloc" /\ k \in 0 .. 2 /\ k' = k + 1 /\ UNCHANGED <<freeing, pc, ends>>
      BY <1>2 DEF Alloc
    <2>4. RoundType'  BY <2>1, <2>2, <2>3
    <2>5. RoundIsLive'
      <3>1. ptr'[k + 1] = a /\ \A i \in 1 .. k : ptr'[i] = ptr[i]  BY <2>1, <2>3
      <3>2. 1 .. Made' = (1 .. k) \cup {k + 1} /\ k + 1 \notin 1 .. k  BY <2>3
      <3> QED  BY <2>1, <2>3, <3>1, <3>2 DEF RoundIsLive
    <2>6. FreeingIsPrefix'  BY <2>3 DEF FreeingIsPrefix
    <2>7. HeapCounted'  BY <2>2, <2>3 DEF HeapCounted
    <2> QED  BY <2>4, <2>5, <2>6, <2>7
  <1>3. CASE BeginTx
    BY <1>3 DEF BeginTx, RoundIsLive, FreeingIsPrefix, HeapCounted
  <1>4. CASE Delete
    <2>1. pc = "delete" /\ k \in 0 .. 2 /\ k' = k + 1 /\ UNCHANGED <<heap, ptr, pc, ends>>
      BY <1>4 DEF Delete
    <2>2. 1 .. k' = (1 .. k) \cup {k + 1}  BY <2>1
    <2>3. FreeingIsPrefix'  BY <1>4, <2>1, <2>2 DEF Delete, FreeingIsPrefix
    <2>4. RoundIsLive' /\ HeapCounted' /\ RoundType'  BY <2>1 DEF RoundIsLive, HeapCounted
    <2> QED  BY <2>3, <2>4
  <1>5. CASE Commit
    <2>1. pc = "delete" /\ k = 3 /\ heap' = heap \ freeing /\ freeing' = {}
          /\ pc' = "alloc" /\ k' = 0 /\ UNCHANGED <<ptr, ends>>
      BY <1>5 DEF Commit
    <2>2. freeing = {ptr[1], ptr[2], ptr[3]}
      <3>1. 1 .. 3 = {1, 2, 3}  OBVIOUS
      <3> QED  BY <2>1, <3>1 DEF FreeingIsPrefix
    <2>3. ptr[1] \in heap /\ ptr[2] \in heap /\ ptr[3] \in heap
          /\ ptr[1] # ptr[2] /\ ptr[1] # ptr[3] /\ ptr[2] # ptr[3]
      BY <2>1 DEF RoundIsLive
    <2>4. IsFiniteSet(heap') /\ Cardinality(heap') = Cardinality(heap) - 3
      BY <2>1, <2>2, <2>3, RemoveThree
    <2> QED  BY <2>1, <2>4 DEF RoundIsLive, FreeingIsPrefix, HeapCounted
  <1>6. CASE End
    BY <1>6 DEF End, RoundIsLive, FreeingIsPrefix, HeapCounted
  <1>7. CASE UNCHANGED vars
    BY <1>7 DEF vars, RoundIsLive, FreeingIsPrefix, HeapCounted
  <1> QED  BY <1>1, <1>2, <1>3, <1>4, <1>5, <1>6, <1>7 DEF Next

\* The transaction of pmemobj_atomic_ops frees three different objects that are all
\* allocated, over any number of rounds, deaths and restarts.
THEOREM FreesAreLive == Spec => []FreesOnlyLive
  <1>1. RoundInv => FreesOnlyLive  BY DEF RoundInv, RoundIsLive, FreesOnlyLive, Made
  <1> QED  BY <1>1, RoundInit, RoundStep, PTL DEF Spec

\* After any number of runs, at most three objects for each of them are allocated.
THEOREM LeakIsBounded == Spec => []LeakBounded
  <1>1. RoundInv => LeakBounded
    <2> SUFFICES ASSUME RoundInv PROVE LeakBounded  OBVIOUS
    <2>1. Cardinality(heap) \in Nat  BY FS_CardinalityType DEF RoundInv, RoundType
    <2> QED  BY <2>1 DEF RoundInv, RoundType, HeapCounted, LeakBounded, Made
  <1> QED  BY <1>1, RoundInit, RoundStep, PTL DEF Spec
-----------------------------------------------------------------------------
(* The counters, ppm_ch14_1, ppm_ch14_2 and pmem_distributed_counter *)

Thread == Counter!Thread
Entry  == Counter!Entry

\* A thread has a log from its snapshot to its commit; it has stored when it is past, and
\* it has an entry from local() to its exit.
Logged  == {"load", "store", "commit"}
Holding == Logged \cup {"begin", "snapshot"}
Past    == {t \in Thread : tpc[t] \in {"commit", "done"}}

CounterType ==
  /\ prog \in {"plain", "mutex", "local"} /\ mpc \in {"down", "clear", "started", "joined"}
  /\ tpc \in [Thread -> Holding \cup {"unborn", "local", "done"}]
  /\ j \in [Thread -> Nat] /\ reg \in [Thread -> Nat] /\ tundo \in [Thread -> Seq(Nat)]
  /\ slot \in [Thread -> Entry]
  /\ counter \in [Entry -> Nat] /\ base \in [Entry -> Nat]
  /\ owner \subseteq Thread

\* The threads are between the start and the join.
ThreadsRun ==
  /\ mpc = "clear" => prog = "local"
  /\ \A t \in Thread : /\ mpc = "joined" => tpc[t] = "done"
                       /\ mpc = "down" => tpc[t] \in {"unborn", "done"}
                       /\ mpc = "clear" => tpc[t] = "unborn" /\ j[t] = 0
                       /\ tpc[t] = "local" => prog = "local"
                       /\ prog # "local" => slot[t] = 0

LogsAreThere ==
  \A t \in Thread : /\ tpc[t] \in Logged => Len(tundo[t]) = 1
                    /\ tpc[t] \notin Logged => tundo[t] = <<>>

\* s is what the counters would be without the transactions under way, each of which is
\* alone with its entry, and s adds up to the increments that were committed.
Settled(s) ==
  /\ s \in [Entry -> Nat] /\ Counter!Total(s) = Counter!Total(j)
  /\ \A e \in Entry : (\A t \in Thread : tpc[t] \in Logged => slot[t] # e) => counter[e] = s[e]
  /\ \A t \in Thread :
       tpc[t] \in Logged =>
         /\ tundo[t][1] = s[slot[t]]
         /\ counter[slot[t]] = IF tpc[t] = "commit" THEN s[slot[t]] + 1 ELSE s[slot[t]]
         /\ tpc[t] = "store" => reg[t] = s[slot[t]]

\* No two live threads have one entry, and a thread that exits has done its increments.
OwnEntries ==
  prog = "local" /\ mpc \in {"started", "joined"} =>
    /\ base = Counter!Zero
    /\ \A t, u \in Thread :
         tpc[t] \in Holding /\ tpc[u] \in Holding /\ slot[t] = slot[u] => t = u
    /\ \A t \in Thread : /\ tpc[t] \in {"unborn", "local"} => j[t] = 0
                         /\ tpc[t] \in Holding => j[t] < Loops
                         /\ tpc[t] = "done" => j[t] = Loops
    /\ \E s : Settled(s)

\* Of threads that share a counter, each raises it by one at most above what it was at
\* the start and the others have stored.
SharedCounter ==
  prog # "local" /\ mpc # "down" =>
    /\ base[0] <= counter[0] /\ counter[0] <= base[0] + Cardinality(Past)
    /\ Past # {} => base[0] < counter[0]
    /\ \A t \in Thread :
         tpc[t] = "store" => base[0] <= reg[t] /\ reg[t] <= base[0] + Cardinality(Past)

\* The mutex is held from the snapshot to the store, by one thread.
MutexHeld ==
  prog = "mutex" =>
    /\ \A t \in Thread : t \in owner <=> tpc[t] \in {"snapshot", "load", "store"}
    /\ \A t, s \in owner : t = s
    /\ \A t \in Thread : tpc[t] = "store" => reg[t] = counter[0]
    /\ mpc # "down" => counter[0] = base[0] + Cardinality(Past)

CounterInv ==
  CounterType /\ ThreadsRun /\ LogsAreThere /\ OwnEntries /\ SharedCounter /\ MutexHeld

LEMMA ThreadFacts ==
  /\ Thread = Entry /\ 0 \in Entry
  /\ IsFiniteSet(Thread) /\ Cardinality(Thread) = nthreads /\ Thread # {}
  <1>1. nthreads \in Nat \ {0}  BY CounterAssumption
  <1>2. Thread = 0 .. nthreads - 1 /\ Entry = Thread
    BY DEF Thread, Entry, Counter!Thread, Counter!Entry
  <1>3. IsFiniteSet(0 .. nthreads - 1) /\ Cardinality(0 .. nthreads - 1) = nthreads
    BY <1>1, FS_Interval
  <1>4. 0 \in 0 .. nthreads - 1  BY <1>1
  <1> QED  BY <1>2, <1>3, <1>4, Zenon

LEMMA PastIsFinite == IsFiniteSet(Past) /\ Cardinality(Past) \in Nat
  <1>1. Past \subseteq Thread  BY DEF Past
  <1> QED  BY <1>1, ThreadFacts, FS_Subset, FS_CardinalityType
-----------------------------------------------------------------------------
(* Sums over the entries, or over the threads *)

Sums(f, g, n) ==
  /\ g \in [0 .. n -> Nat] /\ g[0] = 0
  /\ \A x \in 1 .. n : g[x] = g[x - 1] + f[x - 1]

LEMMA SumsExist ==
  ASSUME NEW f \in [Entry -> Nat]
  PROVE  \E g : Sums(f, g, nthreads)
  <1> DEFINE Bad == {n \in 0 .. nthreads : ~ \E g : Sums(f, g, n)}
  <1>0. nthreads \in Nat /\ f \in [0 .. nthreads - 1 -> Nat]
    BY CounterAssumption DEF Entry, Counter!Entry
  <1>1. Bad = {}
    <2> SUFFICES ASSUME Bad # {} PROVE FALSE  OBVIOUS
    <2>1. PICK n \in Bad : \A m \in Bad : n <= m
      <3>1. Bad \in SUBSET Nat  OBVIOUS
      <3> HIDE DEF Bad
      <3> QED  BY <3>1, LeastNatural
    <2>2. CASE n = 0
      <3>1. Sums(f, [x \in 0 .. 0 |-> 0], 0)  BY DEF Sums
      <3> QED  BY <2>2, <3>1
    <2>3. CASE n # 0
      <3>1. n - 1 \in 0 .. nthreads /\ n \in 1 .. nthreads /\ ~(n <= n - 1)  BY <1>0, <2>3
      <3>2. PICK g : Sums(f, g, n - 1)  BY <2>1, <3>1
      <3> DEFINE h == [x \in 0 .. n |-> IF x < n THEN g[x] ELSE g[n - 1] + f[n - 1]]
      <3>3. /\ \A x \in 0 .. n - 1 : g[x] \in Nat /\ h[x] = g[x]
            /\ h[n] = g[n - 1] + f[n - 1] /\ f[n - 1] \in Nat /\ n - 1 \in 0 .. n - 1
        BY <1>0, <3>1, <3>2 DEF Sums
      <3>4. h = [x \in 0 .. n |-> h[x]]  OBVIOUS
      <3> HIDE DEF h
      <3>5. \A x \in 0 .. n : x = n \/ x \in 0 .. n - 1  BY <3>1
      <3>6. h \in [0 .. n -> Nat]
        <4>1. h[n] \in Nat  BY <3>3
        <4>2. \A x \in 0 .. n : h[x] \in Nat  BY <3>3, <3>5, <4>1
        <4> QED  BY <3>4, <4>2
      <3>7. h[0] = 0  BY <3>1, <3>2, <3>3 DEF Sums
      <3>8. ASSUME NEW x \in 1 .. n PROVE h[x] = h[x - 1] + f[x - 1]
        <4>1. CASE x = n  BY <3>3, <4>1
        <4>2. CASE x # n
          <5>1. x \in 1 .. n - 1 /\ x \in 0 .. n - 1 /\ x - 1 \in 0 .. n - 1  BY <3>1, <4>2
          <5>2. g[x] = g[x - 1] + f[x - 1]  BY <3>2, <5>1 DEF Sums
          <5> QED  BY <3>3, <5>1, <5>2
        <4> QED  BY <4>1, <4>2
      <3>9. Sums(f, h, n)  BY <3>6, <3>7, <3>8 DEF Sums
      <3> QED  BY <2>1, <3>9
    <2> QED  BY <2>2, <2>3
  <1>2. nthreads \in 0 .. nthreads  BY <1>0
  <1> QED  BY <1>1, <1>2, Zenon

\* There is one such function only.
LEMMA SumsAgree ==
  ASSUME NEW f, NEW g, Sums(f, g, nthreads),
         NEW h, h[0] = 0, \A x \in 1 .. nthreads : h[x] = h[x - 1] + f[x - 1]
  PROVE  g[nthreads] = h[nthreads]
  <1> DEFINE Bad == {x \in 0 .. nthreads : g[x] # h[x]}
  <1>1. nthreads \in Nat  BY CounterAssumption
  <1>2. Bad = {}
    <2> SUFFICES ASSUME Bad # {} PROVE FALSE  OBVIOUS
    <2>1. PICK x \in Bad : \A y \in Bad : x <= y
      <3>1. Bad \in SUBSET Nat  OBVIOUS
      <3> HIDE DEF Bad
      <3> QED  BY <3>1, LeastNatural
    <2>2. x # 0  BY DEF Sums
    <2>3. x \in 1 .. nthreads /\ x - 1 \in 0 .. nthreads /\ ~(x <= x - 1)  BY <1>1, <2>2
    <2>4. g[x - 1] = h[x - 1]  BY <2>1, <2>3
    <2>5. g[x] = g[x - 1] + f[x - 1] /\ h[x] = h[x - 1] + f[x - 1]  BY <2>3 DEF Sums
    <2> QED  BY <2>1, <2>4, <2>5
  <1> QED  BY <1>1, <1>2

LEMMA TotalIs ==
  ASSUME NEW f \in [Entry -> Nat]
  PROVE  \E g : Sums(f, g, nthreads) /\ Counter!Total(f) = g[nthreads]
  <1> DEFINE Next1(g, x) == IF x = 0 THEN 0 ELSE g[x - 1] + f[x - 1]
             Eq(g) == g = [x \in 0 .. nthreads |-> Next1(g, x)]
             w == CHOOSE g : Eq(g)
  <1>1. nthreads \in Nat  BY CounterAssumption
  <1>2. PICK g : Sums(f, g, nthreads)  BY SumsExist
  <1>3. Eq(g)
    <2>1. g = [x \in 0 .. nthreads |-> g[x]]  BY <1>2 DEF Sums
    <2>2. ASSUME NEW x \in 0 .. nthreads PROVE g[x] = Next1(g, x)
      <3>1. CASE x = 0  BY <1>2, <3>1 DEF Sums
      <3>2. CASE x # 0
        <4>1. x \in 1 .. nthreads  BY <1>1, <3>2
        <4> QED  BY <1>2, <3>2, <4>1 DEF Sums
      <3> QED  BY <3>1, <3>2
    <2> HIDE DEF Next1
    <2> QED  BY <2>1, <2>2
  <1>4. Counter!Total(f) = w[nthreads]  BY DEF Counter!Total
  <1>5. Eq(w)
    <2> HIDE DEF Eq
    <2> QED  BY <1>3
  <1> HIDE DEF w
  <1>6. /\ w[0] = 0
        /\ \A x \in 1 .. nthreads : w[x] = w[x - 1] + f[x - 1]
    BY <1>1, <1>5
  <1>7. g[nthreads] = w[nthreads]  BY <1>2, <1>6, SumsAgree
  <1> QED  BY <1>2, <1>4, <1>7

LEMMA TotalBySums ==
  ASSUME NEW f \in [Entry -> Nat], NEW h, Sums(f, h, nthreads)
  PROVE  Counter!Total(f) = h[nthreads] /\ Counter!Total(f) \in Nat
  <1>1. PICK g : Sums(f, g, nthreads) /\ Counter!Total(f) = g[nthreads]  BY TotalIs
  <1>2. g[nthreads] = h[nthreads]
    <2>1. h[0] = 0 /\ \A x \in 1 .. nthreads : h[x] = h[x - 1] + f[x - 1]  BY DEF Sums
    <2> QED  BY <1>1, <2>1, SumsAgree, Zenon
  <1>3. nthreads \in 0 .. nthreads  BY CounterAssumption
  <1> QED  BY <1>1, <1>2, <1>3 DEF Sums

LEMMA TotalType ==
  ASSUME NEW f \in [Entry -> Nat]
  PROVE  Counter!Total(f) \in Nat
  BY SumsExist, TotalBySums

\* One increment, wherever it goes, adds one to the sum.
LEMMA TotalOfIncrement ==
  ASSUME NEW f \in [Entry -> Nat], NEW e \in Entry
  PROVE  Counter!Total([f EXCEPT ![e] = f[e] + 1]) = Counter!Total(f) + 1
  <1> DEFINE d == [f EXCEPT ![e] = f[e] + 1]
             n == nthreads
  <1>1. n \in Nat \ {0} /\ Entry = 0 .. n - 1  BY CounterAssumption DEF Entry, Counter!Entry
  <1>2. /\ d \in [Entry -> Nat] /\ d[e] = f[e] + 1
        /\ \A x \in Entry : x # e => d[x] = f[x]
    OBVIOUS
  <1>3. PICK g : Sums(f, g, n) /\ Counter!Total(f) = g[n]  BY TotalIs
  <1> HIDE DEF d, n
  <1> DEFINE h == [x \in 0 .. n |-> IF x <= e THEN g[x] ELSE g[x] + 1]
  <1>4. \A x \in 0 .. n : g[x] \in Nat  BY <1>3 DEF Sums
  <1>5. h \in [0 .. n -> Nat]  BY <1>4
  <1>6. h[0] = 0  BY <1>1, <1>3 DEF Sums
  <1>7. ASSUME NEW x \in 1 .. n PROVE h[x] = h[x - 1] + d[x - 1]
    <2>1. x \in 0 .. n /\ x - 1 \in 0 .. n /\ x - 1 \in Entry /\ e \in Nat  BY <1>1
    <2>2. g[x] = g[x - 1] + f[x - 1]  BY <1>3 DEF Sums
    <2>3. g[x - 1] \in Nat /\ f[x - 1] \in Nat  BY <1>4, <2>1
    <2>4. CASE x - 1 = e
      <3>1. h[x] = g[x] + 1 /\ h[x - 1] = g[x - 1]  BY <2>1, <2>4
      <3> QED  BY <1>2, <2>2, <2>3, <2>4, <3>1
    <2>5. CASE x - 1 # e
      <3>1. d[x - 1] = f[x - 1]  BY <1>2, <2>1, <2>5
      <3>2. \/ x <= e /\ h[x] = g[x] /\ h[x - 1] = g[x - 1]
            \/ x > e /\ h[x] = g[x] + 1 /\ h[x - 1] = g[x - 1] + 1
        BY <2>1, <2>5
      <3> QED  BY <2>2, <2>3, <3>1, <3>2
    <2> QED  BY <2>4, <2>5
  <1>8. h[n] = g[n] + 1  BY <1>1
  <1>9. Sums(d, h, n)
    <2> HIDE DEF h
    <2> QED  BY <1>5, <1>6, <1>7 DEF Sums
  <1>10. Counter!Total(d) = h[n]
    <2> HIDE DEF h
    <2> QED  BY <1>2, <1>9, TotalBySums DEF n
  <1> HIDE DEF h
  <1> QED  BY <1>3, <1>8, <1>10 DEF d

\* The sum of the same number everywhere.
LEMMA TotalOfSame ==
  ASSUME NEW f \in [Entry -> Nat], NEW m \in Nat, \A e \in Entry : f[e] = m
  PROVE  Counter!Total(f) = nthreads * m
  <1> DEFINE h == [x \in 0 .. nthreads |-> x * m]
  <1>1. nthreads \in Nat \ {0} /\ Entry = 0 .. nthreads - 1
    BY CounterAssumption DEF Entry, Counter!Entry
  <1>2. \A x \in Nat : x * m \in Nat  OBVIOUS
  <1>3. h \in [0 .. nthreads -> Nat]  BY <1>2
  <1>4. h[0] = 0  BY <1>1
  <1>5. ASSUME NEW x \in 1 .. nthreads PROVE h[x] = h[x - 1] + f[x - 1]
    <2>1. x \in Nat /\ x \in 0 .. nthreads /\ x - 1 \in 0 .. nthreads /\ x - 1 \in Entry  BY <1>1
    <2>2. x * m = (x - 1) * m + m  BY <2>1
    <2> QED  BY <2>1, <2>2
  <1>6. h[nthreads] = nthreads * m  BY <1>1
  <1> HIDE DEF h
  <1>7. Sums(f, h, nthreads)  BY <1>3, <1>4, <1>5 DEF Sums
  <1> QED  BY <1>6, <1>7, TotalBySums
-----------------------------------------------------------------------------
(* The invariant *)

LEMMA CounterInit == Counter!Init => CounterInv
  <1> SUFFICES ASSUME Counter!Init PROVE CounterInv  OBVIOUS
  <1> USE CounterAssumption, ThreadFacts DEF Counter!Init, Thread, Entry, Counter!Zero
  <1>1. CounterType  BY DEF CounterType
  <1>2. ThreadsRun  BY DEF ThreadsRun
  <1>3. LogsAreThere  BY DEF LogsAreThere, Logged
  <1>4. OwnEntries  BY DEF OwnEntries
  <1>5. SharedCounter  BY DEF SharedCounter
  <1>6. MutexHeld  BY DEF MutexHeld
  <1> QED  BY <1>1, <1>2, <1>3, <1>4, <1>5, <1>6 DEF CounterInv

\* A recovered counter is the counter itself, where no thread has a log for it, or what
\* one of the threads has logged.
LEMMA RecoveredFrom ==
  ASSUME CounterInv, NEW c \in Counter!Recoveries, NEW e \in Entry
  PROVE  \/ /\ c[e] = counter[e]
            /\ \A t \in Thread : tpc[t] \in Logged => slot[t] # e
         \/ \E t \in Thread : slot[t] = e /\ tpc[t] \in Logged /\ c[e] = tundo[t][1]
  <1> DEFINE logs == {tundo[t][1] : t \in {s \in Counter!InFlight : slot[s] = e}}
  <1>1. c[e] \in (IF logs = {} THEN {counter[e]} ELSE logs)
    BY DEF Counter!Recoveries, Entry
  <1>2. \A t \in Thread : t \in Counter!InFlight <=> tpc[t] \in Logged
    <2> SUFFICES ASSUME NEW t \in Thread PROVE t \in Counter!InFlight <=> tpc[t] \in Logged
      OBVIOUS
    <2>1. Len(<<>>) = 0  OBVIOUS
    <2>2. tpc[t] \in Logged => Len(tundo[t]) = 1  BY DEF CounterInv, LogsAreThere
    <2>3. tpc[t] \notin Logged => tundo[t] = <<>>  BY DEF CounterInv, LogsAreThere
    <2> QED  BY <2>1, <2>2, <2>3 DEF Counter!InFlight, Thread
  <1>3. CASE logs = {}
    <2>1. \A t \in Thread : slot[t] = e => tpc[t] \notin Logged  BY <1>2, <1>3
    <2> QED  BY <1>1, <1>3, <2>1
  <1>4. CASE logs # {}
    <2>1. PICK t \in Counter!InFlight : slot[t] = e /\ c[e] = tundo[t][1]  BY <1>1, <1>4
    <2>2. t \in Thread  BY DEF Counter!InFlight, Thread
    <2> QED  BY <1>2, <2>1, <2>2
  <1> QED  BY <1>3, <1>4

\* What recovery leaves, whenever the process dies: with an entry for each live thread it
\* is the counters without the transactions under way.
LEMMA RecoveryKeeps ==
  ASSUME CounterInv, NEW c \in Counter!Recoveries
  PROVE  /\ c \in [Entry -> Nat]
         /\ \A s : Settled(s) => c = s
  <1>1. CounterType /\ LogsAreThere  BY DEF CounterInv
  <1>2. c = [e \in Entry |-> c[e]]  BY DEF Counter!Recoveries, Entry
  <1>3. ASSUME NEW e \in Entry PROVE c[e] \in Nat
    <2>1. CASE c[e] = counter[e]  BY <1>1, <2>1 DEF CounterType
    <2>2. ASSUME NEW t \in Thread, tpc[t] \in Logged, c[e] = tundo[t][1] PROVE c[e] \in Nat
      <3>1. tundo[t] \in Seq(Nat) /\ Len(tundo[t]) = 1
        BY <1>1, <2>2 DEF CounterType, LogsAreThere
      <3> QED  BY <2>2, <3>1
    <2> QED  BY <2>1, <2>2, RecoveredFrom
  <1>4. ASSUME NEW s, Settled(s) PROVE c = s
    <2>1. s = [e \in Entry |-> s[e]]  BY <1>4 DEF Settled
    <2>2. ASSUME NEW e \in Entry PROVE c[e] = s[e]
      BY <1>4, RecoveredFrom DEF Settled
    <2> QED  BY <1>2, <2>1, <2>2
  <1> QED  BY <1>2, <1>3, <1>4

LEMMA CounterKept ==
  ASSUME CounterInv, [Counter!Next]_(Counter!vars)
  PROVE  CounterInv'
  <1> USE DEF CounterInv
  <1>0. /\ CounterType /\ ThreadsRun /\ LogsAreThere /\ OwnEntries /\ SharedCounter /\ MutexHeld
        /\ Thread' = Thread /\ Entry' = Entry
    BY DEF Thread, Entry, Counter!Thread, Counter!Entry
  <1>f. IsFiniteSet(Past) /\ Cardinality(Past) \in Nat  BY PastIsFinite
  <1>e. 0 \in Entry  BY ThreadFacts
  <1>1. CASE Counter!Start
    <2>1. /\ mpc = "down" /\ mpc' = IF prog = "local" THEN "clear" ELSE "started"
          /\ base' = counter /\ tpc' = [t \in Thread |-> "unborn"]
          /\ j' = [t \in Thread |-> 0] /\ slot' = [t \in Thread |-> 0]
          /\ UNCHANGED <<prog, tundo, reg, owner, counter>>
      BY <1>1 DEF Counter!Start, Thread
    <2>2. CounterType'  BY <1>0, <1>e, <2>1 DEF CounterType
    <2>3. ThreadsRun'  BY <1>0, <2>1 DEF ThreadsRun
    <2>4. LogsAreThere'  BY <1>0, <2>1 DEF LogsAreThere, ThreadsRun, CounterType, Logged
    <2>5. OwnEntries'  BY <2>1 DEF OwnEntries
    <2>6. Past' = {} /\ Cardinality(Past') = 0  BY <1>0, <2>1, FS_EmptySet DEF Past
    <2>7. base'[0] \in Nat /\ counter' = base'  BY <1>e, <2>1 DEF CounterType
    <2>8. SharedCounter'  BY <1>0, <2>1, <2>6, <2>7 DEF SharedCounter
    <2>9. MutexHeld'
      <3>1. prog = "mutex" => owner = {}  BY <2>1 DEF MutexHeld, ThreadsRun, CounterType
      <3> QED  BY <1>0, <2>1, <2>6, <2>7, <3>1 DEF MutexHeld
    <2> QED  BY <2>2, <2>3, <2>4, <2>5, <2>8, <2>9
  <1>2. CASE Counter!Clear
    <2>1. /\ mpc = "clear" /\ mpc' = "started" /\ prog = "local"
          /\ counter' = Counter!Zero /\ base' = Counter!Zero
          /\ UNCHANGED <<prog, tpc, j, slot, tundo, reg, owner>>
      BY <1>2 DEF Counter!Clear, ThreadsRun
    <2>2. Counter!Zero = [e \in Entry |-> 0]  BY DEF Counter!Zero, Entry
    <2>3. Counter!Zero \in [Entry -> Nat]  BY <2>2
    <2>4. CounterType'  BY <1>0, <2>1, <2>3 DEF CounterType
    <2>5. ThreadsRun' /\ LogsAreThere'  BY <1>0, <2>1 DEF ThreadsRun, LogsAreThere
    <2>6. \A t \in Thread : tpc'[t] = "unborn" /\ j'[t] = 0  BY <2>1 DEF ThreadsRun
    <2>7. Counter!Total(Counter!Zero) = Counter!Total(j')
      <3>1. j' \in [Entry -> Nat] /\ \A e \in Entry : j'[e] = 0
        BY <2>1, <2>6, ThreadFacts DEF CounterType
      <3>2. Counter!Total(Counter!Zero) = nthreads * 0  BY <2>2, <2>3, TotalOfSame
      <3>3. Counter!Total(j') = nthreads * 0  BY <3>1, TotalOfSame
      <3> QED  BY <3>2, <3>3
    <2>8. Settled(Counter!Zero)'
      BY <1>0, <2>1, <2>3, <2>6, <2>7 DEF Settled, Logged
    <2>9. OwnEntries'
      <3>1. "unborn" \notin Holding  BY DEF Holding, Logged
      <3> QED  BY <1>0, <2>1, <2>6, <2>8, <3>1 DEF OwnEntries
    <2>10. SharedCounter' /\ MutexHeld'  BY <2>1 DEF SharedCounter, MutexHeld
    <2> QED  BY <2>4, <2>5, <2>9, <2>10
  <1>3. CASE Counter!Join \/ Counter!Close
    <2>1. /\ UNCHANGED <<prog, tpc, j, slot, tundo, reg, owner, counter, base>>
          /\ \/ mpc' = "joined" /\ mpc = "started" /\ \A t \in Thread : tpc[t] = "done"
             \/ mpc = "joined" /\ mpc' = "down" /\ \A t \in Thread : tpc[t] = "done"
      BY <1>3 DEF Counter!Join, Counter!Close, Counter!threadVars, ThreadsRun, Thread
    <2>2. Past' = Past /\ \A s : Settled(s)' <=> Settled(s)
      BY <1>0, <2>1 DEF Past, Settled
    <2>3. CounterType'  BY <1>0, <2>1 DEF CounterType
    <2>4. ThreadsRun'  BY <1>0, <2>1 DEF ThreadsRun
    <2>5. LogsAreThere'  BY <1>0, <2>1 DEF LogsAreThere
    <2>6. OwnEntries'  BY <1>0, <2>1, <2>2 DEF OwnEntries
    <2>7. SharedCounter' /\ MutexHeld'  BY <1>0, <2>1, <2>2 DEF SharedCounter, MutexHeld
    <2> QED  BY <2>3, <2>4, <2>5, <2>6, <2>7
  <1>4. CASE Counter!Crash
    <2>1. /\ counter' \in Counter!Recoveries /\ tundo' = [t \in Thread |-> <<>>]
          /\ owner' = {} /\ mpc' = "down" /\ tpc' = [t \in Thread |-> "unborn"]
          /\ UNCHANGED <<prog, j, slot, reg, base>>
      BY <1>4 DEF Counter!Crash, Thread
    <2>2. counter' \in [Entry -> Nat]  BY <2>1, RecoveryKeeps
    <2>3. CounterType'  BY <1>0, <2>1, <2>2 DEF CounterType
    <2>4. ThreadsRun'  BY <1>0, <2>1 DEF ThreadsRun
    <2>5. LogsAreThere'  BY <1>0, <2>1 DEF LogsAreThere, Logged
    <2>6. OwnEntries' /\ SharedCounter'  BY <2>1 DEF OwnEntries, SharedCounter
    <2>7. MutexHeld'  BY <1>0, <2>1 DEF MutexHeld
    <2> QED  BY <2>3, <2>4, <2>5, <2>6, <2>7
  <1>5. ASSUME NEW t \in Thread, Counter!Spawn(t) PROVE CounterInv'
    <2>1. /\ mpc = "started" /\ tpc[t] = "unborn"
          /\ tpc' = [tpc EXCEPT ![t] = IF prog = "local" THEN "local" ELSE "begin"]
          /\ UNCHANGED <<prog, mpc, j, slot, tundo, reg, owner, counter, base>>
      <3>1. t >= t  BY CounterAssumption DEF Thread, Counter!Thread
      <3> QED  BY <1>5, <3>1 DEF Counter!Spawn, Thread
    <2>2. Past' = Past  BY <1>0, <2>1 DEF Past, CounterType
    <2>3. CounterType'  BY <1>0, <2>1 DEF CounterType, Holding
    <2>4. ThreadsRun'  BY <1>0, <2>1 DEF ThreadsRun, CounterType
    <2>5. LogsAreThere'  BY <1>0, <2>1 DEF LogsAreThere, CounterType, Logged
    <2>6. OwnEntries'
      <3> SUFFICES ASSUME prog = "local" PROVE OwnEntries'  BY <2>1 DEF OwnEntries
      <3>1. tpc'[t] = "local" /\ \A s \in Thread : s # t => tpc'[s] = tpc[s]
        BY <2>1 DEF CounterType
      <3>2. ASSUME NEW s, Settled(s) PROVE Settled(s)'
        BY <1>0, <2>1, <3>1, <3>2 DEF Settled, Logged
      <3>3. /\ "local" \notin Holding /\ "unborn" \notin Holding
            /\ "local" # "done"
        BY DEF Holding, Logged
      <3> QED  BY <1>0, <2>1, <3>1, <3>2, <3>3 DEF OwnEntries
    <2>7. SharedCounter'  BY <1>0, <2>1, <2>2 DEF SharedCounter, CounterType
    <2>8. MutexHeld'  BY <1>0, <2>1, <2>2 DEF MutexHeld, CounterType
    <2> QED  BY <2>3, <2>4, <2>5, <2>6, <2>7, <2>8
  <1>6. ASSUME NEW t \in Thread, Counter!Local(t) PROVE CounterInv'
    <2>1. PICK e \in Entry : /\ \A s \in Thread : Counter!Holds(s) => slot[s] # e
                             /\ slot' = [slot EXCEPT ![t] = e]
      BY <1>6 DEF Counter!Local, Thread, Entry
    <2>2. /\ tpc[t] = "local" /\ tpc' = [tpc EXCEPT ![t] = "begin"]
          /\ prog = "local" /\ UNCHANGED <<prog, mpc, j, tundo, reg, owner, counter, base>>
      BY <1>6 DEF Counter!Local, ThreadsRun
    <2>3. CounterType'  BY <1>0, <2>1, <2>2 DEF CounterType, Holding
    <2>4. ThreadsRun'  BY <1>0, <2>2 DEF ThreadsRun, CounterType
    <2>5. LogsAreThere'  BY <1>0, <2>2 DEF LogsAreThere, CounterType, Logged
    <2>6. OwnEntries'
      <3> SUFFICES ASSUME mpc \in {"started", "joined"} PROVE OwnEntries'
        BY <2>2 DEF OwnEntries
      <3>1. /\ tpc'[t] = "begin" /\ slot'[t] = e
            /\ \A s \in Thread : s # t => tpc'[s] = tpc[s] /\ slot'[s] = slot[s]
        BY <2>1, <2>2 DEF CounterType
      <3>2. ASSUME NEW s, Settled(s) PROVE Settled(s)'
        <4>1. tpc[t] \notin Logged /\ tpc'[t] \notin Logged  BY <2>2, <3>1 DEF Logged
        <4>2. UNCHANGED <<j, counter, tundo, reg>>  BY <2>2
        <4> QED  BY <1>0, <3>1, <3>2, <4>1, <4>2 DEF Settled
      <3>3. \A s \in Thread : tpc[s] \in Holding => slot[s] # e
        BY <2>1 DEF Counter!Holds, Holding, Logged
      <3>4. "local" \notin Holding /\ "begin" \in Holding  BY DEF Holding, Logged
      <3>5. j[t] = 0 /\ 0 < Loops  BY <2>2, CounterAssumption DEF OwnEntries
      <3>6. \A u, v \in Thread :
              tpc'[u] \in Holding /\ tpc'[v] \in Holding /\ slot'[u] = slot'[v] => u = v
        BY <2>2, <3>1, <3>3, <3>4 DEF OwnEntries
      <3>7. \A u \in Thread : /\ tpc'[u] \in {"unborn", "local"} => j'[u] = 0
                              /\ tpc'[u] \in Holding => j'[u] < Loops
                              /\ tpc'[u] = "done" => j'[u] = Loops
        BY <2>2, <3>1, <3>5 DEF OwnEntries
      <3> QED  BY <1>0, <2>2, <3>2, <3>6, <3>7 DEF OwnEntries
    <2>7. SharedCounter' /\ MutexHeld'  BY <2>2 DEF SharedCounter, MutexHeld
    <2> QED  BY <2>3, <2>4, <2>5, <2>6, <2>7
  <1>7. ASSUME NEW t \in Thread, Counter!Begin(t) PROVE CounterInv'
    <2>1. /\ tpc[t] = "begin" /\ tpc' = [tpc EXCEPT ![t] = "snapshot"]
          /\ prog = "mutex" => owner = {}
          /\ owner' = IF prog = "mutex" THEN {t} ELSE owner
          /\ UNCHANGED <<prog, mpc, j, slot, counter, tundo, reg, base>>
      BY <1>7 DEF Counter!Begin
    <2>2. Past' = Past  BY <1>0, <2>1 DEF Past, CounterType
    <2>3. CounterType'  BY <1>0, <2>1 DEF CounterType, Holding
    <2>4. ThreadsRun'  BY <1>0, <2>1 DEF ThreadsRun, CounterType
    <2>5. LogsAreThere'  BY <1>0, <2>1 DEF LogsAreThere, CounterType, Logged
    <2>6. OwnEntries'
      <3> SUFFICES ASSUME prog = "local", mpc \in {"started", "joined"} PROVE OwnEntries'
        BY <2>1 DEF OwnEntries
      <3>1. tpc'[t] = "snapshot" /\ \A s \in Thread : s # t => tpc'[s] = tpc[s]
        BY <2>1 DEF CounterType
      <3>2. ASSUME NEW s, Settled(s) PROVE Settled(s)'
        BY <1>0, <2>1, <3>1, <3>2 DEF Settled, Logged
      <3>3. {"begin", "snapshot"} \subseteq Holding  BY DEF Holding
      <3> QED  BY <1>0, <2>1, <3>1, <3>2, <3>3 DEF OwnEntries
    <2>7. SharedCounter'  BY <1>0, <2>1, <2>2 DEF SharedCounter, CounterType
    <2>8. MutexHeld'  BY <1>0, <2>1, <2>2 DEF MutexHeld, CounterType
    <2> QED  BY <2>3, <2>4, <2>5, <2>6, <2>7, <2>8
  <1>8. ASSUME NEW t \in Thread, Counter!Snapshot(t) PROVE CounterInv'
    <2>1. /\ tpc[t] = "snapshot" /\ tpc' = [tpc EXCEPT ![t] = "load"]
          /\ tundo' = [tundo EXCEPT ![t] = <<counter[slot[t]]>>]
          /\ UNCHANGED <<prog, mpc, j, slot, counter, owner, reg, base>>
      BY <1>8 DEF Counter!Snapshot
    <2>2. Past' = Past  BY <1>0, <2>1 DEF Past, CounterType
    <2>0. slot[t] \in Entry /\ counter[slot[t]] \in Nat  BY DEF CounterType
    <2>3. CounterType'  BY <1>0, <2>0, <2>1 DEF CounterType, Holding, Logged
    <2>4. ThreadsRun'  BY <1>0, <2>1 DEF ThreadsRun, CounterType
    <2>5. LogsAreThere'  BY <1>0, <2>0, <2>1 DEF LogsAreThere, CounterType, Logged
    <2>6. OwnEntries'
      <3> SUFFICES ASSUME prog = "local", mpc \in {"started", "joined"} PROVE OwnEntries'
        BY <2>1 DEF OwnEntries
      <3>1. /\ tpc'[t] = "load" /\ tundo'[t][1] = counter[slot[t]]
            /\ \A u \in Thread : u # t => tpc'[u] = tpc[u] /\ tundo'[u] = tundo[u]
        BY <2>1 DEF CounterType
      <3>3. /\ {"load", "snapshot"} \subseteq Holding /\ Logged \subseteq Holding
            /\ "load" \in Logged /\ "snapshot" \notin Logged
        BY DEF Holding, Logged
      <3>2. ASSUME NEW s, Settled(s) PROVE Settled(s)'
        <4>1. \A u \in Thread : tpc[u] \in Logged => slot[u] # slot[t]
          BY <2>1, <3>3 DEF OwnEntries
        <4>2. counter[slot[t]] = s[slot[t]]  BY <2>0, <3>2, <4>1 DEF Settled
        <4>3. \A u \in Thread : tpc'[u] \in Logged <=> u = t \/ tpc[u] \in Logged
          BY <3>1, <3>3
        <4>4. UNCHANGED <<j, counter, reg, slot>>  BY <2>1
        <4>5. s \in [Entry' -> Nat] /\ Counter!Total(s) = Counter!Total(j)'
          BY <1>0, <3>2, <4>4 DEF Settled
        <4>6. \A e \in Entry : (\A u \in Thread : tpc'[u] \in Logged => slot[u] # e)
                                 => counter[e] = s[e]
          BY <3>2, <4>3 DEF Settled
        <4>7. ASSUME NEW u \in Thread, tpc'[u] \in Logged
              PROVE  /\ tundo'[u][1] = s[slot[u]]
                     /\ counter[slot[u]] = IF tpc'[u] = "commit" THEN s[slot[u]] + 1
                                                               ELSE s[slot[u]]
                     /\ tpc'[u] = "store" => reg[u] = s[slot[u]]
          <5>1. CASE u = t  BY <3>1, <4>2, <5>1
          <5>2. CASE u # t  BY <3>1, <3>2, <4>7, <5>2 DEF Settled
          <5> QED  BY <5>1, <5>2
        <4> QED  BY <1>0, <4>4, <4>5, <4>6, <4>7 DEF Settled
      <3> QED  BY <1>0, <2>1, <3>1, <3>2, <3>3 DEF OwnEntries
    <2>7. SharedCounter'  BY <1>0, <2>1, <2>2 DEF SharedCounter, CounterType
    <2>8. MutexHeld'  BY <1>0, <2>1, <2>2 DEF MutexHeld, CounterType
    <2> QED  BY <2>3, <2>4, <2>5, <2>6, <2>7, <2>8
  <1>9. ASSUME NEW t \in Thread, Counter!Load(t) PROVE CounterInv'
    <2>1. /\ tpc[t] = "load" /\ tpc' = [tpc EXCEPT ![t] = "store"]
          /\ reg' = [reg EXCEPT ![t] = counter[slot[t]]]
          /\ UNCHANGED <<prog, mpc, j, slot, counter, owner, tundo, base>>
      BY <1>9 DEF Counter!Load
    <2>2. Past' = Past  BY <1>0, <2>1 DEF Past, CounterType
    <2>0. /\ slot[t] \in Entry /\ counter[slot[t]] \in Nat
          /\ prog # "local" => slot[t] = 0
      BY DEF CounterType, ThreadsRun
    <2>3. CounterType'  BY <1>0, <2>0, <2>1 DEF CounterType, Holding, Logged
    <2>4. ThreadsRun'  BY <1>0, <2>1 DEF ThreadsRun, CounterType
    <2>5. LogsAreThere'  BY <1>0, <2>1 DEF LogsAreThere, CounterType, Logged
    <2>6. OwnEntries'
      <3> SUFFICES ASSUME prog = "local", mpc \in {"started", "joined"} PROVE OwnEntries'
        BY <2>1 DEF OwnEntries
      <3>1. /\ tpc'[t] = "store" /\ reg'[t] = counter[slot[t]]
            /\ \A u \in Thread : u # t => tpc'[u] = tpc[u] /\ reg'[u] = reg[u]
        BY <2>1 DEF CounterType
      <3>2. ASSUME NEW s, Settled(s) PROVE Settled(s)'
        <4>1. counter[slot[t]] = s[slot[t]] /\ tundo[t][1] = s[slot[t]]
          BY <2>1, <3>2 DEF Settled, Logged
        <4>3. \A u \in Thread : tpc'[u] \in Logged <=> tpc[u] \in Logged
          BY <2>1, <3>1 DEF Logged
        <4>4. UNCHANGED <<j, counter, tundo, slot>>  BY <2>1
        <4>5. s \in [Entry' -> Nat] /\ Counter!Total(s) = Counter!Total(j)'
          BY <1>0, <3>2, <4>4 DEF Settled
        <4>6. \A e \in Entry : (\A u \in Thread : tpc'[u] \in Logged => slot[u] # e)
                                 => counter[e] = s[e]
          BY <3>2, <4>3 DEF Settled
        <4>7. ASSUME NEW u \in Thread, tpc'[u] \in Logged
              PROVE  /\ tundo[u][1] = s[slot[u]]
                     /\ counter[slot[u]] = IF tpc'[u] = "commit" THEN s[slot[u]] + 1
                                                               ELSE s[slot[u]]
                     /\ tpc'[u] = "store" => reg'[u] = s[slot[u]]
          <5>1. CASE u = t  BY <3>1, <4>1, <5>1
          <5>2. CASE u # t  BY <3>1, <3>2, <4>7, <5>2 DEF Settled
          <5> QED  BY <5>1, <5>2
        <4> QED  BY <1>0, <4>4, <4>5, <4>6, <4>7 DEF Settled
      <3>3. {"load", "store"} \subseteq Holding  BY DEF Holding, Logged
      <3> QED  BY <1>0, <2>1, <3>1, <3>2, <3>3 DEF OwnEntries
    <2>7. SharedCounter'  BY <1>0, <2>0, <2>1, <2>2 DEF SharedCounter, CounterType
    <2>8. MutexHeld'  BY <1>0, <2>0, <2>1, <2>2 DEF MutexHeld, CounterType
    <2> QED  BY <2>3, <2>4, <2>5, <2>6, <2>7, <2>8
  <1>10. ASSUME NEW t \in Thread, Counter!Store(t) PROVE CounterInv'
    <2>1. /\ tpc[t] = "store" /\ tpc' = [tpc EXCEPT ![t] = "commit"]
          /\ counter' = [counter EXCEPT ![slot[t]] = reg[t] + 1] /\ owner' = owner \ {t}
          /\ UNCHANGED <<prog, mpc, j, slot, reg, tundo, base>>
      BY <1>10 DEF Counter!Store
    <2>0. /\ slot[t] \in Entry /\ reg[t] \in Nat /\ counter'[slot[t]] = reg[t] + 1
          /\ \A e \in Entry : e # slot[t] => counter'[e] = counter[e]
          /\ prog # "local" => slot[t] = 0
      BY <2>1 DEF CounterType, ThreadsRun
    <2>2. Past' = Past \cup {t} /\ t \notin Past  BY <1>0, <2>1 DEF Past, CounterType
    <2>10. Cardinality(Past') = Cardinality(Past) + 1  BY <1>f, <2>2, FS_AddElement
    <2>3. CounterType'
      <3>1. counter' \in [Entry -> Nat]
        <4>1. counter' = [e \in Entry |-> counter'[e]]  BY <2>1 DEF CounterType
        <4>2. reg[t] + 1 \in Nat /\ \A e \in Entry : counter[e] \in Nat
          BY <2>0 DEF CounterType
        <4>3. ASSUME NEW e \in Entry PROVE counter'[e] \in Nat
          BY <2>0, <4>2
        <4> QED  BY <4>1, <4>3
      <3> QED  BY <1>0, <2>1, <3>1 DEF CounterType, Holding, Logged
    <2>4. ThreadsRun'  BY <1>0, <2>1 DEF ThreadsRun, CounterType
    <2>5. LogsAreThere'  BY <1>0, <2>1 DEF LogsAreThere, CounterType, Logged
    <2>6. OwnEntries'
      <3> SUFFICES ASSUME prog = "local", mpc \in {"started", "joined"} PROVE OwnEntries'
        BY <2>1 DEF OwnEntries
      <3>1. tpc'[t] = "commit" /\ \A u \in Thread : u # t => tpc'[u] = tpc[u]
        BY <2>1 DEF CounterType
      <3>3. {"store", "commit"} \subseteq Logged /\ Logged \subseteq Holding
        BY DEF Holding, Logged
      <3>2. ASSUME NEW s, Settled(s) PROVE Settled(s)'
        <4>1. \A u \in Thread : tpc[u] \in Logged /\ u # t => slot[u] # slot[t]
          BY <2>1, <3>3 DEF OwnEntries
        <4>2. reg[t] = s[slot[t]] /\ tundo[t][1] = s[slot[t]]
          BY <2>1, <3>2, <3>3 DEF Settled
        <4>3. \A u \in Thread : tpc'[u] \in Logged <=> tpc[u] \in Logged
          BY <2>1, <3>1, <3>3
        <4>4. UNCHANGED <<j, tundo, slot, reg>>  BY <2>1
        <4>5. s \in [Entry' -> Nat] /\ Counter!Total(s) = Counter!Total(j)'
          BY <1>0, <3>2, <4>4 DEF Settled
        <4>6. ASSUME NEW e \in Entry, \A u \in Thread : tpc'[u] \in Logged => slot[u] # e
              PROVE  counter'[e] = s[e]
          <5>1. e # slot[t] /\ \A u \in Thread : tpc[u] \in Logged => slot[u] # e
            BY <3>1, <3>3, <4>3, <4>6
          <5> QED  BY <2>0, <3>2, <5>1 DEF Settled
        <4>7. ASSUME NEW u \in Thread, tpc'[u] \in Logged
              PROVE  /\ tundo[u][1] = s[slot[u]]
                     /\ counter'[slot[u]] = IF tpc'[u] = "commit" THEN s[slot[u]] + 1
                                                                ELSE s[slot[u]]
                     /\ tpc'[u] = "store" => reg[u] = s[slot[u]]
          <5>1. CASE u = t  BY <2>0, <3>1, <4>2, <5>1
          <5>2. CASE u # t
            <6>1. tpc'[u] = tpc[u] /\ tpc[u] \in Logged /\ slot[u] # slot[t] /\ slot[u] \in Entry
              BY <3>1, <4>1, <4>7, <5>2 DEF CounterType
            <6> QED  BY <2>0, <3>2, <6>1 DEF Settled
          <5> QED  BY <5>1, <5>2
        <4> QED  BY <1>0, <4>4, <4>5, <4>6, <4>7 DEF Settled
      <3> QED  BY <1>0, <2>1, <3>1, <3>2, <3>3 DEF OwnEntries
    <2>9. prog # "local" => /\ counter'[0] = reg[t] + 1
                            /\ counter[0] \in Nat /\ base[0] \in Nat
      BY <1>e, <2>0 DEF CounterType
    <2>7. SharedCounter'
      <3> SUFFICES ASSUME prog # "local", mpc # "down" PROVE SharedCounter'
        BY <2>1 DEF SharedCounter
      <3>1. base[0] <= reg[t] /\ reg[t] <= base[0] + Cardinality(Past)
        BY <2>1 DEF SharedCounter
      <3>2. base[0] < counter'[0] /\ counter'[0] <= base[0] + Cardinality(Past')
        BY <1>f, <2>0, <2>9, <2>10, <3>1
      <3>3. ASSUME NEW u \in Thread, tpc'[u] = "store"
            PROVE  base[0] <= reg[u] /\ reg[u] <= base[0] + Cardinality(Past')
        <4>1. tpc[u] = "store" /\ reg[u] \in Nat  BY <2>1, <3>3 DEF CounterType
        <4>2. base[0] <= reg[u] /\ reg[u] <= base[0] + Cardinality(Past)
          BY <4>1 DEF SharedCounter
        <4> QED  BY <1>f, <2>9, <2>10, <4>1, <4>2
      <3>4. base[0] <= counter'[0]  BY <2>0, <2>9, <3>1
      <3> QED  BY <1>0, <2>1, <3>2, <3>3, <3>4 DEF SharedCounter
    <2>8. MutexHeld'
      <3> SUFFICES ASSUME prog = "mutex" PROVE MutexHeld'  BY <2>1 DEF MutexHeld
      <3>1. t \in owner /\ \A s \in owner : s = t  BY <2>1 DEF MutexHeld
      <3>2. owner' = {} /\ \A s \in Thread : tpc'[s] \notin {"snapshot", "load", "store"}
        BY <2>1, <3>1 DEF MutexHeld, CounterType
      <3>3. reg[t] = counter[0]  BY <2>1 DEF MutexHeld
      <3>4. mpc' # "down" => counter'[0] = base'[0] + Cardinality(Past')
        BY <1>f, <2>1, <2>9, <2>10, <3>3 DEF MutexHeld
      <3> QED  BY <1>0, <3>2, <3>4 DEF MutexHeld
    <2> QED  BY <2>3, <2>4, <2>5, <2>6, <2>7, <2>8
  <1>11. ASSUME NEW t \in Thread, Counter!Commit(t) PROVE CounterInv'
    <2>1. /\ tpc[t] = "commit" /\ tundo' = [tundo EXCEPT ![t] = <<>>]
          /\ j' = [j EXCEPT ![t] = j[t] + 1]
          /\ tpc' = [tpc EXCEPT ![t] = IF j'[t] < Counter!Rounds THEN "begin" ELSE "done"]
          /\ UNCHANGED <<prog, mpc, slot, counter, reg, owner, base>>
      BY <1>11 DEF Counter!Commit
    <2>0. j[t] \in Nat /\ j'[t] = j[t] + 1 /\ slot[t] \in Entry  BY <2>1 DEF CounterType
    <2>9. prog # "local" => tpc'[t] = "done"
      BY <2>0, <2>1 DEF CounterType, Counter!Rounds
    <2>2. prog # "local" => Past' = Past  BY <1>0, <2>1, <2>9 DEF Past, CounterType
    <2>3. CounterType'  BY <1>0, <2>0, <2>1 DEF CounterType, Holding, Logged
    <2>4. ThreadsRun'  BY <1>0, <2>1 DEF ThreadsRun, CounterType
    <2>5. LogsAreThere'  BY <1>0, <2>1 DEF LogsAreThere, CounterType, Logged
    <2>6. OwnEntries'
      <3> SUFFICES ASSUME prog = "local", mpc \in {"started", "joined"} PROVE OwnEntries'
        BY <2>1 DEF OwnEntries
      <3>1. /\ tpc'[t] = IF j[t] + 1 < Loops THEN "begin" ELSE "done"
            /\ \A u \in Thread : u # t => tpc'[u] = tpc[u] /\ tundo'[u] = tundo[u] /\ j'[u] = j[u]
        BY <2>0, <2>1 DEF CounterType, Counter!Rounds
      <3>3. /\ "commit" \in Logged /\ Logged \subseteq Holding /\ "begin" \in Holding
            /\ "done" \notin Holding /\ "begin" \notin Logged /\ "done" \notin Logged
        BY DEF Holding, Logged
      <3>5. PICK s : Settled(s)  BY DEF OwnEntries
      <3>4. PICK r : r = [s EXCEPT ![slot[t]] = s[slot[t]] + 1]  OBVIOUS
      <3>6. /\ s \in [Entry -> Nat] /\ r \in [Entry -> Nat]
            /\ r[slot[t]] = s[slot[t]] + 1 /\ \A e \in Entry : e # slot[t] => r[e] = s[e]
        BY <2>0, <3>4, <3>5 DEF Settled
      <3>7. Counter!Total(r) = Counter!Total(s) + 1  BY <2>0, <3>4, <3>6, TotalOfIncrement
      <3>8. Counter!Total(j') = Counter!Total(j) + 1
        <4>1. j \in [Entry -> Nat] /\ t \in Entry  BY ThreadFacts DEF CounterType
        <4>2. Counter!Total([j EXCEPT ![t] = j[t] + 1]) = Counter!Total(j) + 1
          BY <4>1, TotalOfIncrement
        <4> QED  BY <2>1, <4>2
      <3>2. Settled(r)'
        <4>1. \A u \in Thread : tpc[u] \in Logged /\ u # t => slot[u] # slot[t]
          BY <2>1, <3>3 DEF OwnEntries
        <4>2. counter[slot[t]] = s[slot[t]] + 1  BY <2>1, <3>3, <3>5 DEF Settled
        <4>3. \A u \in Thread : tpc'[u] \in Logged <=> u # t /\ tpc[u] \in Logged
          BY <3>1, <3>3
        <4>4. UNCHANGED <<counter, slot, reg>>  BY <2>1
        <4>5. r \in [Entry' -> Nat] /\ Counter!Total(r) = Counter!Total(j)'
          <5>1. Counter!Total(s) = Counter!Total(j)  BY <3>5 DEF Settled
          <5> QED  BY <1>0, <3>6, <3>7, <3>8, <5>1
        <4>6. ASSUME NEW e \in Entry, \A u \in Thread : tpc'[u] \in Logged => slot[u] # e
              PROVE  counter[e] = r[e]
          <5>1. CASE e = slot[t]  BY <3>6, <4>2, <5>1
          <5>2. CASE e # slot[t]
            <6>1. \A u \in Thread : tpc[u] \in Logged => slot[u] # e  BY <4>3, <4>6, <5>2
            <6> QED  BY <3>5, <3>6, <5>2, <6>1 DEF Settled
          <5> QED  BY <5>1, <5>2
        <4>7. ASSUME NEW u \in Thread, tpc'[u] \in Logged
              PROVE  /\ tundo'[u][1] = r[slot[u]]
                     /\ counter[slot[u]] = IF tpc'[u] = "commit" THEN r[slot[u]] + 1
                                                               ELSE r[slot[u]]
                     /\ tpc'[u] = "store" => reg[u] = r[slot[u]]
          <5>1. /\ u # t /\ tpc'[u] = tpc[u] /\ tundo'[u] = tundo[u] /\ tpc[u] \in Logged
                /\ slot[u] \in Entry /\ slot[u] # slot[t]
            BY <3>1, <4>1, <4>3, <4>7 DEF CounterType
          <5>2. r[slot[u]] = s[slot[u]]  BY <3>6, <5>1
          <5> QED  BY <3>5, <5>1, <5>2 DEF Settled
        <4> QED  BY <1>0, <4>4, <4>5, <4>6, <4>7 DEF Settled
      <3>9. \A u, v \in Thread :
              tpc'[u] \in Holding /\ tpc'[v] \in Holding /\ slot'[u] = slot'[v] => u = v
        BY <2>1, <3>1, <3>3 DEF OwnEntries
      <3>10. ASSUME NEW u \in Thread
             PROVE  /\ tpc'[u] \in {"unborn", "local"} => j'[u] = 0
                    /\ tpc'[u] \in Holding => j'[u] < Loops
                    /\ tpc'[u] = "done" => j'[u] = Loops
        <4>1. CASE u # t  BY <3>1, <4>1 DEF OwnEntries
        <4>2. CASE u = t
          <5>1. j[t] < Loops /\ Loops \in Nat  BY <2>1, <3>3, CounterAssumption DEF OwnEntries
          <5>2. CASE j[t] + 1 < Loops  BY <2>0, <3>1, <4>2, <5>1, <5>2
          <5>3. CASE ~(j[t] + 1 < Loops)
            <6>1. tpc'[u] = "done" /\ j'[u] = Loops  BY <2>0, <3>1, <4>2, <5>1, <5>3
            <6> QED  BY <3>3, <6>1
          <5> QED  BY <5>2, <5>3
        <4> QED  BY <4>1, <4>2
      <3>11. base' = Counter!Zero  BY <2>1 DEF OwnEntries
      <3>12. Counter!Zero' = Counter!Zero  BY DEF Counter!Zero, Counter!Entry
      <3> QED  BY <1>0, <3>2, <3>9, <3>10, <3>11, <3>12 DEF OwnEntries
    <2>7. SharedCounter'  BY <1>0, <2>1, <2>2, <2>9 DEF SharedCounter, CounterType
    <2>8. MutexHeld'  BY <1>0, <2>1, <2>2, <2>9 DEF MutexHeld, CounterType
    <2> QED  BY <2>3, <2>4, <2>5, <2>6, <2>7, <2>8
  <1>12. CASE UNCHANGED Counter!vars
    <2>1. UNCHANGED <<prog, mpc, tpc, j, slot, tundo, reg, owner, counter, base>>
      BY <1>12 DEF Counter!vars
    <2>2. Past' = Past /\ \A s : Settled(s)' <=> Settled(s)
      BY <1>0, <2>1 DEF Past, Settled
    <2>3. CounterType' /\ ThreadsRun' /\ LogsAreThere'
      BY <1>0, <2>1 DEF CounterType, ThreadsRun, LogsAreThere
    <2>4. OwnEntries'  BY <1>0, <2>1, <2>2 DEF OwnEntries
    <2>5. SharedCounter' /\ MutexHeld'  BY <1>0, <2>1, <2>2 DEF SharedCounter, MutexHeld
    <2> QED  BY <2>3, <2>4, <2>5
  <1> QED
    BY <1>1, <1>2, <1>3, <1>4, <1>5, <1>6, <1>7, <1>8, <1>9, <1>10, <1>11, <1>12
    DEF Counter!Next, Thread

LEMMA TotalOfZero == Counter!Total(Counter!Zero) = 0
  <1>1. Counter!Zero = [e \in Entry |-> 0]  BY DEF Counter!Zero, Entry
  <1>2. Counter!Total(Counter!Zero) = nthreads * 0  BY <1>1, TotalOfSame
  <1> QED  BY <1>2, CounterAssumption

\* Once main of ppm_ch14_2 or pmem_distributed_counter has joined its threads, none of the
\* increments is missing in what it prints, be it that threads of the latter have gone on
\* with the entries of others that had exited; the racing threads of ppm_ch14_1 may lose
\* some, but have counted one at least and none twice.
THEOREM JoinedCountsHolds == Counter!Spec => []JoinedCounts
  <1>1. CounterInv => JoinedCounts
    <2> SUFFICES ASSUME CounterInv, mpc = "joined" PROVE JoinedCounts
      BY DEF JoinedCounts, Counter!JoinedCounts
    <2> USE DEF CounterInv
    <2>1. \A t \in Thread : tpc[t] = "done"  BY DEF ThreadsRun
    <2>2. Past = Thread  BY <2>1 DEF Past
    <2>3. nthreads \in Nat /\ Cardinality(Past) = nthreads  BY <2>2, ThreadFacts, CounterAssumption
    <2>4. CASE prog = "local"
      <3>1. PICK s : Settled(s)  BY <2>4 DEF OwnEntries
      <3>2. counter = s
        <4>1. \A e \in Entry : counter[e] = s[e]  BY <2>1, <3>1 DEF Settled, Logged
        <4>2. counter \in [Entry -> Nat] /\ s \in [Entry -> Nat]
          BY <3>1 DEF CounterType, Settled
        <4> QED  BY <4>1, <4>2
      <3>3. j \in [Entry -> Nat] /\ \A t \in Entry : j[t] = Loops
        BY <2>1, <2>4, ThreadFacts DEF OwnEntries, CounterType
      <3>4. Counter!Total(j) = nthreads * Loops  BY <3>3, CounterAssumption, TotalOfSame
      <3>5. Counter!Total(counter) = nthreads * Loops  BY <3>1, <3>2, <3>4 DEF Settled
      <3>6. Counter!Total(base) = 0  BY <2>4, TotalOfZero DEF OwnEntries
      <3>7. nthreads * Loops \in Nat  BY CounterAssumption
      <3>8. Counter!Counted(counter) - Counter!Counted(base) = nthreads * Counter!Rounds
        BY <2>4, <3>5, <3>6, <3>7 DEF Counter!Counted, Counter!Rounds
      <3> QED  BY <2>4, <3>8 DEF JoinedCounts, Counter!JoinedCounts
    <2>5. CASE prog # "local"
      <3>1. counter[0] \in Nat /\ base[0] \in Nat  BY ThreadFacts DEF CounterType
      <3>2. Counter!Counted(counter) = counter[0] /\ Counter!Counted(base) = base[0]
            /\ nthreads * Counter!Rounds = nthreads
        BY <2>3, <2>5 DEF Counter!Counted, Counter!Rounds
      <3>3. CASE prog = "mutex"
        <4>1. counter[0] = base[0] + nthreads  BY <2>3, <3>3 DEF MutexHeld
        <4> QED  BY <2>3, <3>1, <3>2, <3>3, <4>1 DEF JoinedCounts, Counter!JoinedCounts
      <3>4. CASE prog = "plain"
        <4>1. base[0] < counter[0] /\ counter[0] <= base[0] + nthreads
          BY <2>2, <2>3, <3>4, ThreadFacts DEF SharedCounter
        <4>2. counter[0] - base[0] \in 1 .. nthreads  BY <2>3, <3>1, <4>1
        <4> QED  BY <3>2, <3>4, <4>2 DEF JoinedCounts, Counter!JoinedCounts
      <3> QED  BY <2>5, <3>3, <3>4 DEF CounterType
    <2> QED  BY <2>4, <2>5
  <1>2. Counter!Spec => []CounterInv
    BY CounterInit, CounterKept, PTL DEF Counter!Spec
  <1> QED  BY <1>1, <1>2, PTL

\* Whenever pmem_distributed_counter dies while its threads run or after, recovery leaves
\* the increments that were committed, and no others, in whatever entries.
THEOREM RecoveryIsExactHolds == Counter!Spec => []RecoveryIsExact
  <1>1. CounterInv => RecoveryIsExact
    <2> SUFFICES ASSUME CounterInv, prog = "local", mpc \in {"started", "joined"},
                        NEW c \in Counter!Recoveries
                 PROVE  Counter!Counted(c) = Counter!Counted(base) + Counter!Total(j)
      BY DEF RecoveryIsExact, Counter!RecoveryIsExact
    <2>1. PICK s : Settled(s)  BY DEF CounterInv, OwnEntries
    <2>2. c = s  BY <2>1, RecoveryKeeps
    <2>3. Counter!Total(c) = Counter!Total(j)  BY <2>1, <2>2 DEF Settled
    <2>4. Counter!Total(base) = 0  BY TotalOfZero DEF CounterInv, OwnEntries
    <2>5. Counter!Total(j) \in Nat  BY ThreadFacts, TotalType DEF CounterInv, CounterType
    <2> QED  BY <2>3, <2>4, <2>5 DEF Counter!Counted
  <1>2. Counter!Spec => []CounterInv
    BY CounterInit, CounterKept, PTL DEF Counter!Spec
  <1> QED  BY <1>1, <1>2, PTL
-----------------------------------------------------------------------------
(* The persistent queue, ppm_ch8_7 *)

Nodes == [value : Value, next : Place \cup {nullptr}]
Pools == [head : Place \cup {nullptr}, tail : Place \cup {nullptr},
          node : UNION {[A -> Nodes] : A \in SUBSET Place}]

\* The nodes allocated in the pool are the ones of c, each once, linked in this order
\* from the head to the tail.
Chained(p, c) ==
  /\ p \in Pools /\ c \in Seq(Place)
  /\ p.head = IF c = <<>> THEN nullptr ELSE c[1]
  /\ p.tail = IF c = <<>> THEN nullptr ELSE c[Len(c)]
  /\ DOMAIN p.node = {c[m] : m \in DOMAIN c}
  /\ \A m, l \in DOMAIN c : c[m] = c[l] => m = l
  /\ \A m \in DOMAIN c : p.node[c[m]].next = IF m < Len(c) THEN c[m + 1] ELSE nullptr

Linked(p) == Chained(p, Queue!Chain(p))

\* Outside of a transaction the pool is linked; inside of one, what it started from is,
\* and the pool differs from it by as much of push or pop as has been done.
QOutside == quUndo = <<>> /\ Linked(quPool)
QInside  == quUndo = <<quUndo[1]>> /\ Linked(quUndo[1])

QIdle      == /\ quPc \in {"down", "loop"} /\ QOutside
              /\ quCall = <<"none">> /\ quValue = <<>>
QCalled    == /\ quPc \in {"push", "pop", "show", "exit"} /\ QOutside
              /\ quCall \in Queue!Calls /\ quCall[1] = quPc /\ quValue = <<>>
QAllocated == LET old == quUndo[1]
              IN  /\ quPc = "push_link" /\ QInside
                  /\ quCall \in Queue!Calls /\ quCall[1] = "push" /\ quValue = <<>>
                  /\ quNode \in Place \ DOMAIN old.node
                  /\ quPool = [old EXCEPT !.node =
                                 [b \in DOMAIN old.node \cup {quNode} |->
                                    IF b = quNode THEN [value |-> quCall[2], next |-> nullptr]
                                    ELSE old.node[b]]]
QPushed    == /\ quPc = "commit" /\ QInside /\ Linked(quPool)
              /\ quCall \in Queue!Calls /\ quCall[1] = "push" /\ quValue = <<>>
              /\ Queue!Elements(quPool) = Append(Queue!Elements(quUndo[1]), quCall[2])
QUnlinked  == LET old == quUndo[1]
              IN  /\ quPc = "pop_delete" /\ QInside /\ quCall = <<"pop">>
                  /\ old.head # nullptr /\ quNode = old.head
                  /\ quValue = <<old.node[old.head].value>>
                  /\ quPool = [old EXCEPT !.head = old.node[old.head].next]
QDeleted   == LET old == quUndo[1]
              IN  /\ quPc = "pop_tail" /\ QInside /\ quCall = <<"pop">>
                  /\ old.head # nullptr
                  /\ quValue = <<old.node[old.head].value>>
                  /\ quPool = [head |-> old.node[old.head].next, tail |-> old.tail,
                               node |-> [b \in DOMAIN old.node \ {old.head} |-> old.node[b]]]
QPopped    == /\ quPc = "commit" /\ QInside /\ Linked(quPool) /\ quCall = <<"pop">>
              /\ Queue!Elements(quUndo[1]) # <<>>
              /\ Queue!Elements(quPool) = Tail(Queue!Elements(quUndo[1]))
              /\ quValue = <<Head(Queue!Elements(quUndo[1]))>>
QDone      == quPc = "return" /\ QOutside /\ quCall[1] = "done"

QueueInv == \/ QIdle \/ QCalled \/ QAllocated \/ QPushed
            \/ QUnlinked \/ QDeleted \/ QPopped \/ QDone

\* What the pointer of a walk along c is after x rounds.
At(c, x) == IF x < Len(c) THEN c[x + 1] ELSE nullptr

\* A chain has room in the pool.
LEMMA ChainFits ==
  ASSUME NEW p, NEW c, Chained(p, c)
  PROVE  Room \in Nat /\ Len(c) \in 0 .. Room
  <1>1. c \in Seq(Place) /\ Len(c) \in Nat /\ DOMAIN c = 1 .. Len(c)  BY DEF Chained
  <1>2. c \in [1 .. Len(c) -> Place]  BY <1>1
  <1>3. c \in Injection(1 .. Len(c), Place)
    BY <1>1, <1>2 DEF Chained, Injection, IsInjective
  <1>4. Cardinality(1 .. Len(c)) <= Cardinality(Place)
    BY <1>3, FS_Injection, RoomAssumption
  <1>5. Cardinality(1 .. Len(c)) = Len(c)  BY <1>1, FS_Interval
  <1>6. Cardinality(Place) \in Nat  BY FS_CardinalityType, RoomAssumption
  <1> QED  BY <1>1, <1>4, <1>5, <1>6, RoomAssumption

\* The loop of show walks along the chain, and no further.
LEMMA WalkIs ==
  ASSUME NEW p, NEW c, Chained(p, c)
  PROVE  \A x \in 0 .. Room : Queue!Walk(p)[x] = At(c, x)
  <1> DEFINE Step(g, x) == IF x = 0 THEN p.head
                           ELSE IF g[x - 1] = nullptr THEN nullptr ELSE p.node[g[x - 1]].next
             Eq(g) == g = [x \in 0 .. Room |-> Step(g, x)]
             f == [x \in 0 .. Room |-> At(c, x)]
             w == Queue!Walk(p)
  <1>1. Room \in Nat /\ Len(c) \in 0 .. Room  BY ChainFits
  <1>2. /\ c \in Seq(Place) /\ nullptr \notin Place
        /\ p.head = (IF c = <<>> THEN nullptr ELSE c[1])
        /\ \A m \in DOMAIN c : p.node[c[m]].next = IF m < Len(c) THEN c[m + 1] ELSE nullptr
    BY RoomAssumption DEF Chained
  <1>3. At(c, 0) = p.head
    <2>1. c = <<>> <=> Len(c) = 0  BY <1>2
    <2> QED  BY <1>1, <1>2, <2>1 DEF At
  <1>4. ASSUME NEW x \in 1 .. Room
        PROVE  At(c, x) = IF At(c, x - 1) = nullptr THEN nullptr ELSE p.node[At(c, x - 1)].next
    <2>1. CASE x - 1 < Len(c)
      <3>1. x \in DOMAIN c /\ c[x] \in Place  BY <1>1, <1>2, <2>1
      <3>2. At(c, x - 1) = c[x] /\ c[x] # nullptr  BY <1>1, <1>2, <2>1, <3>1 DEF At
      <3> QED  BY <1>2, <3>1, <3>2 DEF At
    <2>2. CASE ~(x - 1 < Len(c))  BY <1>1, <2>2 DEF At
    <2> QED  BY <2>1, <2>2
  <1>5. Eq(f)
    <2>1. ASSUME NEW x \in 0 .. Room PROVE f[x] = Step(f, x)
      <3>1. CASE x = 0  BY <1>3, <3>1
      <3>2. CASE x # 0
        <4>1. x \in 1 .. Room /\ x - 1 \in 0 .. Room  BY <1>1, <3>2
        <4>2. f[x] = At(c, x) /\ f[x - 1] = At(c, x - 1)  BY <4>1
        <4> QED  BY <1>4, <3>2, <4>1, <4>2
      <3> QED  BY <3>1, <3>2
    <2> QED  BY <2>1
  <1>6. w = CHOOSE g : Eq(g)  BY DEF Queue!Walk
  <1>7. Eq(w)
    <2> HIDE DEF Eq, f, w
    <2> QED  BY <1>5, <1>6
  <1>8. w[0] = p.head /\ \A x \in 1 .. Room : w[x] = IF w[x - 1] = nullptr THEN nullptr
                                                     ELSE p.node[w[x - 1]].next
    <2> HIDE DEF w, f
    <2> QED  BY <1>1, <1>7
  <1> HIDE DEF w, f, Eq
  <1> DEFINE Bad == {x \in 0 .. Room : w[x] # At(c, x)}
  <1>9. Bad = {}
    <2> SUFFICES ASSUME Bad # {} PROVE FALSE  OBVIOUS
    <2>1. PICK x \in Bad : \A y \in Bad : x <= y
      <3>1. Bad \in SUBSET Nat  BY <1>1
      <3> HIDE DEF Bad
      <3> QED  BY <3>1, LeastNatural
    <2>2. x # 0  BY <1>3, <1>8
    <2>3. x \in 1 .. Room /\ x - 1 \in 0 .. Room /\ ~(x <= x - 1)  BY <1>1, <2>2
    <2>4. w[x - 1] = At(c, x - 1)  BY <2>1, <2>3
    <2> QED  BY <1>4, <1>8, <2>1, <2>3, <2>4
  <1> QED  BY <1>9 DEF w

LEMMA ChainIs ==
  ASSUME NEW p, NEW c, Chained(p, c)
  PROVE  /\ Queue!Chain(p) = c /\ Linked(p)
         /\ Queue!Elements(p) = [m \in DOMAIN c |-> p.node[c[m]].value]
  <1> DEFINE w == Queue!Walk(p)
             Ends == {x \in 0 .. Room : w[x] = nullptr} \cup {Room}
             rounds == Queue!Min(Ends)
  <1>1. Room \in Nat /\ Len(c) \in 0 .. Room /\ c \in Seq(Place) /\ nullptr \notin Place
    BY ChainFits, RoomAssumption DEF Chained
  <1>2. \A x \in 0 .. Room : w[x] = At(c, x)  BY WalkIs
  <1> HIDE DEF w
  <1>3. \A x \in 0 .. Room : w[x] = nullptr <=> Len(c) <= x
    <2> SUFFICES ASSUME NEW x \in 0 .. Room PROVE w[x] = nullptr <=> Len(c) <= x  OBVIOUS
    <2>1. CASE x < Len(c)
      <3>1. c[x + 1] \in Place  BY <1>1, <2>1
      <3> QED  BY <1>1, <1>2, <2>1, <3>1 DEF At
    <2>2. CASE ~(x < Len(c))  BY <1>1, <1>2, <2>2 DEF At
    <2> QED  BY <2>1, <2>2
  <1>4. Len(c) \in Ends /\ \A y \in Ends : y \in Nat /\ Len(c) <= y  BY <1>1, <1>3
  <1> HIDE DEF Ends
  <1>5. rounds = Len(c)
    <2>1. rounds \in Ends /\ \A y \in Ends : rounds <= y  BY <1>4 DEF Queue!Min
    <2> HIDE DEF rounds
    <2> QED  BY <1>1, <1>4, <2>1
  <1>6. Queue!Chain(p) = [x \in 1 .. rounds |-> w[x - 1]]  BY DEF Queue!Chain, w, Ends
  <1> HIDE DEF rounds
  <1>7. \A x \in 1 .. Len(c) : w[x - 1] = c[x]
    <2> SUFFICES ASSUME NEW x \in 1 .. Len(c) PROVE w[x - 1] = c[x]  OBVIOUS
    <2>1. x - 1 \in 0 .. Room /\ x - 1 < Len(c) /\ (x - 1) + 1 = x  BY <1>1
    <2> QED  BY <1>2, <2>1 DEF At
  <1>8. Queue!Chain(p) = c  BY <1>1, <1>5, <1>6, <1>7
  <1> QED  BY <1>8 DEF Linked, Queue!Elements

\* A linked pool: what is at both ends, and what show prints.
LEMMA LinkedFacts ==
  ASSUME NEW p, Linked(p)
  PROVE  /\ Queue!Elements(p) \in Seq(Value)
         /\ Queue!Elements(p) = <<>> <=> p.head = nullptr
         /\ p \in Pools
         /\ p.head = nullptr => p.tail = nullptr
         /\ p.head # nullptr => p.head \in DOMAIN p.node /\ p.tail \in DOMAIN p.node
                                /\ Queue!Elements(p)[1] = p.node[p.head].value
  <1> DEFINE c == Queue!Chain(p)
             e == Queue!Elements(p)
  <1>1. Chained(p, c)  BY DEF Linked
  <1>2. e = [m \in DOMAIN c |-> p.node[c[m]].value]  BY DEF Queue!Elements
  <1> HIDE DEF c, e
  <1>3. /\ c \in Seq(Place) /\ p \in Pools /\ nullptr \notin Place /\ DOMAIN c = 1 .. Len(c)
        /\ Len(c) \in Nat
    BY <1>1, RoomAssumption DEF Chained
  <1>4. \A m \in DOMAIN c : c[m] \in DOMAIN p.node /\ p.node[c[m]].value \in Value
    BY <1>1, <1>3 DEF Chained, Pools, Nodes
  <1>5. e \in Seq(Value) /\ Len(e) = Len(c)  BY <1>2, <1>3, <1>4
  <1>6. c = <<>> <=> Len(c) = 0  BY <1>3
  <1>7. e = <<>> <=> Len(e) = 0  BY <1>5
  <1>8. CASE Len(c) = 0
    <2>1. p.head = nullptr /\ p.tail = nullptr  BY <1>1, <1>6, <1>8 DEF Chained
    <2> QED  BY <1>3, <1>5, <1>7, <1>8, <2>1 DEF e
  <1>9. CASE Len(c) # 0
    <2>1. 1 \in DOMAIN c /\ c[1] \in Place /\ Len(c) \in DOMAIN c  BY <1>3, <1>9
    <2>2. p.head = c[1] /\ p.tail = c[Len(c)]  BY <1>1, <1>6, <1>9 DEF Chained
    <2> QED  BY <1>2, <1>3, <1>4, <1>5, <1>7, <1>9, <2>1, <2>2 DEF e
  <1> QED  BY <1>8, <1>9

\* The pool q is p after a push of v into a node at a.
PushedOn(p, q, a, v) ==
  q = [head |-> IF p.head = nullptr THEN a ELSE p.head,
       tail |-> a,
       node |-> [b \in DOMAIN p.node \cup {a} |->
                   IF b = a THEN [value |-> v, next |-> nullptr]
                   ELSE IF b = p.tail THEN [value |-> p.node[b].value, next |-> a]
                   ELSE p.node[b]]]

LEMMA PushChains ==
  ASSUME NEW p, Linked(p), NEW a \in Place \ DOMAIN p.node, NEW v \in Value,
         NEW q, PushedOn(p, q, a, v)
  PROVE  Linked(q) /\ Queue!Elements(q) = Append(Queue!Elements(p), v)
  <1> DEFINE c == Queue!Chain(p)
             d == Append(c, a)
             last == Len(c) + 1
  <1>1. Chained(p, c) /\ Queue!Elements(p) = [m \in DOMAIN c |-> p.node[c[m]].value]
    BY DEF Linked, Queue!Elements
  <1> HIDE DEF c
  <1>2. /\ c \in Seq(Place) /\ Len(c) \in Nat /\ DOMAIN c = 1 .. Len(c) /\ nullptr \notin Place
        /\ p \in Pools
    BY <1>1, RoomAssumption DEF Chained
  <1>3. /\ d \in Seq(Place) /\ Len(d) = last /\ DOMAIN d = 1 .. last /\ d[last] = a
        /\ \A m \in DOMAIN c : d[m] = c[m] /\ m \in DOMAIN d
        /\ \A m \in DOMAIN d : m = last \/ m \in DOMAIN c
        /\ last \in DOMAIN d /\ last \notin DOMAIN c
    BY <1>2
  <1>4. /\ DOMAIN p.node = {c[m] : m \in DOMAIN c}
        /\ \A m \in DOMAIN c : p.node[c[m]] \in Nodes
    BY <1>1, <1>2 DEF Chained, Pools
  <1>5. q.tail = a /\ q.head = (IF p.head = nullptr THEN a ELSE p.head)
        /\ DOMAIN q.node = DOMAIN p.node \cup {a}
        /\ q.node[a] = [value |-> v, next |-> nullptr]
        /\ \A b \in DOMAIN p.node : q.node[b] = IF b = p.tail THEN [value |-> p.node[b].value, next |-> a]
                                                ELSE p.node[b]
    BY DEF PushedOn
  <1>6. q \in Pools
    <2>1. DOMAIN p.node \in SUBSET Place /\ \A b \in DOMAIN p.node : p.node[b] \in Nodes
      BY <1>2 DEF Pools
    <2>2. q.node \in [DOMAIN q.node -> Nodes] /\ DOMAIN q.node \in SUBSET Place
      <3>1. ASSUME NEW b \in DOMAIN p.node PROVE q.node[b] \in Nodes
        <4>1. p.node[b] \in Nodes  BY <2>1
        <4>2. [value |-> p.node[b].value, next |-> a] \in Nodes  BY <4>1 DEF Nodes
        <4> QED  BY <1>5, <4>1, <4>2
      <3>2. q.node[a] \in Nodes  BY <1>5 DEF Nodes
      <3>3. q.node = [b \in DOMAIN q.node |-> q.node[b]]  BY DEF PushedOn
      <3> HIDE DEF PushedOn
      <3> QED  BY <1>5, <2>1, <3>1, <3>2, <3>3
    <2>3. q.node \in UNION {[A -> Nodes] : A \in SUBSET Place}  BY <2>2
    <2>4. q.head \in Place \cup {nullptr} /\ q.tail \in Place \cup {nullptr}
      BY <1>2, <1>5 DEF Pools
    <2>5. q = [head |-> q.head, tail |-> q.tail, node |-> q.node]  BY DEF PushedOn
    <2> HIDE DEF PushedOn
    <2> QED  BY <2>3, <2>4, <2>5 DEF Pools
  <1>7. c = <<>> <=> Len(c) = 0  BY <1>2
  <1>8. d # <<>>  BY <1>2, <1>3
  <1> HIDE DEF d
  <1>9. q.head = d[1]
    <2>1. CASE Len(c) = 0  BY <1>1, <1>3, <1>5, <1>7, <2>1 DEF Chained
    <2>2. CASE Len(c) # 0
      <3>1. 1 \in DOMAIN c /\ c[1] \in Place  BY <1>2, <2>2
      <3> QED  BY <1>1, <1>2, <1>3, <1>5, <1>7, <2>2, <3>1 DEF Chained
    <2> QED  BY <2>1, <2>2
  <1>10. \A m \in DOMAIN c : c[m] = p.tail <=> m = Len(c)
    BY <1>1, <1>2, <1>7 DEF Chained
  <1>11. \A m \in DOMAIN c : /\ c[m] \in DOMAIN p.node
                             /\ q.node[c[m]].next = d[m + 1]
                             /\ q.node[c[m]].value = p.node[c[m]].value
    <2> SUFFICES ASSUME NEW m \in DOMAIN c
                 PROVE  /\ c[m] \in DOMAIN p.node
                        /\ q.node[c[m]].next = d[m + 1]
                        /\ q.node[c[m]].value = p.node[c[m]].value
      OBVIOUS
    <2>1. c[m] \in DOMAIN p.node  BY <1>4
    <2>2. CASE m = Len(c)
      <3>1. q.node[c[m]] = [value |-> p.node[c[m]].value, next |-> a]
        BY <1>5, <1>10, <2>1, <2>2
      <3> QED  BY <1>3, <2>1, <2>2, <3>1
    <2>3. CASE m # Len(c)
      <3>1. q.node[c[m]] = p.node[c[m]]  BY <1>5, <1>10, <2>1, <2>3
      <3>2. m < Len(c) /\ m + 1 \in DOMAIN c  BY <1>2, <2>3
      <3>3. p.node[c[m]].next = c[m + 1]  BY <1>1, <3>2 DEF Chained
      <3> QED  BY <1>3, <2>1, <3>1, <3>2, <3>3
    <2> QED  BY <2>2, <2>3
  <1>12. Chained(q, d)
    <2>1. DOMAIN q.node = {d[m] : m \in DOMAIN d}  BY <1>3, <1>4, <1>5
    <2>2. \A m, l \in DOMAIN d : d[m] = d[l] => m = l
      <3>1. \A m \in DOMAIN c : d[m] # a  BY <1>3, <1>11
      <3>2. \A m, l \in DOMAIN c : c[m] = c[l] => m = l  BY <1>1 DEF Chained
      <3> QED  BY <1>3, <3>1, <3>2
    <2>3. ASSUME NEW m \in DOMAIN d
          PROVE  q.node[d[m]].next = IF m < Len(d) THEN d[m + 1] ELSE nullptr
      <3>1. CASE m \in DOMAIN c  BY <1>2, <1>3, <1>11, <3>1
      <3>2. CASE m = last
        <4>1. q.node[a].next = nullptr  BY <1>5
        <4> QED  BY <1>2, <1>3, <3>2, <4>1
      <3> QED  BY <1>3, <3>1, <3>2
    <2> QED  BY <1>3, <1>5, <1>6, <1>8, <1>9, <2>1, <2>2, <2>3 DEF Chained
  <1>13. Linked(q) /\ Queue!Elements(q) = [m \in DOMAIN d |-> q.node[d[m]].value]
    BY <1>12, ChainIs
  <1>14. Queue!Elements(q) = Append(Queue!Elements(p), v)
    <2> DEFINE e == [m \in DOMAIN c |-> p.node[c[m]].value]
    <2>1. e \in Seq(Value) /\ Len(e) = Len(c)
      <3>1. \A m \in DOMAIN c : p.node[c[m]].value \in Value  BY <1>4 DEF Nodes
      <3> QED  BY <1>2, <3>1
    <2>2. \A m \in DOMAIN c : q.node[d[m]].value = e[m]  BY <1>3, <1>11
    <2>3. q.node[d[last]].value = v  BY <1>3, <1>5
    <2> HIDE DEF e
    <2>4. [m \in DOMAIN d |-> q.node[d[m]].value] = Append(e, v)
      <3> DEFINE f == [m \in DOMAIN d |-> q.node[d[m]].value]
      <3>1. f = [m \in 1 .. last |-> IF m = last THEN v ELSE e[m]]
        BY <1>3, <2>2, <2>3
      <3> DEFINE g == Append(e, v)
      <3>2. g \in Seq(Value) /\ Len(g) = last /\ g[last] = v /\ \A m \in 1 .. Len(c) : g[m] = e[m]
        BY <1>2, <2>1
      <3>3. g = [m \in 1 .. last |-> g[m]]
        <4> HIDE DEF g
        <4> QED  BY <1>2, <3>2
      <3> HIDE DEF f, g
      <3>4. \A m \in 1 .. last : g[m] = IF m = last THEN v ELSE e[m]  BY <1>2, <3>2
      <3> QED  BY <3>1, <3>3, <3>4 DEF f, g
    <2> QED  BY <1>1, <1>13, <2>4 DEF e
  <1> QED  BY <1>13, <1>14

\* The pool q is p after a pop.
PoppedOff(p, q) ==
  q = [head |-> p.node[p.head].next,
       tail |-> IF p.node[p.head].next = nullptr THEN nullptr ELSE p.tail,
       node |-> [b \in DOMAIN p.node \ {p.head} |-> p.node[b]]]

LEMMA PopChains ==
  ASSUME NEW p, Linked(p), p.head # nullptr, NEW q, PoppedOff(p, q)
  PROVE  Linked(q) /\ Queue!Elements(q) = Tail(Queue!Elements(p))
  <1> DEFINE c == Queue!Chain(p)
             d == Tail(c)
  <1>1. Chained(p, c) /\ Queue!Elements(p) = [m \in DOMAIN c |-> p.node[c[m]].value]
    BY DEF Linked, Queue!Elements
  <1> HIDE DEF c
  <1>2. /\ c \in Seq(Place) /\ Len(c) \in Nat /\ DOMAIN c = 1 .. Len(c) /\ nullptr \notin Place
        /\ p \in Pools
    BY <1>1, RoomAssumption DEF Chained
  <1>3. c # <<>> /\ Len(c) >= 1 /\ p.head = c[1] /\ p.tail = c[Len(c)]
    BY <1>1, <1>2 DEF Chained
  <1>4. /\ d \in Seq(Place) /\ Len(d) = Len(c) - 1 /\ DOMAIN d = 1 .. Len(c) - 1
        /\ \A m \in DOMAIN d : d[m] = c[m + 1]
    BY <1>2, <1>3
  <1> HIDE DEF d
  <1>5. /\ DOMAIN p.node = {c[m] : m \in DOMAIN c}
        /\ \A m, l \in DOMAIN c : c[m] = c[l] => m = l
        /\ \A m \in DOMAIN c : p.node[c[m]].next = IF m < Len(c) THEN c[m + 1] ELSE nullptr
    BY <1>1 DEF Chained
  <1>6. /\ q.head = p.node[p.head].next
        /\ q.tail = (IF q.head = nullptr THEN nullptr ELSE p.tail)
        /\ DOMAIN q.node = DOMAIN p.node \ {p.head}
        /\ \A b \in DOMAIN q.node : q.node[b] = p.node[b]
    BY DEF PoppedOff
  <1>7. DOMAIN q.node = {d[m] : m \in DOMAIN d}
    <2>1. ASSUME NEW m \in DOMAIN d PROVE d[m] \in DOMAIN q.node
      <3>1. m + 1 \in DOMAIN c /\ 1 \in DOMAIN c /\ m + 1 # 1  BY <1>2, <1>4
      <3> QED  BY <1>3, <1>4, <1>5, <1>6, <3>1
    <2>2. ASSUME NEW b \in DOMAIN q.node PROVE \E m \in DOMAIN d : b = d[m]
      <3>1. PICK l \in DOMAIN c : b = c[l]  BY <1>5, <1>6
      <3>2. l # 1  BY <1>3, <1>6, <3>1
      <3>3. l - 1 \in DOMAIN d /\ (l - 1) + 1 = l  BY <1>2, <1>4, <3>2
      <3> QED  BY <1>4, <3>1, <3>3
    <2> QED  BY <2>1, <2>2
  <1>8. q.head = IF d = <<>> THEN nullptr ELSE d[1]
    <2>1. 1 \in DOMAIN c  BY <1>2, <1>3
    <2>2. q.head = IF 1 < Len(c) THEN c[1 + 1] ELSE nullptr  BY <1>3, <1>5, <1>6, <2>1
    <2>3. d = <<>> <=> Len(d) = 0  BY <1>4
    <2>4. CASE 1 < Len(c)
      <3>1. 1 \in DOMAIN d /\ Len(d) # 0  BY <1>2, <1>4, <2>4
      <3> QED  BY <1>4, <2>2, <2>3, <2>4, <3>1
    <2>5. CASE ~(1 < Len(c))
      <3>1. Len(d) = 0  BY <1>2, <1>3, <1>4, <2>5
      <3> QED  BY <2>2, <2>3, <2>5, <3>1
    <2> QED  BY <2>4, <2>5
  <1>9. q.tail = IF d = <<>> THEN nullptr ELSE d[Len(d)]
    <2>1. d = <<>> <=> Len(d) = 0  BY <1>4
    <2>2. CASE Len(d) = 0  BY <1>6, <1>8, <2>1, <2>2
    <2>3. CASE Len(d) # 0
      <3>1. 1 \in DOMAIN d /\ Len(d) \in DOMAIN d /\ Len(d) + 1 = Len(c)  BY <1>2, <1>4, <2>3
      <3>2. d[1] \in Place /\ d[Len(d)] = c[Len(c)]  BY <1>4, <3>1
      <3> QED  BY <1>2, <1>3, <1>6, <1>8, <2>1, <2>3, <3>2
    <2> QED  BY <2>2, <2>3
  <1>10. q \in Pools
    <2>1. DOMAIN p.node \in SUBSET Place /\ \A b \in DOMAIN p.node : p.node[b] \in Nodes
      BY <1>2 DEF Pools
    <2>2. p.head \in DOMAIN p.node  BY <1>2, <1>3, <1>5
    <2>3. q.head \in Place \cup {nullptr} /\ q.tail \in Place \cup {nullptr}
      BY <1>2, <1>6, <2>1, <2>2 DEF Pools, Nodes
    <2>4. q.node = [b \in DOMAIN q.node |-> q.node[b]]  BY DEF PoppedOff
    <2>5. q = [head |-> q.head, tail |-> q.tail, node |-> q.node]  BY DEF PoppedOff
    <2> HIDE DEF PoppedOff
    <2>6. q.node \in [DOMAIN q.node -> Nodes] /\ DOMAIN q.node \in SUBSET Place
      BY <1>6, <2>1, <2>4
    <2>7. q.node \in UNION {[A -> Nodes] : A \in SUBSET Place}  BY <2>6
    <2> QED  BY <2>3, <2>5, <2>7 DEF Pools
  <1>11. Chained(q, d)
    <2>1. \A m, l \in DOMAIN d : d[m] = d[l] => m = l
      <3> SUFFICES ASSUME NEW m \in DOMAIN d, NEW l \in DOMAIN d, d[m] = d[l] PROVE m = l
        OBVIOUS
      <3>1. m + 1 \in DOMAIN c /\ l + 1 \in DOMAIN c /\ m \in Nat /\ l \in Nat  BY <1>2, <1>4
      <3>2. m + 1 = l + 1  BY <1>4, <1>5, <3>1
      <3> QED  BY <3>1, <3>2
    <2>2. ASSUME NEW m \in DOMAIN d
          PROVE  q.node[d[m]].next = IF m < Len(d) THEN d[m + 1] ELSE nullptr
      <3>1. m + 1 \in DOMAIN c /\ (m < Len(d) <=> m + 1 < Len(c))  BY <1>2, <1>4
      <3>2. q.node[d[m]] = p.node[c[m + 1]]  BY <1>4, <1>6, <1>7
      <3>3. m < Len(d) => d[m + 1] = c[(m + 1) + 1]  BY <1>2, <1>4
      <3> QED  BY <1>5, <3>1, <3>2, <3>3
    <2> QED  BY <1>4, <1>7, <1>8, <1>9, <1>10, <2>1, <2>2 DEF Chained
  <1>12. Linked(q) /\ Queue!Elements(q) = [m \in DOMAIN d |-> q.node[d[m]].value]
    BY <1>11, ChainIs
  <1>13. Queue!Elements(q) = Tail(Queue!Elements(p))
    <2> DEFINE e == [m \in DOMAIN c |-> p.node[c[m]].value]
               f == [m \in DOMAIN d |-> q.node[d[m]].value]
               g == Tail(e)
    <2>1. e \in Seq(Value) /\ Len(e) = Len(c)
      <3>1. \A m \in DOMAIN c : p.node[c[m]].value \in Value
        BY <1>2, <1>5 DEF Pools, Nodes
      <3> QED  BY <1>2, <3>1
    <2>2. \A m \in DOMAIN d : f[m] = e[m + 1]
      <3> SUFFICES ASSUME NEW m \in DOMAIN d PROVE f[m] = e[m + 1]  OBVIOUS
      <3>1. m + 1 \in DOMAIN c  BY <1>2, <1>4
      <3>2. q.node[d[m]] = p.node[c[m + 1]]  BY <1>4, <1>6, <1>7
      <3> QED  BY <3>1, <3>2
    <2>3. f = [l \in DOMAIN d |-> f[l]]  OBVIOUS
    <2> HIDE DEF e
    <2>4. /\ g \in Seq(Value) /\ Len(g) = Len(c) - 1
          /\ \A m \in 1 .. Len(c) - 1 : g[m] = e[m + 1]
      BY <1>2, <1>3, <2>1
    <2> HIDE DEF f, g
    <2>5. g = [m \in 1 .. Len(c) - 1 |-> g[m]]  BY <1>2, <2>4
    <2>6. f = g  BY <1>4, <2>2, <2>3, <2>4, <2>5
    <2> QED  BY <1>1, <1>12, <2>6 DEF e, f, g
  <1> QED  BY <1>12, <1>13

\* The queue the refinement mapping shows, outside and inside of a transaction.
Kept == Queue!Elements(Queue!Tx!Durable)

LEMMA KeptIs ==
  /\ QOutside => Kept = Queue!Elements(quPool) /\ Queue!Tx!Durable = quPool
  /\ QInside => Kept = Queue!Elements(quUndo[1]) /\ Queue!Tx!Durable = quUndo[1]
  BY DEF QOutside, QInside, Kept, Queue!Tx!Durable, Queue!Tx!InTx

LEMMA KeptWillBe ==
  /\ QOutside' => Kept' = Queue!Elements(quPool')
  /\ QInside' => Kept' = Queue!Elements(quUndo'[1])
  BY DEF QOutside, QInside, Kept, Queue!Tx!Durable, Queue!Tx!InTx

LEMMA QueueStart == Queue!Init => QueueInv /\ Queue!Fifo!Init
  <1> SUFFICES ASSUME Queue!Init PROVE QueueInv /\ Queue!Fifo!Init  OBVIOUS
  <1> USE DEF Queue!Init
  <1> DEFINE p == [head |-> nullptr, tail |-> nullptr, node |-> <<>>]
  <1>1. quPool = p  OBVIOUS
  <1>2. Chained(p, <<>>)
    <2>1. /\ <<>> \in Seq(Place) /\ DOMAIN <<>> = {} /\ p.node = <<>>
          /\ p.head = nullptr /\ p.tail = nullptr
      OBVIOUS
    <2>2. p \in Pools
      <3>1. <<>> \in [{} -> Nodes] /\ {} \in SUBSET Place  OBVIOUS
      <3>2. <<>> \in UNION {[A -> Nodes] : A \in SUBSET Place}  BY <3>1
      <3> QED  BY <3>2 DEF Pools
    <2> HIDE DEF p
    <2> QED  BY <2>1, <2>2 DEF Chained
  <1>3. Linked(quPool) /\ Queue!Elements(quPool) = <<>>
    <2>1. Linked(p) /\ Queue!Elements(p) = [m \in DOMAIN <<>> |-> p.node[<<>>[m]].value]
      BY <1>2, ChainIs
    <2>2. [m \in DOMAIN <<>> |-> p.node[<<>>[m]].value] = <<>>  OBVIOUS
    <2> QED  BY <1>1, <2>1, <2>2
  <1>4. QOutside  BY <1>3 DEF QOutside
  <1>5. QIdle  BY <1>4 DEF QIdle
  <1>6. Queue!Fifo!Init  BY <1>3, <1>4, KeptIs DEF Queue!Fifo!Init, Kept
  <1> QED  BY <1>5, <1>6 DEF QueueInv

\* Where the process is decides which part of the invariant holds.
LEMMA QPlaces ==
  ASSUME QueueInv
  PROVE  /\ quPc \in {"down", "loop"} => QIdle
         /\ quPc \in {"push", "pop", "show", "exit"} => QCalled
         /\ quPc = "push_link" => QAllocated
         /\ quPc = "pop_delete" => QUnlinked
         /\ quPc = "pop_tail" => QDeleted
         /\ quPc = "commit" => QPushed \/ QPopped
         /\ quPc = "return" => QDone
  BY DEF QueueInv, QIdle, QCalled, QAllocated, QPushed, QUnlinked, QDeleted, QPopped, QDone

LEMMA QTransaction ==
  ASSUME QueueInv
  PROVE  (QOutside \/ QInside) /\ (quPc \in {"down", "loop"} <=> quCall = <<"none">>)
  <1>1. CASE QIdle  BY <1>1 DEF QIdle
  <1>2. CASE QCalled  BY <1>2 DEF QCalled
  <1>3. CASE QAllocated  BY <1>3 DEF QAllocated
  <1>4. CASE QPushed  BY <1>4 DEF QPushed
  <1>5. CASE QUnlinked  BY <1>5 DEF QUnlinked
  <1>6. CASE QDeleted  BY <1>6 DEF QDeleted
  <1>7. CASE QPopped  BY <1>7 DEF QPopped
  <1>8. CASE QDone  BY <1>8 DEF QDone
  <1> QED  BY <1>1, <1>2, <1>3, <1>4, <1>5, <1>6, <1>7, <1>8 DEF QueueInv

\* An end of the process leaves the queue alone; with a command under way, it is lost.
LEMMA QueueEnds ==
  ASSUME QueueInv, Queue!Tx!Recover, quPc # "down",
         Queue!End(IF quCall = <<"none">> THEN quReply ELSE <<"lost">>)
  PROVE  QueueInv' /\ [Queue!Fifo!Next]_(Queue!Fifo!vars)
  <1>1. QOutside \/ QInside  BY QTransaction
  <1>2. QOutside' /\ Kept' = Kept
    BY <1>1, KeptIs, KeptWillBe
       DEF Queue!Tx!Recover, Queue!Tx!Durable, Queue!Tx!InTx, QOutside, QInside
  <1>3. QIdle'  BY <1>2 DEF QIdle, Queue!End
  <1>4. CASE quCall = <<"none">>
    BY <1>2, <1>3, <1>4 DEF Queue!End, Queue!Fifo!vars, Kept, QueueInv
  <1>5. CASE quCall # <<"none">>
    <2>1. Queue!Fifo!Lost  BY <1>2, <1>5 DEF Queue!Fifo!Lost, Queue!End, Kept
    <2> QED  BY <1>3, <2>1 DEF QueueInv, Queue!Fifo!Next
  <1> QED  BY <1>4, <1>5

\* Each step of the queue in the pool is a step of the queue it promises, or none.
LEMMA QueueStepRefines ==
  ASSUME QueueInv, [Queue!Next]_(Queue!vars)
  PROVE  QueueInv' /\ [Queue!Fifo!Next]_(Queue!Fifo!vars)
  <1> USE DEF Queue!Fifo!vars
  <1>1. CASE Queue!Open
    <2>1. QIdle  BY <1>1, QPlaces DEF Queue!Open
    <2>2. UNCHANGED <<quPool, quUndo, quCall, quReply, quValue>> /\ quPc' = "loop"
      BY <1>1 DEF Queue!Open
    <2>3. QOutside' /\ Kept' = Kept
      BY <2>1, <2>2, KeptIs, KeptWillBe DEF QIdle, QOutside
    <2>4. QIdle'  BY <2>1, <2>2, <2>3 DEF QIdle
    <2> QED  BY <2>2, <2>3, <2>4 DEF QueueInv, Kept
  <1>2. ASSUME NEW c \in Queue!Calls, Queue!ReadCommand(c)
        PROVE  QueueInv' /\ Queue!Fifo!Next
    <2>1. QIdle  BY <1>2, QPlaces DEF Queue!ReadCommand
    <2>2. /\ UNCHANGED <<quPool, quUndo, quReply, quValue>>
          /\ quCall' = c /\ quPc' = c[1] /\ quPc = "loop"
      BY <1>2 DEF Queue!ReadCommand
    <2>3. QOutside' /\ Kept' = Kept
      BY <2>1, <2>2, KeptIs, KeptWillBe DEF QIdle, QOutside
    <2>4. QCalled'  BY <2>1, <2>2, <2>3 DEF QIdle, QCalled, Queue!Calls
    <2>5. Queue!Fifo!Invoke(c)  BY <2>1, <2>2, <2>3 DEF QIdle, Queue!Fifo!Invoke, Kept
    <2>6. c \in Queue!Fifo!Calls  BY DEF Queue!Calls, Queue!Fifo!Calls
    <2> QED  BY <2>4, <2>5, <2>6 DEF QueueInv, Queue!Fifo!Next
  <1>3. CASE Queue!Exit \/ Queue!TxThrows
    <2>1. QCalled /\ quPc # "down" /\ quCall # <<"none">>
      BY <1>3, QPlaces, QTransaction DEF Queue!Exit, Queue!TxThrows
    <2>2. Queue!Tx!Recover
      BY <1>3, <2>1 DEF Queue!Exit, Queue!TxThrows, QCalled, QOutside, Queue!Tx!Recover,
                        Queue!Tx!Durable, Queue!Tx!InTx
    <2>3. Queue!End(<<"lost">>)  BY <1>3 DEF Queue!Exit, Queue!TxThrows
    <2> QED  BY <2>1, <2>2, <2>3, QueueEnds
  <1>4. CASE Queue!Crash  BY <1>4, QueueEnds DEF Queue!Crash
  <1>5. CASE Queue!show
    <2>1. QCalled /\ quCall[1] = "show"  BY <1>5, QPlaces DEF Queue!show, QCalled
    <2>2. /\ UNCHANGED <<quPool, quUndo>> /\ quPc' = "loop" /\ quCall' = <<"none">>
          /\ quReply' = Queue!Elements(quPool) /\ quValue' = <<>>
      BY <1>5 DEF Queue!show, Queue!Return
    <2>3. QOutside' /\ Kept' = Kept /\ Kept = Queue!Elements(quPool)
      BY <2>1, <2>2, KeptIs, KeptWillBe DEF QCalled, QOutside
    <2>4. QIdle'  BY <2>2, <2>3 DEF QIdle
    <2>5. Queue!Fifo!Show  BY <2>1, <2>2, <2>3 DEF Queue!Fifo!Show, Kept
    <2> QED  BY <2>4, <2>5 DEF QueueInv, Queue!Fifo!Next
  <1>6. CASE Queue!popEmpty
    <2>1. QCalled /\ quCall[1] = "pop"  BY <1>6, QPlaces DEF Queue!popEmpty, QCalled
    <2>2. /\ UNCHANGED <<quPool, quUndo>> /\ quPc' = "down" /\ quCall' = <<"none">>
          /\ quReply' = <<"empty">> /\ quValue' = <<>> /\ quPool.head = nullptr
      BY <1>6 DEF Queue!popEmpty, Queue!End
    <2>3. QOutside' /\ Kept' = Kept /\ Kept = Queue!Elements(quPool)
      BY <2>1, <2>2, KeptIs, KeptWillBe DEF QCalled, QOutside
    <2>4. Kept = <<>>  BY <2>1, <2>2, <2>3, LinkedFacts DEF QCalled, QOutside
    <2>5. QIdle'  BY <2>2, <2>3 DEF QIdle
    <2>6. Queue!Fifo!Empty  BY <2>1, <2>2, <2>3, <2>4 DEF Queue!Fifo!Empty, Kept
    <2> QED  BY <2>5, <2>6 DEF QueueInv, Queue!Fifo!Next
  <1>7. CASE Queue!Answer
    <2>1. QDone  BY <1>7, QPlaces DEF Queue!Answer
    <2>2. /\ UNCHANGED <<quPool, quUndo>> /\ quPc' = "loop" /\ quCall' = <<"none">>
          /\ quReply' = quCall[2] /\ quValue' = <<>>
      BY <1>7 DEF Queue!Answer, Queue!Return
    <2>3. QOutside' /\ Kept' = Kept
      BY <2>1, <2>2, KeptIs, KeptWillBe DEF QDone, QOutside
    <2>4. QIdle'  BY <2>2, <2>3 DEF QIdle
    <2>5. Queue!Fifo!Return  BY <2>1, <2>2, <2>3 DEF QDone, Queue!Fifo!Return, Kept
    <2> QED  BY <2>4, <2>5 DEF QueueInv, Queue!Fifo!Next
  <1>8. CASE Queue!pushNode
    <2>1. QCalled /\ quCall[1] = "push"  BY <1>8, QPlaces DEF Queue!pushNode, QCalled
    <2>2. PICK a \in Place \ Queue!Allocated :
            /\ quUndo' = <<quPool>> /\ quNode' = a
            /\ quPool' = [quPool EXCEPT !.node = Queue!NodesWith(a, quCall[2])]
      BY <1>8 DEF Queue!pushNode, Queue!Tx!BeginWith
    <2>3. quPc' = "push_link" /\ UNCHANGED <<quCall, quReply, quValue>>
      BY <1>8 DEF Queue!pushNode
    <2>4. QInside' /\ Kept' = Kept
      BY <2>1, <2>2, KeptIs, KeptWillBe DEF QCalled, QOutside, QInside
    <2>5. QAllocated'
      BY <2>1, <2>2, <2>3, <2>4
         DEF QCalled, QAllocated, Queue!NodesWith, Queue!Allocated, Queue!Calls
    <2> QED  BY <2>3, <2>4, <2>5 DEF QueueInv, Kept
  <1>9. CASE Queue!pushLink
    <2>1. QAllocated  BY <1>9, QPlaces DEF Queue!pushLink
    <2> DEFINE old == quUndo[1]
    <2>2. /\ quPool' = IF quPool.head = nullptr
                         THEN [quPool EXCEPT !.head = quNode, !.tail = quNode]
                         ELSE [quPool EXCEPT !.node[quPool.tail].next = quNode, !.tail = quNode]
          /\ quPc' = "commit" /\ UNCHANGED <<quUndo, quCall, quReply, quValue>>
      BY <1>9 DEF Queue!pushLink, Queue!Tx!Write
    <2>3. /\ Linked(old) /\ quNode \in Place \ DOMAIN old.node /\ quCall[2] \in Value
          /\ quCall[1] = "push"
      BY <2>1 DEF QAllocated, QInside, Queue!Calls
    <2>4. PushedOn(old, quPool', quNode, quCall[2])
      <3> DEFINE new == [value |-> quCall[2], next |-> nullptr]
                 nodes == [b \in DOMAIN old.node \cup {quNode} |->
                             IF b = quNode THEN new ELSE old.node[b]]
                 linked == [b \in DOMAIN old.node \cup {quNode} |->
                              IF b = quNode THEN new
                              ELSE IF b = old.tail THEN [value |-> old.node[b].value, next |-> quNode]
                              ELSE old.node[b]]
      <3>1. old \in Pools /\ quPool = [old EXCEPT !.node = nodes]
        BY <2>1, LinkedFacts DEF QAllocated, QInside
      <3>2. /\ DOMAIN old.node \in SUBSET Place /\ nullptr \notin Place
            /\ \A b \in DOMAIN old.node : old.node[b] \in Nodes
            /\ old.head = nullptr => old.tail = nullptr
            /\ old.head # nullptr => old.tail \in DOMAIN old.node
        BY <2>3, <3>1, LinkedFacts, RoomAssumption DEF Pools
      <3> HIDE DEF old
      <3>3. quPool = [head |-> old.head, tail |-> old.tail, node |-> nodes]
        <4> HIDE DEF nodes
        <4> QED  BY <3>1 DEF Pools
      <3>4. CASE old.head = nullptr
        <4>1. linked = nodes  BY <3>2, <3>4
        <4> HIDE DEF linked, nodes
        <4>2. quPool' = [head |-> quNode, tail |-> quNode, node |-> nodes]  BY <2>2, <3>3, <3>4
        <4> QED  BY <3>4, <4>1, <4>2 DEF PushedOn, linked
      <3>5. CASE old.head # nullptr
        <4>1. old.tail # quNode /\ nodes[old.tail] = old.node[old.tail]  BY <2>3, <3>2, <3>5
        <4>2. [old.node[old.tail] EXCEPT !.next = quNode]
                = [value |-> old.node[old.tail].value, next |-> quNode]
          BY <3>2, <3>5 DEF Nodes
        <4>3. [nodes EXCEPT ![old.tail].next = quNode] = linked  BY <2>3, <3>2, <3>5, <4>1, <4>2
        <4> HIDE DEF linked, nodes
        <4>4. quPool' = [head |-> old.head, tail |-> quNode, node |-> linked]
          BY <2>2, <3>3, <3>5, <4>3
        <4> QED  BY <3>5, <4>4 DEF PushedOn, linked
      <3> QED  BY <3>4, <3>5
    <2>5. /\ Linked(quPool')
          /\ Queue!Elements(quPool') = Append(Queue!Elements(old), quCall[2])
      <3> HIDE DEF old
      <3> QED  BY <2>3, <2>4, PushChains
    <2>6. QInside' /\ Kept' = Kept
      BY <2>1, <2>2, KeptIs, KeptWillBe DEF QAllocated, QInside
    <2>7. QPushed'  BY <2>1, <2>2, <2>5, <2>6 DEF QAllocated, QPushed, Queue!Calls
    <2> QED  BY <2>2, <2>6, <2>7 DEF QueueInv, Kept
  <1>10. CASE Queue!popHead
    <2>1. QCalled /\ quCall = <<"pop">>
      BY <1>10, QPlaces DEF Queue!popHead, QCalled, Queue!Calls
    <2>2. /\ quPool.head # nullptr
          /\ quNode' = quPool.head /\ quValue' = <<quPool.node[quPool.head].value>>
          /\ quUndo' = <<quPool>>
          /\ quPool' = [quPool EXCEPT !.head = quPool.node[quPool.head].next]
          /\ quPc' = "pop_delete" /\ UNCHANGED <<quCall, quReply>>
      BY <1>10 DEF Queue!popHead, Queue!Tx!BeginWith
    <2>3. QInside' /\ Kept' = Kept
      BY <2>1, <2>2, KeptIs, KeptWillBe DEF QCalled, QOutside, QInside
    <2>4. QUnlinked'  BY <2>1, <2>2, <2>3 DEF QUnlinked
    <2> QED  BY <2>2, <2>3, <2>4 DEF QueueInv, Kept
  <1>11. CASE Queue!popDelete
    <2>1. QUnlinked  BY <1>11, QPlaces DEF Queue!popDelete
    <2>2. /\ quPool' = [quPool EXCEPT !.node = Queue!Restrict(@, DOMAIN quPool.node \ {quNode})]
          /\ quPc' = "pop_tail" /\ UNCHANGED <<quUndo, quCall, quReply, quValue>>
      BY <1>11 DEF Queue!popDelete, Queue!Tx!Write, Queue!Allocated
    <2>3. QInside' /\ Kept' = Kept
      BY <2>1, <2>2, KeptIs, KeptWillBe DEF QUnlinked, QInside
    <2>4. quPool' = [head |-> quUndo[1].node[quUndo[1].head].next, tail |-> quUndo[1].tail,
                     node |-> [b \in DOMAIN quUndo[1].node \ {quUndo[1].head} |->
                                 quUndo[1].node[b]]]
      <3> DEFINE old == quUndo[1]
                 next == old.node[old.head].next
      <3>1. /\ old \in Pools /\ quNode = old.head /\ quPool = [old EXCEPT !.head = next]
        BY <2>1, LinkedFacts DEF QUnlinked, QInside
      <3> HIDE DEF old, next
      <3>2. quPool = [head |-> next, tail |-> old.tail, node |-> old.node]
        BY <3>1 DEF Pools
      <3> QED  BY <2>2, <3>1, <3>2 DEF Queue!Restrict, old, next
    <2>5. QDeleted'  BY <2>1, <2>2, <2>3, <2>4 DEF QUnlinked, QDeleted
    <2> QED  BY <2>2, <2>3, <2>5 DEF QueueInv, Kept
  <1>12. CASE Queue!popTail
    <2>1. QDeleted  BY <1>12, QPlaces DEF Queue!popTail
    <2> DEFINE old == quUndo[1]
    <2>2. /\ quPool' = IF quPool.head = nullptr THEN [quPool EXCEPT !.tail = nullptr] ELSE quPool
          /\ quPc' = "commit" /\ UNCHANGED <<quUndo, quCall, quReply, quValue>>
      BY <1>12 DEF Queue!popTail, Queue!Tx!Write
    <2>3. /\ Linked(old) /\ old.head # nullptr
          /\ quPool = [head |-> old.node[old.head].next, tail |-> old.tail,
                       node |-> [b \in DOMAIN old.node \ {old.head} |-> old.node[b]]]
      BY <2>1 DEF QDeleted, QInside
    <2>4. PoppedOff(old, quPool')
      <3> HIDE DEF old
      <3> QED  BY <2>2, <2>3 DEF PoppedOff
    <2>5. Linked(quPool') /\ Queue!Elements(quPool') = Tail(Queue!Elements(old))
      <3> HIDE DEF old
      <3> QED  BY <2>3, <2>4, PopChains
    <2>6. QInside' /\ Kept' = Kept
      BY <2>1, <2>2, KeptIs, KeptWillBe DEF QDeleted, QInside
    <2>7. Queue!Elements(old) # <<>> /\ quValue = <<Head(Queue!Elements(old))>>
      <3>1. quValue = <<old.node[old.head].value>>  BY <2>1 DEF QDeleted
      <3> HIDE DEF old
      <3> DEFINE e == Queue!Elements(old)
      <3>2. e \in Seq(Value) /\ e # <<>> /\ e[1] = old.node[old.head].value
        BY <2>3, LinkedFacts
      <3> HIDE DEF e
      <3>3. Head(e) = e[1]  BY <3>2
      <3> QED  BY <3>1, <3>2, <3>3 DEF e
    <2>8. QPopped'  BY <2>1, <2>2, <2>5, <2>6, <2>7 DEF QDeleted, QPopped
    <2> QED  BY <2>2, <2>6, <2>8 DEF QueueInv, Kept
  <1>13. CASE Queue!commit
    <2>1. QPushed \/ QPopped  BY <1>13, QPlaces DEF Queue!commit
    <2>2. /\ quUndo' = <<>> /\ quPc' = "return" /\ quCall' = <<"done", quValue>>
          /\ UNCHANGED <<quPool, quReply>>
      BY <1>13 DEF Queue!commit, Queue!Tx!Commit
    <2>3. /\ QOutside' /\ Kept' = Queue!Elements(quPool)
          /\ Kept = Queue!Elements(quUndo[1])
      BY <2>1, <2>2, KeptIs, KeptWillBe DEF QPushed, QPopped, QOutside
    <2>4. QDone'  BY <2>2, <2>3 DEF QDone
    <2>5. CASE QPushed
      <3>1. Queue!Fifo!Push  BY <2>2, <2>3, <2>5 DEF QPushed, Queue!Fifo!Push, Kept
      <3> QED  BY <2>4, <3>1 DEF QueueInv, Queue!Fifo!Next
    <2>6. CASE QPopped
      <3>1. Queue!Fifo!Pop  BY <2>2, <2>3, <2>6 DEF QPopped, Queue!Fifo!Pop, Kept
      <3> QED  BY <2>4, <3>1 DEF QueueInv, Queue!Fifo!Next
    <2> QED  BY <2>1, <2>5, <2>6
  <1>14. CASE UNCHANGED Queue!vars
    <2>1. UNCHANGED <<quPool, quUndo, quPc, quCall, quReply, quNode, quValue>>
      BY <1>14 DEF Queue!vars
    <2>2. QueueInv'
      BY <2>1 DEF QueueInv, QIdle, QCalled, QAllocated, QPushed, QUnlinked, QDeleted, QPopped,
                  QDone, QOutside, QInside, Queue!Calls
    <2>3. Kept' = Kept  BY <2>1 DEF Kept, Queue!Tx!Durable, Queue!Tx!InTx
    <2> QED  BY <2>1, <2>2, <2>3 DEF Kept
  <1> QED
    BY <1>1, <1>2, <1>3, <1>4, <1>5, <1>6, <1>7, <1>8, <1>9, <1>10, <1>11, <1>12, <1>13, <1>14
       DEF Queue!Next

\* ppm_ch8_7: whatever is in the queue and wherever a run dies, push and pop take effect at
\* one instant or not at all, and pop and show answer the elements in the order of a queue.
THEOREM QueueIsAFifo == Queue!Spec => ImplementsFifo
  BY QueueStart, QueueStepRefines, PTL
     DEF Queue!Spec, ImplementsFifo, Queue!ImplementsFifo, Queue!Fifo!Spec

\* ppm_ch8_7: the pool a death leaves behind has no node that is not in the queue, none that
\* is in it twice, and its tail is the last one, for every size of the pool.
THEOREM NodesAreTheChainHolds == Queue!Spec => []NodesAreTheChain
  <1>1. QueueInv => NodesAreTheChain
    <2> SUFFICES ASSUME QueueInv PROVE NodesAreTheChain  OBVIOUS
    <2> DEFINE kept == Queue!Tx!Durable
               c == Queue!Chain(kept)
    <2>1. Linked(kept)  BY QTransaction, KeptIs DEF QOutside, QInside
    <2> HIDE DEF kept
    <2>2. Chained(kept, c)  BY <2>1 DEF Linked
    <2> HIDE DEF c
    <2>3. Queue!Range(c) = DOMAIN kept.node  BY <2>2 DEF Chained, Queue!Range
    <2>4. /\ \A m, l \in DOMAIN c : c[m] = c[l] => m = l
          /\ kept.tail = IF c = <<>> THEN nullptr ELSE c[Len(c)]
      BY <2>2 DEF Chained
    <2> QED  BY <2>3, <2>4 DEF NodesAreTheChain, Queue!NodesAreTheChain, c, kept
  <1>2. Queue!Spec => []QueueInv
    BY QueueStart, QueueStepRefines, PTL DEF Queue!Spec
  <1> QED  BY <1>1, <1>2, PTL

=============================================================================
