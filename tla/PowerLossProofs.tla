----------------------- MODULE PowerLossProofs ------------------------
(***************************************************************************)
(* The programs that order their stores by hand, for all their sizes and   *)
(* inputs: whatever a loss of power keeps of the stores that no persist    *)
(* covers, what is left can be read.  Each is proved of its own            *)
(* specification, which MCPowerLoss runs unchanged.                        *)
(***************************************************************************)
EXTENDS MCPowerLoss, FiniteSetTheorems, WellFoundedInduction, TLAPS

LEMMA LeastNatural ==
  ASSUME NEW T \in SUBSET Nat, T # {}
  PROVE  \E x \in T : \A y \in T : ~(y < x)
  <1> DEFINE Less == OpToRel(<, Nat)
  <1>1. IsWellFoundedOn(Less, Nat)  BY NatLessThanWellFounded
  <1>2. \A x, y \in Nat : x < y => <<x, y>> \in Less  BY DEF OpToRel
  <1> HIDE DEF Less
  <1>3. PICK x \in T : \A y \in T : ~(<<y, x>> \in Less)  BY <1>1, WFMin
  <1>4. ASSUME NEW y \in T PROVE ~(y < x)
    <2>1. y \in Nat /\ x \in Nat  OBVIOUS
    <2> QED  BY <1>2, <1>3, <2>1, Zenon
  <1> QED  BY <1>3, <1>4
-----------------------------------------------------------------------------
(* The two-version insert, ppm_ch11_6 *)

Agree(c) == \A m \in 0 .. slots : media[<<c, m>>] = mem[<<c, m>>]

VersionsType ==
  /\ input \in Inputs /\ done \in Nat
  /\ mem \in [Location -> Int] /\ media \in [Location -> Int]
  /\ {mem[current], media[current]} \subseteq 0 .. 1
  /\ pc \in {"insert", "persist_version", "flip", "persist_current", "closed"}

\* What the persists have achieved at each point of insert.
PersistOrder ==
  /\ pc # "persist_current" => mem[current] = media[current]
  /\ pc \in {"flip", "persist_current"} => \A c \in 0 .. 1 : Agree(c)
  /\ Agree(mem[current])

VersionsInv == VersionsType /\ PersistOrder

\* Locations of the versions are apart from `current'.
LEMMA LocationFacts ==
  /\ current \in Location
  /\ \A c \in 0 .. 1 : \A m \in 0 .. slots : <<c, m>> \in Location /\ <<c, m>> # current
  /\ \A l \in Location : l # current => l[1] \in 0 .. 1 /\ l[2] \in 0 .. slots /\ l = <<l[1], l[2]>>
  BY DEF Location, current

LEMMA VersionsInit == Init => VersionsInv
  <1> SUFFICES ASSUME Init PROVE VersionsInv  OBVIOUS
  <1> USE LocationFacts
  <1>1. VersionsType  BY DEF Init, VersionsType
  <1>2. PersistOrder  BY DEF Init, PersistOrder, Agree
  <1> QED  BY <1>1, <1>2 DEF VersionsInv

\* insert_element stores an integer in every location, and only in the working version.
LEMMA InsertElementStores ==
  ASSUME VersionsType, insert_element
  PROVE  /\ mem' \in [Location -> Int]
         /\ \A l \in Location : l[1] # 1 - mem[current] => mem'[l] = mem[l]
  <1> USE LocationFacts
  <1> DEFINE c == mem[current]
             entry == input[done + 1]
             size == mem[<<c, 0>>]
             pos == lower_bound(c, entry)
             stored(m) == IF m = 0 THEN size + 1
                          ELSE IF m < pos THEN mem[<<c, m>>]
                          ELSE IF m = pos THEN entry
                          ELSE IF m <= size + 1 THEN mem[<<c, m - 1>>]
                          ELSE mem[<<1 - c, m>>]
             new(l) == IF l[1] = 1 - c THEN stored(l[2]) ELSE mem[l]
  <1>1. mem' = [l \in Location |-> new(l)]  BY DEF insert_element
  <1>2. c \in 0 .. 1 /\ 1 - c \in 0 .. 1  BY DEF VersionsType
  <1>3. entry \in Int
    <2>1. input \in Seq(Int) /\ done + 1 \in 1 .. Len(input)
      BY InputsAssumption DEF VersionsType, insert_element
    <2> QED  BY <2>1
  <1>4. size \in Int  BY <1>2, InputsAssumption DEF VersionsType
  <1> HIDE DEF c, entry, size, pos
  <1>5. \A m \in 0 .. slots : mem[<<c, m>>] \in Int /\ mem[<<1 - c, m>>] \in Int
    BY <1>2 DEF VersionsType
  <1>6. \A m \in 0 .. slots : m # 0 => mem[<<c, m - 1>>] \in Int
    <2>1. \A m \in 0 .. slots : m # 0 => m - 1 \in 0 .. slots  BY InputsAssumption
    <2> QED  BY <1>5, <2>1
  <1>7. \A m \in 0 .. slots : stored(m) \in Int
    <2> SUFFICES ASSUME NEW m \in 0 .. slots PROVE stored(m) \in Int  OBVIOUS
    <2>1. CASE m = 0  BY <2>1, <1>4
    <2>2. CASE m # 0  BY <2>2, <1>3, <1>5, <1>6
    <2> QED  BY <2>1, <2>2
  <1> HIDE DEF stored
  <1>8. \A l \in Location : new(l) \in Int
    <2> SUFFICES ASSUME NEW l \in Location PROVE new(l) \in Int  OBVIOUS
    <2>1. CASE l[1] = 1 - c  BY <2>1, <1>2, <1>7 DEF current
    <2>2. CASE l[1] # 1 - c  BY <2>2 DEF VersionsType
    <2> QED  BY <2>1, <2>2
  <1>9. \A l \in Location : l[1] # 1 - c => mem'[l] = mem[l]  BY <1>1
  <1> QED  BY <1>1, <1>8, <1>9 DEF c

LEMMA VersionsStep == VersionsInv /\ [Next]_vars => VersionsInv'
  <1> SUFFICES ASSUME VersionsInv, [Next]_vars PROVE VersionsInv'  OBVIOUS
  <1> USE LocationFacts DEF VersionsInv, VersionsType, PersistOrder, Agree
  <1>1. CASE insert_element
    <2>1. mem' \in [Location -> Int] /\ \A l \in Location : l[1] # 1 - mem[current] => mem'[l] = mem[l]
      BY <1>1, InsertElementStores
    <2>2. mem'[current] = mem[current]  BY <2>1 DEF current
    <2>3. \A m \in 0 .. slots : mem'[<<mem[current], m>>] = mem[<<mem[current], m>>]  BY <2>1
    <2>4. pc = "insert" /\ pc' = "persist_version" /\ UNCHANGED <<input, done, media>>
      BY <1>1 DEF insert_element
    <2>5. VersionsType'  BY <2>1, <2>2, <2>4
    <2>6. PersistOrder'  BY <2>2, <2>3, <2>4
    <2> QED  BY <2>5, <2>6
  <1>2. CASE persist_version
    <2>1. media' \in [Location -> Int] /\ media'[current] = media[current]
      BY <1>2 DEF persist_version, persist
    <2>2. \A c \in 0 .. 1 : \A m \in 0 .. slots : media'[<<c, m>>] = mem[<<c, m>>]
      BY <1>2 DEF persist_version, persist
    <2> QED  BY <1>2, <2>1, <2>2 DEF persist_version
  <1>3. CASE flip
    <2>1. mem' \in [Location -> Int] /\ mem'[current] = 1 - mem[current]  BY <1>3 DEF flip
    <2>2. \A c \in 0 .. 1 : \A m \in 0 .. slots : mem'[<<c, m>>] = mem[<<c, m>>]  BY <1>3 DEF flip
    <2> QED  BY <1>3, <2>1, <2>2 DEF flip
  <1>4. CASE persist_current
    <2>1. media' \in [Location -> Int] /\ media'[current] = mem[current]
      BY <1>4 DEF persist_current, persist
    <2>2. \A c \in 0 .. 1 : \A m \in 0 .. slots : media'[<<c, m>>] = media[<<c, m>>]
      BY <1>4 DEF persist_current, persist
    <2> QED  BY <1>4, <2>1, <2>2 DEF persist_current
  <1>5. CASE Close  BY <1>5 DEF Close
  <1>6. CASE PowerFails
    <2>1. mem' \in [Location -> Int] /\ media' = mem' /\ mem'[current] \in {mem[current], media[current]}
      BY <1>6 DEF PowerFails
    <2> QED  BY <1>6, <2>1 DEF PowerFails
  <1>7. CASE UNCHANGED vars  BY <1>7 DEF vars
  <1> QED  BY <1>1, <1>2, <1>3, <1>4, <1>5, <1>6, <1>7 DEF Next

\* Whichever value of `current' survives, the version it names is in the medium: for
\* every capacity and every program of inserts, at every point of insert_element, of
\* insert and of main.
THEOREM NamedVersionsAlwaysPersisted == Spec => []NamedVersionsPersisted
  <1>1. VersionsInv => NamedVersionsPersisted
    BY DEF VersionsInv, VersionsType, PersistOrder, NamedVersionsPersisted, Agree
  <1> QED  BY <1>1, VersionsInit, VersionsStep, PTL DEF Spec


\* Version c of the memory f is the first k entries, in order.
Version(f, c, k) == [m \in 1 .. k |-> f[<<c, m>>]]
Whole(f, entries, c, k) ==
  k \in 0 .. slots /\ f[<<c, 0>>] = k /\ HoldsFirst(Version(f, c, k), entries, k)

\* The version `current' names has what was inserted, and the other one, once it is
\* built, has the entry under way as well.
VersionsHold ==
  /\ done \in 0 .. Len(input)
  /\ pc \in {"insert", "persist_version", "flip"} => Whole(mem, input, mem[current], done)
  /\ pc \in {"persist_version", "flip"} =>
       done < Len(input) /\ Whole(mem, input, 1 - mem[current], done + 1)
  /\ pc = "persist_current" =>
       /\ done < Len(input) /\ Whole(mem, input, mem[current], done + 1)
       /\ Whole(mem, input, 1 - mem[current], done)
  /\ pc = "closed" =>
       \E k \in {done, done + 1} : k <= Len(input) /\ Whole(mem, input, mem[current], k)

\* A version is whole wherever its locations have the same contents.
LEMMA WholeElsewhere ==
  ASSUME NEW f, NEW g, NEW entries, NEW c, NEW k, Whole(f, entries, c, k),
         \A m \in 0 .. slots : g[<<c, m>>] = f[<<c, m>>]
  PROVE  Whole(g, entries, c, k)
  <1>1. k \in 0 .. slots /\ slots \in Nat  BY InputsAssumption DEF Whole
  <1>2. Version(g, c, k) = Version(f, c, k)  BY <1>1 DEF Version
  <1> QED  BY <1>1, <1>2 DEF Whole

\* Putting the next entry where lower_bound says keeps the order and loses nothing.
LEMMA InsertKeepsOrder ==
  ASSUME NEW entries \in Seq(Int), NEW k \in Nat, k < Len(entries),
         NEW s \in [1 .. k -> Int], HoldsFirst(s, entries, k), NEW pos \in 1 .. k + 1,
         \A m \in 1 .. k : m < pos => s[m] < entries[k + 1],
         pos <= k => s[pos] >= entries[k + 1],
         NEW t, DOMAIN t = 1 .. k + 1,
         \A m \in 1 .. k + 1 : t[m] = IF m < pos THEN s[m]
                                      ELSE IF m = pos THEN entries[k + 1] ELSE s[m - 1]
  PROVE  HoldsFirst(t, entries, k + 1)
  <1>1. entries[k + 1] \in Int /\ \A m \in 1 .. k : s[m] \in Int  OBVIOUS
  <1>2. \A m, l \in 1 .. k : m <= l => s[m] <= s[l]  BY DEF HoldsFirst
  <1>3. PICK from \in [1 .. k -> 1 .. k] :
          /\ \A m, l \in 1 .. k : from[m] = from[l] => m = l
          /\ \A m \in 1 .. k : s[m] = entries[from[m]]
    BY DEF HoldsFirst
  <1>4. ASSUME NEW m \in 1 .. k + 1, NEW l \in 1 .. k + 1, m <= l PROVE t[m] <= t[l]
    <2>1. \A x \in 1 .. k : x < pos => s[x] <= entries[k + 1]  BY <1>1
    <2>2. ASSUME NEW x \in 1 .. k, pos <= x PROVE entries[k + 1] <= s[x]
      <3>1. pos \in 1 .. k  BY <2>2
      <3>2. s[pos] >= entries[k + 1] /\ s[pos] <= s[x]  BY <1>2, <2>2, <3>1
      <3>3. s[pos] \in Int /\ s[x] \in Int  BY <3>1
      <3> DEFINE e == entries[k + 1]
                 a == s[pos]
                 b == s[x]
      <3>4. e \in Int /\ a \in Int /\ b \in Int /\ a >= e /\ a <= b  BY <1>1, <3>2, <3>3
      <3> HIDE DEF e, a, b
      <3>5. e <= b  BY <3>4
      <3> QED  BY <3>5 DEF e, b
    <2>3. CASE m < pos
      <3>1. m \in 1 .. k /\ t[m] = s[m]  BY <2>3
      <3>2. CASE l < pos  BY <1>2, <1>4, <3>1, <3>2
      <3>3. CASE l = pos  BY <2>1, <2>3, <3>1, <3>3
      <3>4. CASE l > pos
        <4>1. l - 1 \in 1 .. k /\ m <= l - 1 /\ t[l] = s[l - 1]  BY <2>3, <3>4
        <4> QED  BY <1>2, <3>1, <4>1
      <3> QED  BY <3>2, <3>3, <3>4
    <2>4. CASE m = pos
      <3>1. t[m] = entries[k + 1]  BY <2>4
      <3>2. CASE l = pos  BY <1>1, <3>1, <3>2, <2>4
      <3>3. CASE l > pos
        <4>1. l - 1 \in 1 .. k /\ pos <= l - 1 /\ t[l] = s[l - 1]  BY <3>3
        <4> QED  BY <2>2, <3>1, <4>1
      <3> QED  BY <1>4, <2>4, <3>2, <3>3
    <2>5. CASE m > pos
      <3>1. m - 1 \in 1 .. k /\ l - 1 \in 1 .. k /\ m - 1 <= l - 1 /\ l > pos
        BY <1>4, <2>5
      <3>2. t[m] = s[m - 1]  BY <2>5
      <3>3. t[l] = s[l - 1]
        <4>1. ~(l < pos) /\ l # pos  BY <3>1
        <4> QED  BY <4>1
      <3> QED  BY <1>2, <3>1, <3>2, <3>3
    <2> QED  BY <2>3, <2>4, <2>5
  <1> DEFINE to == [m \in 1 .. k + 1 |-> IF m < pos THEN from[m]
                                         ELSE IF m = pos THEN k + 1 ELSE from[m - 1]]
  <1> DEFINE Below(m) == m < pos /\ m \in 1 .. k /\ to[m] = from[m] /\ t[m] = s[m]
             Here(m)  == m = pos /\ to[m] = k + 1 /\ t[m] = entries[k + 1]
             Above(m) == /\ m > pos /\ m - 1 \in 1 .. k
                         /\ to[m] = from[m - 1] /\ t[m] = s[m - 1]
  <1>5. ASSUME NEW m \in 1 .. k + 1 PROVE Below(m) \/ Here(m) \/ Above(m)
    <2>1. CASE m < pos
      <3>1. m \in 1 .. k  BY <2>1
      <3> QED  BY <2>1, <3>1
    <2>2. CASE m = pos  BY <2>2
    <2>3. CASE m > pos
      <3>1. m - 1 \in 1 .. k /\ ~(m < pos) /\ m # pos  BY <2>3
      <3> QED  BY <2>3, <3>1
    <2> QED  BY <2>1, <2>2, <2>3
  <1>6. \A x \in 1 .. k : from[x] \in 1 .. k /\ from[x] \in 1 .. k + 1 /\ from[x] # k + 1
    <2>1. \A x \in 1 .. k : from[x] \in 1 .. k  OBVIOUS
    <2>2. \A y \in 1 .. k : y \in 1 .. k + 1 /\ y # k + 1  OBVIOUS
    <2> QED  BY <2>1, <2>2
  <1>7. to \in [1 .. k + 1 -> 1 .. k + 1]
    <2>1. to = [m \in 1 .. k + 1 |-> to[m]] /\ k + 1 \in 1 .. k + 1  OBVIOUS
    <2> HIDE DEF to
    <2>2. \A m \in 1 .. k + 1 : to[m] \in 1 .. k + 1  BY <1>5, <1>6, <2>1
    <2> QED  BY <2>1, <2>2
  <1> HIDE DEF to
  <1>8. ASSUME NEW m \in 1 .. k + 1 PROVE t[m] = entries[to[m]]
    <2>1. CASE Below(m)  BY <1>3, <2>1
    <2>2. CASE Here(m)  BY <2>2
    <2>3. CASE Above(m)
      <3>1. s[m - 1] = entries[from[m - 1]]  BY <1>3, <2>3
      <3> QED  BY <2>3, <3>1
    <2> QED  BY <1>5, <2>1, <2>2, <2>3
  <1>9. ASSUME NEW m \in 1 .. k + 1, NEW l \in 1 .. k + 1, to[m] = to[l] PROVE m = l
    <2>1. Below(m) \/ Here(m) \/ Above(m)  BY <1>5
    <2>2. Below(l) \/ Here(l) \/ Above(l)  BY <1>5
    <2>3. CASE Below(m) /\ Above(l)
      <3>1. m = l - 1  BY <1>3, <1>9, <2>3, ZenonT(30)
      <3> QED  BY <2>3, <3>1
    <2>4. CASE Above(m) /\ Below(l)
      <3>1. m - 1 = l  BY <1>3, <1>9, <2>4, ZenonT(30)
      <3> QED  BY <2>4, <3>1
    <2>5. CASE Above(m) /\ Above(l)
      <3>1. m - 1 = l - 1  BY <1>3, <1>9, <2>5, ZenonT(30)
      <3> QED  BY <3>1
    <2>6. CASE Below(m) /\ Below(l)
      <3>1. m \in 1 .. k /\ l \in 1 .. k /\ from[m] = from[l]  BY <1>9, <2>6
      <3> QED  BY <1>3, <3>1
    <2>7. CASE Here(m) \/ Here(l)
      <3>1. Here(m) /\ Here(l)  BY <1>6, <1>9, <2>1, <2>2, <2>7
      <3> QED  BY <3>1
    <2> QED  BY <2>1, <2>2, <2>3, <2>4, <2>5, <2>6, <2>7
  <1> QED  BY <1>4, <1>7, <1>8, <1>9 DEF HoldsFirst

LEMMA LowerBoundIs ==
  ASSUME NEW c, NEW e \in Int, NEW k \in Nat, mem[<<c, 0>>] = k,
         \A m \in 1 .. k : mem[<<c, m>>] \in Int,
         NEW pos, pos = lower_bound(c, e)
  PROVE  /\ pos \in 1 .. k + 1
         /\ \A m \in 1 .. k : m < pos => mem[<<c, m>>] < e
         /\ pos <= k => mem[<<c, pos>>] >= e
  <1> DEFINE T == {m \in 1 .. k : mem[<<c, m>>] >= e} \cup {k + 1}
  <1>1. pos = Min(T)  BY DEF lower_bound
  <1>2. T \in SUBSET Nat /\ T # {}  OBVIOUS
  <1>3. pos \in T /\ \A y \in T : pos <= y
    <2> HIDE DEF T
    <2>1. \E x \in T : \A y \in T : x <= y  BY <1>2, LeastNatural
    <2> QED  BY <1>1, <2>1 DEF Min
  <1>4. ASSUME NEW m \in 1 .. k, m < pos PROVE mem[<<c, m>>] < e
    <2>1. m \notin T  BY <1>2, <1>3, <1>4
    <2>2. ~(mem[<<c, m>>] >= e) /\ mem[<<c, m>>] \in Int  BY <2>1
    <2> QED  BY <2>2
  <1>5. pos <= k => mem[<<c, pos>>] >= e  BY <1>3
  <1>6. pos \in 1 .. k + 1  BY <1>3
  <1> QED  BY <1>4, <1>5, <1>6

\* insert_element builds the version with one entry more beside the current one.
LEMMA InsertElementBuilds ==
  ASSUME VersionsInv, VersionsHold, insert_element
  PROVE  Whole(mem', input, 1 - mem[current], done + 1)
  <1> USE LocationFacts
  <1> DEFINE c == mem[current]
             d == 1 - c
             k == done
             entry == input[k + 1]
             pos == lower_bound(c, entry)
             stored(m) == IF m = 0 THEN k + 1
                          ELSE IF m < pos THEN mem[<<c, m>>]
                          ELSE IF m = pos THEN entry
                          ELSE IF m <= k + 1 THEN mem[<<c, m - 1>>]
                          ELSE mem[<<d, m>>]
             s == Version(mem, c, k)
             t == Version(mem', d, k + 1)
  <1>1. /\ Whole(mem, input, c, k) /\ input \in Seq(Int) /\ k < Len(input) /\ Len(input) <= slots
        /\ k \in Nat /\ c \in 0 .. 1 /\ d \in 0 .. 1 /\ slots \in Nat
    BY InputsAssumption DEF VersionsInv, VersionsType, VersionsHold, insert_element
  <1>2. mem[<<c, 0>>] = k /\ HoldsFirst(s, input, k)  BY <1>1 DEF Whole
  <1>3. mem' = [l \in Location |-> IF l[1] = d THEN stored(l[2]) ELSE mem[l]]
    BY <1>2 DEF insert_element
  <1>4. \A m \in 0 .. slots : mem'[<<d, m>>] = stored(m)
    <2> HIDE DEF stored, d
    <2> QED  BY <1>1, <1>3
  <1>5. entry \in Int  BY <1>1
  <1>6. \A m \in 0 .. slots : mem[<<c, m>>] \in Int
    BY <1>1 DEF VersionsInv, VersionsType
  <1>7. /\ pos \in 1 .. k + 1
        /\ \A m \in 1 .. k : m < pos => mem[<<c, m>>] < entry
        /\ pos <= k => mem[<<c, pos>>] >= entry
    <2>1. \A m \in 1 .. k : mem[<<c, m>>] \in Int  BY <1>1, <1>6
    <2> HIDE DEF c, k, entry
    <2> QED  BY <1>1, <1>2, <1>5, <2>1, LowerBoundIs
  <1> HIDE DEF c, d, k, entry, pos
  <1>8. s \in [1 .. k -> Int] /\ \A m \in 1 .. k : s[m] = mem[<<c, m>>]
    BY <1>1, <1>6 DEF Version
  <1>9. /\ DOMAIN t = 1 .. k + 1
        /\ \A m \in 1 .. k + 1 : t[m] = IF m < pos THEN s[m]
                                        ELSE IF m = pos THEN entry ELSE s[m - 1]
    <2>1. DOMAIN t = 1 .. k + 1 /\ \A m \in 1 .. k + 1 : t[m] = mem'[<<d, m>>]  BY DEF Version
    <2> HIDE DEF t, s
    <2>2. ASSUME NEW m \in 1 .. k + 1
          PROVE  t[m] = IF m < pos THEN s[m] ELSE IF m = pos THEN entry ELSE s[m - 1]
      <3>0. m \in 0 .. slots /\ m # 0  BY <1>1
      <3>1. t[m] = stored(m) /\ m # 0
        <4> HIDE DEF stored
        <4> QED  BY <1>4, <2>1, <3>0
      <3>2. CASE m < pos
        <4>1. m \in 1 .. k  BY <1>1, <1>7, <3>2
        <4> QED  BY <1>8, <3>1, <3>2, <4>1
      <3>3. CASE m = pos  BY <1>1, <1>7, <3>1, <3>3
      <3>4. CASE m > pos
        <4>1. m - 1 \in 1 .. k /\ ~(m < pos) /\ m # pos /\ m <= k + 1  BY <1>1, <1>7, <3>4, SMTT(20)
        <4> QED  BY <1>8, <3>1, <4>1
      <3> QED  BY <1>1, <1>7, <3>2, <3>3, <3>4
    <2> QED  BY <2>1, <2>2
  <1>10. HoldsFirst(t, input, k + 1)
    <2> HIDE DEF s, t
    <2>1. \A m \in 1 .. k : m < pos => s[m] < input[k + 1]  BY <1>7, <1>8 DEF entry
    <2>2. pos <= k => s[pos] >= input[k + 1]  BY <1>1, <1>7, <1>8 DEF entry
    <2>3. \A m \in 1 .. k + 1 : t[m] = IF m < pos THEN s[m]
                                       ELSE IF m = pos THEN input[k + 1] ELSE s[m - 1]
      BY <1>9 DEF entry
    <2>4. s \in [1 .. k -> Int] /\ DOMAIN t = 1 .. k + 1 /\ pos \in 1 .. k + 1
      BY <1>7, <1>8, <1>9
    <2> QED  BY <1>1, <1>2, <2>1, <2>2, <2>3, <2>4, InsertKeepsOrder, ZenonT(30)
  <1>11. mem'[<<d, 0>>] = k + 1 /\ k + 1 \in 0 .. slots
    <2>1. 0 \in 0 .. slots /\ k + 1 \in 0 .. slots  BY <1>1
    <2> QED  BY <1>4, <2>1
  <1> QED  BY <1>10, <1>11 DEF Whole, c, d, k

LEMMA NothingIsWhole ==
  ASSUME Init PROVE VersionsHold
  <1>1. /\ mem[current] = 0 /\ \A m \in 0 .. slots : mem[<<0, m>>] = 0
        /\ slots \in Nat /\ Len(input) \in Nat
    BY LocationFacts, InputsAssumption DEF Init
  <1>2. HoldsFirst(Version(mem, 0, 0), input, 0)
    <2>1. DOMAIN Version(mem, 0, 0) = 1 .. 0 /\ 1 .. 0 = {}  BY DEF Version
    <2>2. <<>> \in [1 .. 0 -> 1 .. 0]  BY <2>1
    <2> QED  BY <2>1, <2>2 DEF HoldsFirst
  <1>3. Whole(mem, input, mem[current], 0)  BY <1>1, <1>2 DEF Whole
  <1> QED  BY <1>1, <1>3 DEF Init, VersionsHold

LEMMA VersionsHoldStep ==
  ASSUME VersionsInv, VersionsHold, [Next]_vars
  PROVE  VersionsHold'
  <1> USE LocationFacts
  <1>0. /\ mem[current] \in 0 .. 1 /\ 1 - mem[current] \in 0 .. 1
        /\ mem[current] # 1 - mem[current] /\ 1 - (1 - mem[current]) = mem[current]
        /\ done \in Nat /\ Len(input) \in Nat
    BY InputsAssumption DEF VersionsInv, VersionsType
  <1>1. CASE insert_element
    <2>1. /\ pc = "insert" /\ pc' = "persist_version" /\ UNCHANGED <<input, done, media>>
          /\ done < Len(input)
      BY <1>1 DEF insert_element
    <2>2. \A l \in Location : l[1] # 1 - mem[current] => mem'[l] = mem[l]
      BY <1>1, InsertElementStores DEF VersionsInv
    <2>3. mem'[current] = mem[current]  BY <2>2, <1>0 DEF current
    <2>4. \A m \in 0 .. slots : mem'[<<mem[current], m>>] = mem[<<mem[current], m>>]
      BY <1>0, <2>2
    <2>5. Whole(mem', input, mem[current], done)
      BY <2>1, <2>4, WholeElsewhere DEF VersionsHold
    <2>6. Whole(mem', input, 1 - mem[current], done + 1)  BY <1>1, InsertElementBuilds
    <2> QED  BY <2>1, <2>3, <2>5, <2>6 DEF VersionsHold
  <1>2. CASE persist_version \/ Close
    <2>1. UNCHANGED <<input, done, mem>>  BY <1>2 DEF persist_version, Close
    <2>2. \/ pc = "persist_version" /\ pc' = "flip"
          \/ pc = "insert" /\ pc' = "closed" /\ done = Len(input)
      BY <1>2 DEF persist_version, Close
    <2> QED  BY <1>0, <2>1, <2>2 DEF VersionsHold
  <1>3. CASE flip
    <2>1. pc = "flip" /\ pc' = "persist_current" /\ UNCHANGED <<input, done>>  BY <1>3 DEF flip
    <2>2. /\ mem'[current] = 1 - mem[current]
          /\ \A c \in 0 .. 1 : \A m \in 0 .. slots : mem'[<<c, m>>] = mem[<<c, m>>]
      BY <1>3 DEF flip, VersionsInv, VersionsType
    <2>3. Whole(mem', input, mem[current], done)
      BY <1>0, <2>1, <2>2, WholeElsewhere DEF VersionsHold
    <2>4. done < Len(input) /\ Whole(mem', input, 1 - mem[current], done + 1)
      BY <1>0, <2>1, <2>2, WholeElsewhere DEF VersionsHold
    <2> QED  BY <1>0, <2>1, <2>2, <2>3, <2>4 DEF VersionsHold
  <1>4. CASE persist_current
    <2>1. pc = "persist_current" /\ pc' = "insert" /\ done' = done + 1 /\ UNCHANGED <<input, mem>>
      BY <1>4 DEF persist_current
    <2> QED  BY <1>0, <2>1 DEF VersionsHold
  <1>5. CASE PowerFails
    <2>1. pc # "closed" /\ pc' = "closed" /\ UNCHANGED <<input, done>>  BY <1>5 DEF PowerFails
    <2>2. PICK lost \in SUBSET {l \in Location : mem[l] # media[l]} :
            mem' = [l \in Location |-> IF l \in lost THEN media[l] ELSE mem[l]]
      BY <1>5 DEF PowerFails
    <2>3. \A l \in Location : mem'[l] \in {mem[l], media[l]}  BY <2>2
    <2>4. mem'[current] \in {mem[current], media[current]}  BY <2>3
    <2>5. \E k \in {done, done + 1} : k <= Len(input) /\ Whole(mem, input, mem'[current], k)
      <3>1. CASE pc = "persist_current"
        <4>1. media[current] \in 0 .. 1  BY DEF VersionsInv, VersionsType
        <4>2. mem'[current] \in {mem[current], 1 - mem[current]}  BY <1>0, <2>4, <4>1
        <4>3. /\ done + 1 <= Len(input) /\ Whole(mem, input, mem[current], done + 1)
              /\ done <= Len(input) /\ Whole(mem, input, 1 - mem[current], done)
          BY <1>0, <3>1 DEF VersionsHold
        <4> QED  BY <4>2, <4>3
      <3>2. CASE pc # "persist_current"
        <4>1. mem'[current] = mem[current]  BY <2>4, <3>2 DEF VersionsInv, PersistOrder
        <4>2. done <= Len(input) /\ Whole(mem, input, mem[current], done)
          BY <2>1, <3>2 DEF VersionsHold, VersionsInv, VersionsType
        <4> QED  BY <4>1, <4>2
      <3> QED  BY <3>1, <3>2
    <2>6. \A m \in 0 .. slots : mem'[<<mem'[current], m>>] = mem[<<mem'[current], m>>]
      <3>1. Agree(mem'[current])  BY <2>4 DEF VersionsInv, VersionsType, PersistOrder
      <3>2. mem'[current] \in 0 .. 1  BY <2>4 DEF VersionsInv, VersionsType
      <3> QED  BY <2>3, <3>1, <3>2 DEF Agree
    <2>7. \E k \in {done, done + 1} : k <= Len(input) /\ Whole(mem', input, mem'[current], k)
      BY <2>5, <2>6, WholeElsewhere
    <2> QED  BY <1>0, <2>1, <2>7 DEF VersionsHold
  <1>6. CASE UNCHANGED vars  BY <1>6 DEF vars, VersionsHold
  <1> QED  BY <1>1, <1>2, <1>3, <1>4, <1>5, <1>6 DEF Next

\* For every capacity and every program of inserts: wherever the power fails, the medium
\* holds, in order, what the inserts that returned put in, or this and the one under way.
THEOREM WholeVersionAlwaysSurvives == Spec => []WholeVersionSurvives
  <1>1. VersionsInv /\ VersionsHold => WholeVersionSurvives
    <2> SUFFICES ASSUME VersionsInv, VersionsHold, pc = "closed"
                 PROVE  \E k \in {done, done + 1} : k <= Len(input) /\ HoldsFirst(Stored, input, k)
      BY DEF WholeVersionSurvives
    <2> DEFINE c == mem[current]
    <2>1. PICK k \in {done, done + 1} : k <= Len(input) /\ Whole(mem, input, c, k)
      BY DEF VersionsHold
    <2>2. media[current] = c /\ \A m \in 0 .. slots : media[<<c, m>>] = mem[<<c, m>>]
      BY DEF VersionsInv, PersistOrder, Agree
    <2> HIDE DEF c
    <2>3. Whole(media, input, c, k)  BY <2>1, <2>2, WholeElsewhere
    <2>4. Stored = Version(media, c, k)  BY <2>2, <2>3 DEF Stored, Version, Whole
    <2> QED  BY <2>1, <2>3, <2>4 DEF Whole
  <1>2. VersionsInv /\ VersionsHold /\ [Next]_vars => VersionsHold'  BY VersionsHoldStep
  <1>3. Init => VersionsHold  BY NothingIsWhole
  <1> QED  BY <1>1, <1>2, <1>3, VersionsInit, VersionsStep, PTL DEF Spec

-----------------------------------------------------------------------------
(* The writer and the reader, ppm_ch7_1 and ppm_ch7_2 *)

WriterLoc == {"create", "store_len", "persist_len", "copy", "persist_buf", "closed"}

\* The length is there or not; no character lies behind it, and there is none before the
\* length has been persisted.
StringsInv ==
  /\ strlenBuf \in Lengths /\ wpc \in WriterLoc
  /\ len \in {0, strlenBuf} /\ chars \subseteq 0 .. len - 1
  /\ wpc \in {"create", "store_len", "persist_len", "copy"} => chars = {}
  /\ "len" \in unsure => wpc = "persist_len"
  /\ ShownIsWhole

LEMMA StringsInit == Strings!Init => StringsInv
  BY DEF Strings!Init, StringsInv, WriterLoc, ShownIsWhole, Strings!ShownIsWhole

LEMMA StringsStep == StringsInv /\ [Strings!Next]_(Strings!vars) => StringsInv'
  <1> SUFFICES ASSUME StringsInv, [Strings!Next]_(Strings!vars) PROVE StringsInv'  OBVIOUS
  <1> USE DEF StringsInv, WriterLoc, ShownIsWhole, Strings!ShownIsWhole
  <1>1. CASE UNCHANGED Strings!vars  BY <1>1 DEF Strings!vars
  <1>2. CASE Strings!Create  BY <1>2 DEF Strings!Create
  <1>3. CASE Strings!StoreLen  BY <1>3 DEF Strings!StoreLen
  <1>4. CASE Strings!PersistLen  BY <1>4 DEF Strings!PersistLen
  <1>5. CASE Strings!Copy  BY <1>5 DEF Strings!Copy
  <1>6. CASE Strings!PersistBuf  BY <1>6 DEF Strings!PersistBuf
  <1>7. CASE Strings!PowerFails  BY <1>7 DEF Strings!PowerFails
  <1>8. CASE Strings!Open  BY <1>8 DEF Strings!Open
  <1>9. CASE Strings!Show  BY <1>9 DEF Strings!Show
  <1> QED  BY <1>1, <1>2, <1>3, <1>4, <1>5, <1>6, <1>7, <1>8, <1>9 DEF Strings!Next

LEMMA StringsInvHolds == Strings!Spec => []StringsInv
  BY StringsInit, StringsStep, PTL DEF Strings!Spec

\* The reader of ppm_ch7_2 prints the whole string, an empty line or nothing.
THEOREM ShownIsWholeHolds == Strings!Spec => []ShownIsWhole
  <1>1. StringsInv => ShownIsWhole  BY DEF StringsInv
  <1> QED  BY <1>1, StringsInvHolds, PTL

\* The buffer always ends in a zero, and strlen finds the first one.
LEMMA StrlenIsFirstZero ==
  ASSUME StringsInv
  PROVE  /\ Strings!strlen \in 0 .. MaxBufLen - 1 /\ Strings!strlen \notin chars
         /\ \A q \in 0 .. MaxBufLen - 1 : q < Strings!strlen => q \in chars
  <1> DEFINE Zeros == {q \in 0 .. MaxBufLen - 1 : q \notin chars}
             First(z) == z \notin chars /\ \A q \in 0 .. MaxBufLen - 1 : q < z => q \in chars
  <1>1. strlenBuf \in Nat /\ strlenBuf < MaxBufLen /\ MaxBufLen \in Nat
    BY LengthsAssumption DEF StringsInv
  <1>2. MaxBufLen - 1 \in Zeros
    BY <1>1 DEF StringsInv
  <1>3. PICK z \in Zeros : \A y \in Zeros : ~(y < z)
    <2>1. Zeros \in SUBSET Nat /\ Zeros # {}  BY <1>1, <1>2
    <2> HIDE DEF Zeros
    <2> QED  BY <2>1, LeastNatural
  <1>4. z \in 0 .. MaxBufLen - 1 /\ First(z)  BY <1>3
  <1>5. Strings!strlen = CHOOSE y \in 0 .. MaxBufLen - 1 : First(y)  BY DEF Strings!strlen
  <1> HIDE DEF First
  <1>6. Strings!strlen \in 0 .. MaxBufLen - 1 /\ First(Strings!strlen)  BY <1>4, <1>5
  <1> QED  BY <1>6 DEF First

\* What it prints is what the medium holds, from the first character to the last: a
\* string that has lost a byte anywhere is not printed.
THEOREM PrintsNoHole ==
  Strings!Spec => [][Strings!Show /\ shown' # -1 => chars = 0 .. shown' - 1]_(Strings!vars)
  <1>1. ASSUME StringsInv, Strings!Show, shown' # -1 PROVE chars = 0 .. shown' - 1
    <2>1. shown' = len /\ len = Strings!strlen  BY <1>1 DEF Strings!Show
    <2>2. MaxBufLen \in Nat /\ len \in 0 .. MaxBufLen - 1
      BY <1>1, <2>1, LengthsAssumption, StrlenIsFirstZero
    <2>3. \A q \in 0 .. MaxBufLen - 1 : q < len => q \in chars
      BY <1>1, <2>1, StrlenIsFirstZero
    <2>4. 0 .. len - 1 \subseteq chars  BY <2>2, <2>3
    <2> QED  BY <1>1, <2>1, <2>4 DEF StringsInv
  <1> QED  BY <1>1, StringsInvHolds, PTL

-----------------------------------------------------------------------------
(* The records and their counter, ppm_ch12_38 *)

Recs == 0 .. NRecords - 1
InRecord == {"count", "name", "persist_name", "valid_2", "persist_valid"}

Header == Recorder!counter
Name(r)  == <<"name", r>>
Mark(r)  == <<"valid", r>>
Sure(l)  == rmem[l] = rmedia[l]

RecordsType ==
  /\ rmem \in [Recorder!Location -> Nat] /\ rmedia \in [Recorder!Location -> Nat]
  /\ rpc \in InRecord \cup {"persist_counter", "close", "down"}
  /\ i \in Nat
  /\ rpc \in InRecord => i \in Recs
  /\ rpc \in {"persist_counter", "close"} => i = NRecords

\* The records before the i-th are whole and in the medium, those after it untouched.
OtherRecords ==
  \A r \in Recs :
    /\ r < i => /\ Sure(Name(r)) /\ Sure(Mark(r)) /\ rmem[Mark(r)] # 0
                /\ rmem[Mark(r)] = 2 => rmem[Name(r)] = 2
    /\ r > i => rmem[Mark(r)] = 0 /\ rmedia[Mark(r)] = 0 /\ Sure(Name(r))

\* How far the i-th is.
ThisRecord ==
  rpc \in InRecord =>
    /\ rmedia[Mark(i)] = 0
    /\ rpc # "persist_valid" => rmem[Mark(i)] = 0
    /\ rpc \in {"count", "name", "valid_2", "persist_valid"} => Sure(Name(i))
    /\ rpc \in {"persist_name", "valid_2"} => rmem[Name(i)] = 2
    /\ rpc = "persist_valid" => /\ rmem[Mark(i)] # 0
                                /\ rmem[Mark(i)] = 2 => rmem[Name(i)] = 2

RecordsInv ==
  /\ RecordsType
  /\ rpc # "down" => OtherRecords /\ ThisRecord
  /\ RecordsReadable

LEMMA RecordFacts ==
  /\ Header \in Recorder!Location
  /\ \A r \in Recs : /\ Name(r) \in Recorder!Location /\ Mark(r) \in Recorder!Location
                     /\ Name(r) # Header /\ Mark(r) # Header /\ Name(r)[1] = "name"
                     /\ Mark(r)[1] # "name" /\ Header[1] # "name"
  /\ \A r, s : Name(r) # Mark(s) /\ (Name(r) = Name(s) => r = s) /\ (Mark(r) = Mark(s) => r = s)
  BY DEF Header, Recorder!counter, Recorder!Location, Name, Mark, Recs

LEMMA RecordsInit == Recorder!Init => RecordsInv
  <1> SUFFICES ASSUME Recorder!Init PROVE RecordsInv  OBVIOUS
  <1> USE RecordFacts DEF Recorder!Init
  <1>1. RecordsType  BY DEF RecordsType, InRecord
  <1>2. Recorder!Valid = {}  BY DEF Recorder!Valid, Mark, Recs
  <1>3. RecordsReadable  BY <1>2 DEF RecordsReadable, Recorder!RecordsReadable
  <1> QED  BY <1>1, <1>3 DEF RecordsInv

\* While the program runs, RecordsReadable says nothing.
LEMMA RecordsRun ==
  ASSUME RecordsInv, rpc # "down", [Recorder!Next]_(Recorder!vars), rpc' # "down",
         RecordsType', OtherRecords', ThisRecord'
  PROVE  RecordsInv'
  BY DEF RecordsInv, RecordsReadable, Recorder!RecordsReadable

\* When it ends, the next reader goes by what is left.
LEMMA LeftReadable ==
  ASSUME rpc' = "down",
         \A r \in Recs : rmedia'[Mark(r)] = 2 => rmedia'[Name(r)] = 2
  PROVE  RecordsReadable'
  <1>1. Recorder!Valid' \subseteq Recs  BY DEF Recorder!Valid, Recs
  <1>2. \A r \in Recs : rmedia'[<<"valid", r>>] = 2 => rmedia'[<<"name", r>>] = 2
    BY DEF Mark, Name
  <1> QED  BY <1>1, <1>2 DEF RecordsReadable, Recorder!RecordsReadable

LEMMA RecordsStep == RecordsInv /\ [Recorder!Next]_(Recorder!vars) => RecordsInv'
  <1> SUFFICES ASSUME RecordsInv, [Recorder!Next]_(Recorder!vars) PROVE RecordsInv'  OBVIOUS
  <1> USE RecordFacts, RecordsAssumption
  <1>1. CASE UNCHANGED Recorder!vars
    BY <1>1 DEF Recorder!vars, RecordsInv, RecordsType, OtherRecords, ThisRecord,
                RecordsReadable, Recorder!RecordsReadable, Recorder!Valid, Sure
  <1>2. CASE Recorder!Start
    <2>1. /\ rmem' = [l \in Recorder!Location |-> 0] /\ rmedia' = rmem'
          /\ i' = 0 /\ rpc' = "count"
      BY <1>2 DEF Recorder!Start
    <2>2. RecordsType'  BY <2>1 DEF RecordsType, InRecord, Recs
    <2>3. OtherRecords' /\ ThisRecord'
      BY <2>1 DEF OtherRecords, ThisRecord, Sure, InRecord, Recs
    <2> QED  BY <2>1, <2>2, <2>3 DEF RecordsInv, RecordsReadable, Recorder!RecordsReadable
  <1>3. CASE Recorder!Count
    <2>1. /\ rpc = "count" /\ rpc' = "name" /\ UNCHANGED <<rmedia, i>>
          /\ rmem' = [rmem EXCEPT ![Header] = rmem[Header] + 1]
      BY <1>3 DEF Recorder!Count, Recorder!Goto, Recorder!Store, Header
    <2>2. RecordsType /\ OtherRecords /\ ThisRecord  BY <2>1 DEF RecordsInv
    <2>3. RecordsType'  BY <2>1, <2>2 DEF RecordsType, InRecord
    <2>4. OtherRecords'
      BY <2>1, <2>2 DEF OtherRecords, RecordsType, Sure, InRecord
    <2>5. ThisRecord'
      BY <2>1, <2>2 DEF ThisRecord, RecordsType, Sure, InRecord
    <2> QED  BY <2>1, <2>3, <2>4, <2>5, RecordsRun
  <1>4. CASE Recorder!StoreName
    <2>1. /\ rpc = "name" /\ rpc' = "persist_name" /\ UNCHANGED <<rmedia, i>>
          /\ rmem' = [rmem EXCEPT ![Name(i)] = 2]
      BY <1>4 DEF Recorder!StoreName, Recorder!Goto, Recorder!Store, Name
    <2>2. RecordsType /\ OtherRecords /\ ThisRecord  BY <2>1 DEF RecordsInv
    <2>3. RecordsType'  BY <2>1, <2>2 DEF RecordsType, InRecord
    <2>4. OtherRecords'
      BY <2>1, <2>2 DEF OtherRecords, RecordsType, Sure, InRecord, Recs
    <2>5. ThisRecord'
      BY <2>1, <2>2 DEF ThisRecord, RecordsType, Sure, InRecord
    <2> QED  BY <2>1, <2>3, <2>4, <2>5, RecordsRun
  <1>5. CASE Recorder!PersistName
    <2>1. /\ rpc = "persist_name" /\ rpc' = "valid_2" /\ UNCHANGED <<rmem, i>>
          /\ rmedia' = [rmedia EXCEPT ![Name(i)] = rmem[Name(i)]]
      BY <1>5 DEF Recorder!PersistName, Recorder!Goto, Recorder!Persist, Name
    <2>2. RecordsType /\ OtherRecords /\ ThisRecord  BY <2>1 DEF RecordsInv
    <2>3. RecordsType'  BY <2>1, <2>2 DEF RecordsType, InRecord
    <2>4. OtherRecords'
      BY <2>1, <2>2 DEF OtherRecords, RecordsType, Sure, InRecord, Recs
    <2>5. ThisRecord'
      BY <2>1, <2>2 DEF ThisRecord, RecordsType, Sure, InRecord
    <2> QED  BY <2>1, <2>3, <2>4, <2>5, RecordsRun
  <1>6. CASE Recorder!StoreValid2 \/ Recorder!StoreValid1
    <2>1. PICK v \in {1, 2} :
            /\ rpc \in {"name", "valid_2"} /\ (v = 2 => rpc = "valid_2")
            /\ rpc' = "persist_valid" /\ UNCHANGED <<rmedia, i>>
            /\ rmem' = [rmem EXCEPT ![Mark(i)] = v]
      BY <1>6 DEF Recorder!StoreValid2, Recorder!StoreValid1, Recorder!Goto, Recorder!Store, Mark
    <2>2. RecordsType /\ OtherRecords /\ ThisRecord  BY <2>1 DEF RecordsInv
    <2>3. RecordsType'  BY <2>1, <2>2 DEF RecordsType, InRecord
    <2>4. OtherRecords'
      BY <2>1, <2>2 DEF OtherRecords, RecordsType, Sure, InRecord, Recs
    <2>5. ThisRecord'
      BY <2>1, <2>2 DEF ThisRecord, RecordsType, Sure, InRecord
    <2> QED  BY <2>1, <2>3, <2>4, <2>5, RecordsRun
  <1>7. CASE Recorder!PersistValid
    <2>1. /\ rpc = "persist_valid" /\ i' = i + 1 /\ UNCHANGED rmem
          /\ rpc' = IF i + 1 < NRecords THEN "count" ELSE "persist_counter"
          /\ rmedia' = [rmedia EXCEPT ![Mark(i)] = rmem[Mark(i)]]
      BY <1>7 DEF Recorder!PersistValid, Recorder!Goto, Recorder!Persist, Mark
    <2>2. RecordsType /\ OtherRecords /\ ThisRecord  BY <2>1 DEF RecordsInv
    <2>3. RecordsType'  BY <2>1, <2>2 DEF RecordsType, InRecord, Recs
    <2>4. OtherRecords'
      BY <2>1, <2>2 DEF OtherRecords, ThisRecord, RecordsType, Sure, InRecord, Recs
    <2>5. ThisRecord'
      BY <2>1, <2>2 DEF OtherRecords, ThisRecord, RecordsType, Sure, InRecord, Recs
    <2> QED  BY <2>1, <2>3, <2>4, <2>5, RecordsRun
  <1>8. CASE Recorder!PersistCounter
    <2>1. /\ rpc = "persist_counter" /\ rpc' = "close" /\ UNCHANGED <<rmem, i>>
          /\ rmedia' = [rmedia EXCEPT ![Header] = rmem[Header]]
      BY <1>8 DEF Recorder!PersistCounter, Recorder!Goto, Recorder!Persist, Header
    <2>2. RecordsType /\ OtherRecords /\ ThisRecord  BY <2>1 DEF RecordsInv
    <2>3. RecordsType'  BY <2>1, <2>2 DEF RecordsType, InRecord
    <2>4. OtherRecords'
      BY <2>1, <2>2 DEF OtherRecords, RecordsType, Sure, InRecord, Recs
    <2>5. ThisRecord'
      BY <2>1, <2>2 DEF ThisRecord, RecordsType, Sure, InRecord
    <2> QED  BY <2>1, <2>3, <2>4, <2>5, RecordsRun
  <1>9. CASE Recorder!Close
    <2>1. rpc = "close" /\ rpc' = "down" /\ UNCHANGED <<rmem, rmedia, i>>
      BY <1>9 DEF Recorder!Close, Recorder!Goto
    <2>2. RecordsType /\ OtherRecords  BY <2>1 DEF RecordsInv
    <2>3. i = NRecords  BY <2>1, <2>2 DEF RecordsType
    <2>4. \A r \in Recs : rmedia[Mark(r)] = 2 => rmedia[Name(r)] = 2
      BY <2>2, <2>3 DEF OtherRecords, Sure, Recs
    <2> QED  BY <2>1, <2>2, <2>4, LeftReadable DEF RecordsInv, RecordsType, InRecord
  <1>10. CASE Recorder!PowerFails
    <2>1. rpc # "down" /\ rpc' = "down" /\ UNCHANGED i /\ rmedia' = rmem'
      BY <1>10 DEF Recorder!PowerFails
    <2>2. RecordsType /\ OtherRecords /\ ThisRecord  BY <2>1 DEF RecordsInv
    <2> DEFINE Left(lost, torn, v) ==
                 [l \in Recorder!Location |->
                    IF l = Header THEN v ELSE IF l \in torn THEN 1
                    ELSE IF l \in lost THEN rmedia[l] ELSE rmem[l]]
    <2>3. PICK lost \in SUBSET (Recorder!Unsure \ {Header}) :
            \E torn \in SUBSET {l \in lost : l[1] = "name"}, v \in rmedia[Header] .. rmem[Header] :
              rmem' = Left(lost, torn, v)
      BY <1>10 DEF Recorder!PowerFails, Header
    <2>4. PICK torn \in SUBSET {l \in lost : l[1] = "name"}, v \in rmedia[Header] .. rmem[Header] :
            rmem' = Left(lost, torn, v)
      BY <2>3
    <2>5. v \in Nat  BY <2>2 DEF RecordsType
    <2>6. \A l \in Recorder!Location :
            /\ rmem'[l] \in Nat
            /\ l # Header /\ Sure(l) => rmem'[l] = rmem[l]
            /\ l # Header /\ l[1] # "name" => rmem'[l] \in {rmem[l], rmedia[l]}
      BY <2>2, <2>4, <2>5 DEF Recorder!Unsure, Sure, RecordsType
    <2>7. RecordsType'
      BY <2>1, <2>2, <2>4, <2>6 DEF RecordsType, InRecord
    <2>8. ASSUME NEW r \in Recs
          PROVE  rmem'[Mark(r)] = 2 => rmem'[Name(r)] = 2
      <3>1. CASE r < i  BY <2>2, <2>6, <3>1 DEF OtherRecords
      <3>2. CASE r = i
        <4>1. rpc \in InRecord  BY <2>1, <2>2, <3>2 DEF RecordsType, Recs
        <4> QED  BY <2>2, <2>6, <3>2, <4>1 DEF ThisRecord, InRecord, RecordsType
      <3>3. CASE r > i
        BY <2>2, <2>6, <3>3 DEF OtherRecords
      <3> QED  BY <2>2, <3>1, <3>2, <3>3 DEF RecordsType, Recs
    <2> QED  BY <2>1, <2>2, <2>7, <2>8, LeftReadable DEF RecordsInv, RecordsType
  <1> QED
    BY <1>1, <1>2, <1>3, <1>4, <1>5, <1>6, <1>7, <1>8, <1>9, <1>10 DEF Recorder!Next

LEMMA RecordsInvHolds == Recorder!Spec => []RecordsInv
  BY RecordsInit, RecordsStep, PTL DEF Recorder!Spec

\* For every number of records: wherever the power fails, the medium holds no record that
\* is marked as named without the whole of its name.
THEOREM RecordsReadableHolds == Recorder!Spec => []RecordsReadable
  <1>1. RecordsInv => RecordsReadable  BY DEF RecordsInv
  <1> QED  BY <1>1, RecordsInvHolds, PTL

-----------------------------------------------------------------------------
(* The accounts, ppm_ch7_6 and ppm_ch7_7 *)

Pair(c) == {<<"str", c>>, <<"acc", c>>}

Creating     == {"reserve_name", "reserve_account", "persist", "publish"}
Transferring == {"set_values", "tx_add", "debit", "credit", "commit", "close"}

\* The balances before the transfer, and after it.
Before == Bank!deposit
After  == <<Bank!deposit[1] - price, Bank!deposit[2] + price>>

AccountsType ==
  /\ apc \in Creating \cup Transferring \cup {"down"}
  /\ n \in 1 .. 2 /\ price \in Nat /\ prog \in {"publish", "tx"}
  /\ balance \in [1 .. 2 -> Int] /\ kept \in [1 .. 2 -> Int]

\* What new_account has done for customer n, and for those before.
AccountsCreated ==
  apc \in Creating =>
    /\ heap = IF n = 1 THEN {} ELSE Pair(1)
    /\ heap \subseteq stable /\ undo = {}
    /\ act = IF apc = "reserve_name" THEN {}
             ELSE IF apc = "reserve_account" THEN {<<"str", n>>} ELSE Pair(n)
    /\ flushed = IF apc \in {"reserve_account", "persist"} THEN {<<"str", n>>} ELSE {}
    /\ n = 2 => balance[1] = Before[1] /\ kept[1] = Before[1]
    /\ apc \in {"persist", "publish"} => balance[n] = Before[n]
    /\ apc = "publish" => kept[n] = Before[n] /\ Pair(n) \subseteq stable

\* How far the transfer is: the undo log has the old balances until both stores are in the
\* medium.
TransferLogged ==
  apc \in Transferring =>
    /\ heap = Bank!Object /\ heap \subseteq stable /\ act = {} /\ flushed = {}
    /\ undo = IF apc \in {"debit", "credit", "commit"} THEN {<<1, Before[1]>>, <<2, Before[2]>>} ELSE {}
    /\ apc \in {"set_values", "tx_add"} => balance = Before /\ kept = Before
    /\ apc = "debit" => balance = Before
    /\ apc = "credit" => balance[1] = After[1] /\ balance[2] = Before[2]
    /\ apc = "commit" => balance = After
    /\ apc = "close" => balance = After /\ kept = After

AccountsInv == AccountsType /\ AccountsCreated /\ TransferLogged /\ PoolIsConsistent

LEMMA PairEquals ==
  ASSUME NEW f \in [1 .. 2 -> Int], NEW a \in Int, NEW b \in Int
  PROVE  f = <<a, b>> <=> f[1] = a /\ f[2] = b
  OBVIOUS

LEMMA ObjectIsPairs == Bank!Object = Pair(1) \cup Pair(2)
  BY DEF Bank!Object, Pair

LEMMA AccountsInit == Bank!Init => AccountsInv
  <1> SUFFICES ASSUME Bank!Init PROVE AccountsInv  OBVIOUS
  <1> USE DEF Bank!Init
  <1>1. AccountsType  BY PricesAssumption DEF AccountsType, Creating
  <1>2. AccountsCreated  BY DEF AccountsCreated
  <1> QED  BY <1>1, <1>2
           DEF AccountsInv, TransferLogged, Transferring, PoolIsConsistent, Bank!PoolIsConsistent

LEMMA AccountsStep == AccountsInv /\ [Bank!Next]_(Bank!vars) => AccountsInv'
  <1> SUFFICES ASSUME AccountsInv, [Bank!Next]_(Bank!vars) PROVE AccountsInv'  OBVIOUS
  <1> USE ObjectIsPairs DEF AccountsInv, AccountsType, Before, Bank!deposit, Creating, Transferring
  <1>1. CASE UNCHANGED Bank!vars
    BY <1>1 DEF Bank!vars, AccountsCreated, TransferLogged, After, PoolIsConsistent, Bank!PoolIsConsistent
  <1>2. CASE Bank!ReserveName
    BY <1>2 DEF Bank!ReserveName, AccountsCreated, TransferLogged, PoolIsConsistent, Bank!PoolIsConsistent
  <1>3. CASE Bank!ReserveAccount
    <2>1. act' = Pair(n)  BY <1>3 DEF Bank!ReserveAccount, AccountsCreated, Pair
    <2>2. AccountsType'  BY <1>3 DEF Bank!ReserveAccount
    <2>3. AccountsCreated'  BY <1>3, <2>1 DEF Bank!ReserveAccount, AccountsCreated
    <2> QED
      BY <1>3, <2>2, <2>3 DEF Bank!ReserveAccount, TransferLogged, PoolIsConsistent, Bank!PoolIsConsistent
  <1>4. CASE Bank!Persist
    <2>1. AccountsType'  BY <1>4 DEF Bank!Persist
    <2>2. AccountsCreated'  BY <1>4 DEF Bank!Persist, AccountsCreated, Pair
    <2> QED
      BY <1>4, <2>1, <2>2 DEF Bank!Persist, TransferLogged, PoolIsConsistent, Bank!PoolIsConsistent
  <1>5. CASE Bank!Publish
    <2>1. AccountsType'  BY <1>5 DEF Bank!Publish
    <2>2. CASE n = 1
      BY <1>5, <2>1, <2>2 DEF Bank!Publish, AccountsCreated, TransferLogged, PoolIsConsistent, Bank!PoolIsConsistent
    <2>3. CASE n = 2
      <3>1. balance = <<100, 50>> /\ kept = <<100, 50>>
        BY <1>5, <2>3, PairEquals DEF Bank!Publish, AccountsCreated
      <3> QED
        BY <1>5, <2>1, <2>3, <3>1
        DEF Bank!Publish, AccountsCreated, TransferLogged, PoolIsConsistent, Bank!PoolIsConsistent
    <2> QED  BY <2>2, <2>3
  <1>6. CASE Bank!SetValues
    <2>1. balance = <<100, 50>> /\ balance' = <<100 - price, 50 + price>> /\ kept' = balance'
      BY <1>6 DEF Bank!SetValues, Bank!Moved, TransferLogged
    <2>2. AccountsType'  BY <1>6, <2>1, PairEquals DEF Bank!SetValues
    <2> QED
      BY <1>6, <2>1, <2>2
      DEF Bank!SetValues, AccountsCreated, TransferLogged, After, PoolIsConsistent, Bank!PoolIsConsistent
  <1>7. CASE Bank!TxAdd
    <2>1. undo' = {<<1, 100>>, <<2, 50>>}  BY <1>7 DEF Bank!TxAdd, TransferLogged
    <2> QED
      BY <1>7, <2>1
      DEF Bank!TxAdd, AccountsCreated, TransferLogged, PoolIsConsistent, Bank!PoolIsConsistent
  <1>8. CASE Bank!Debit
    BY <1>8 DEF Bank!Debit, AccountsCreated, TransferLogged, After, PoolIsConsistent, Bank!PoolIsConsistent
  <1>9. CASE Bank!Credit
    <2>1. balance' \in [1 .. 2 -> Int]  BY <1>9 DEF Bank!Credit
    <2>2. balance'[1] = 100 - price /\ balance'[2] = 50 + price
      BY <1>9 DEF Bank!Credit, TransferLogged, After
    <2>3. balance' = <<100 - price, 50 + price>>  BY <2>1, <2>2, PairEquals
    <2> QED
      BY <1>9, <2>1, <2>3
      DEF Bank!Credit, AccountsCreated, TransferLogged, After, PoolIsConsistent, Bank!PoolIsConsistent
  <1>10. CASE Bank!TxCommit
    BY <1>10 DEF Bank!TxCommit, AccountsCreated, TransferLogged, After, PoolIsConsistent, Bank!PoolIsConsistent
  <1>11. CASE Bank!Close
    BY <1>11 DEF Bank!Close, AccountsCreated, TransferLogged, After, PoolIsConsistent, Bank!PoolIsConsistent, Pair
  <1>12. CASE Bank!Die
    BY <1>12 DEF Bank!Die, AccountsCreated, TransferLogged, PoolIsConsistent, Bank!PoolIsConsistent, Pair
  <1>13. CASE Bank!PowerFails
    <2>1. PICK lost \in SUBSET (1 .. 2) :
            balance' = [a \in 1 .. 2 |->
                          IF \E u \in undo : u[1] = a THEN (CHOOSE u \in undo : u[1] = a)[2]
                          ELSE IF a \in lost THEN kept[a] ELSE balance[a]]
      BY <1>13 DEF Bank!PowerFails
    <2>2. /\ apc # "down" /\ apc' = "down" /\ UNCHANGED <<prog, price, n, heap>>
          /\ kept' = balance' /\ stable \subseteq stable'
      BY <1>13 DEF Bank!PowerFails
    <2>3. CASE undo = {}
      <3>1. \A a \in 1 .. 2 : balance'[a] \in {kept[a], balance[a]}  BY <2>1, <2>3
      <3>2. balance' \in [1 .. 2 -> Int]  BY <2>1, <3>1
      <3>3. CASE apc \in Creating
        BY <2>2, <3>1, <3>2, <3>3
        DEF AccountsCreated, TransferLogged, PoolIsConsistent, Bank!PoolIsConsistent, Pair
      <3>4. CASE apc \in Transferring
        <4>1. balance = kept /\ balance \in {<<100, 50>>, <<100 - price, 50 + price>>}
          BY <2>3, <3>4 DEF TransferLogged, After
        <4>2. balance' = balance  BY <3>1, <3>2, <4>1
        <4> QED
          BY <2>2, <3>2, <3>4, <4>1, <4>2
          DEF AccountsCreated, TransferLogged, PoolIsConsistent, Bank!PoolIsConsistent, Pair
      <3> QED  BY <2>2, <3>3, <3>4
    <2>4. CASE undo # {}
      <3>1. undo = {<<1, 100>>, <<2, 50>>} /\ apc \in Transferring
        BY <2>2, <2>4 DEF AccountsCreated, TransferLogged
      <3>2. (CHOOSE u \in undo : u[1] = 1) = <<1, 100>>  BY <3>1
      <3>3. (CHOOSE u \in undo : u[1] = 2) = <<2, 50>>  BY <3>1
      <3>4. balance'[1] = 100 /\ balance'[2] = 50  BY <2>1, <3>1, <3>2, <3>3
      <3>5. balance' \in [1 .. 2 -> Int]  BY <2>1, <3>4
      <3>6. balance' = <<100, 50>>  BY <3>4, <3>5, PairEquals
      <3> QED
        BY <2>2, <3>1, <3>5, <3>6
        DEF AccountsCreated, TransferLogged, PoolIsConsistent, Bank!PoolIsConsistent, Pair
    <2> QED  BY <2>3, <2>4
  <1> QED
    BY <1>1, <1>2, <1>3, <1>4, <1>5, <1>6, <1>7, <1>8, <1>9, <1>10, <1>11, <1>12, <1>13
    DEF Bank!Next

\* Wherever ppm_ch7_6 or ppm_ch7_7 ends, and whatever the amount: the pool holds whole
\* accounts, their contents are in the medium, and no money was made or lost.
THEOREM PoolIsConsistentHolds == Bank!Spec => []PoolIsConsistent
  <1>1. AccountsInv => PoolIsConsistent  BY DEF AccountsInv
  <1> QED  BY <1>1, AccountsInit, AccountsStep, PTL DEF Bank!Spec
=============================================================================
