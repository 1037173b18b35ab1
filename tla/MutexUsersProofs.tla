-------------------------- MODULE MutexUsersProofs ---------------------------
(***************************************************************************)
(* What lives behind a mutex.  SynchronizedValue, for any number of        *)
(* threads and objects: the inductive invariant, deadlock freedom and the  *)
(* refinement of AtomicCells.  The heartbeat server, for any number of     *)
(* heartbeats and any size of the window: what every phi is computed from. *)
(***************************************************************************)
EXTENDS MCMutexUsers, Sequences, WellFoundedInduction, TLAPS

(* An operation writes and reads its own objects only, and keeps to the    *)
(* values.                                                                 *)
LEMMA EffectType ==
  ASSUME NEW o \in Operations, NEW w \in [Objects -> Values]
  PROVE  /\ Effect(o, w) \in [Objects -> Values]
         /\ Result(o, w) \in Values
         /\ Touched(o) \subseteq Objects
         /\ \A x \in Objects : Effect(o, w)[x] = ValueAfter(o, w, x)
         /\ \A x \in Objects \ Touched(o) : Effect(o, w)[x] = w[x]
<1>1. o.a \in Objects /\ o.b \in Objects /\ o.value \in Values
  BY DEF Operations
<1>2. ASSUME NEW x \in Objects
      PROVE  ValueAfter(o, w, x) \in Values /\ (x \notin Touched(o) => ValueAfter(o, w, x) = w[x])
  BY <1>1, ValuesAssumption DEF ValueAfter, AtA, AtB, Touched
<1> QED
  BY <1>1, <1>2, ValuesAssumption DEF Effect, Result, Touched

(* What it does depends on its own objects only.                           *)
LEMMA EffectAgrees ==
  ASSUME NEW o \in Operations, NEW w, NEW v, \A x \in Touched(o) : w[x] = v[x]
  PROVE  /\ Result(o, w) = Result(o, v)
         /\ \A x \in Touched(o) : ValueAfter(o, w, x) = ValueAfter(o, v, x)
  BY DEF Result, ValueAfter, AtA, AtB, Touched

(* An object assigned to or swapped with itself keeps its value.           *)
LEMMA SelfEffect ==
  ASSUME NEW o \in Operations, IsSelf(o), NEW w \in [Objects -> Values]
  PROVE  Effect(o, w) = w /\ Result(o, w) = Empty
<1>1. ASSUME NEW x \in Objects
      PROVE  ValueAfter(o, w, x) = w[x]
  BY DEF IsSelf, ValueAfter, AtA
<1> QED
  BY <1>1 DEF Effect, Result, IsSelf

(* A step that writes no word and leaves the threads between the two words *)
(* alone preserves the invariant on the words.                             *)
LEMMA WordsUntouched ==
  ASSUME WordInv, word' = word,
         \A u \in Threads : /\ pc'[u] = "second" <=> pc[u] = "second"
                            /\ pc[u] = "second" => op'[u] = op[u] /\ part'[u] = part[u]
  PROVE  WordInv'
<1>1. \A u \in Threads, x \in Objects : pc[u] = "second" => (Owns(u, x)' <=> Owns(u, x))
  BY DEF Owns
<1>2. ASSUME NEW x \in Objects, \A u \in Threads : pc'[u] = "second" => ~Owns(u, x)'
      PROVE  word'[1][x] = word'[2][x]
  BY <1>1, <1>2 DEF WordInv
<1>3. ASSUME NEW u \in Threads, pc'[u] = "second"
      PROVE  /\ part'[u] = Result(op'[u], word'[2])
             /\ \A x \in Touched(op'[u]) : word'[1][x] = ValueAfter(op'[u], word'[2], x)
  BY <1>3 DEF WordInv
<1> QED
  BY <1>2, <1>3 DEF WordInv

(* One step of a thread preserves the invariant.                           *)
LEMMA IndInvStep ==
  ASSUME IndInv, NEW t \in Threads, Step(t)
  PROVE  IndInv'
<1> USE NoneAssumption
<1>0. TypeOK /\ OwnerInv /\ WordInv
  BY DEF IndInv
<1>1. ASSUME NEW o \in Operations, NEW x \in Objects, WellFormed(o), Call(t, o, x)
      PROVE  IndInv'
  <2>1. TypeOK'
    BY <1>0, <1>1 DEF TypeOK, Call, Goto
  <2>2. \A u \in Threads, y \in Objects : Owns(u, y)' <=> Owns(u, y)
    BY <1>0, <1>1 DEF TypeOK, Call, Goto, Owns
  <2>3. OwnerInv'
    BY <1>0, <1>1, <2>2 DEF TypeOK, OwnerInv, Call, Goto
  <2>4. WordInv'
    BY <1>0, <1>1, WordsUntouched DEF TypeOK, Call, Goto
  <2> QED
    BY <2>1, <2>3, <2>4 DEF IndInv
<1>2. ASSUME NEW o \in Operations, SelfCall(t, o)
      PROVE  IndInv'
  <2>1. TypeOK'
    BY <1>0, <1>2, ValuesAssumption DEF TypeOK, SelfCall
  <2>2. \A u \in Threads, y \in Objects : Owns(u, y)' <=> Owns(u, y)
    BY <1>2 DEF SelfCall, Owns
  <2>3. OwnerInv' /\ WordInv'
    BY <1>0, <1>2, <2>2 DEF OwnerInv, WordInv, SelfCall
  <2> QED
    BY <2>1, <2>3 DEF IndInv
<1>3. CASE Lock(t)
  <2>0. want[t] \in Objects /\ op[t] \in Operations /\ want[t] \in Touched(op[t])
    BY <1>0, <1>3 DEF Lock, OwnerInv, TypeOK, Touched, Operations
  <2>1. TypeOK'
    BY <1>0, <1>3, <2>0 DEF TypeOK, Lock
  <2>2. \A u \in Threads, y \in Objects :
          Owns(u, y)' <=> Owns(u, y) \/ (u = t /\ y = want[t])
    BY <1>0, <1>3, <2>0 DEF TypeOK, Lock, Owns
  <2>3. OwnerInv'
    BY <1>0, <1>3, <2>0, <2>2 DEF TypeOK, OwnerInv, Lock
  <2>4. WordInv'
    BY <1>0, <1>3, WordsUntouched DEF TypeOK, Lock
  <2> QED
    BY <2>1, <2>3, <2>4 DEF IndInv
<1>4. CASE TryLock(t)
  <2>0. want[t] \in Objects /\ op[t] \in Operations /\ want[t] \in Touched(op[t])
        /\ Touched(op[t]) \subseteq Objects
    BY <1>0, <1>4 DEF TryLock, Goto, OwnerInv, TypeOK, Touched, Operations
  <2>1. TypeOK'
    BY <1>0, <1>4 DEF TypeOK, TryLock, Goto
  <2>2. \A u \in Threads, y \in Objects :
          Owns(u, y)' <=> Owns(u, y) \/ (u = t /\ y \in Touched(op[t]))
    BY <1>0, <1>4, <2>0 DEF TypeOK, TryLock, Goto, Owns
  <2>3. OwnerInv'
    <3>1. ASSUME NEW u \in Threads, NEW y \in Objects
          PROVE  mutex'[y] = u <=> Owns(u, y)'
      BY <1>0, <1>4, <2>0, <2>2 DEF TypeOK, OwnerInv, Owns, TryLock, Goto
    <3> QED
      BY <1>0, <1>4, <3>1 DEF TypeOK, OwnerInv, TryLock, Goto
  <2>4. WordInv'
    BY <1>0, <1>4, WordsUntouched DEF TypeOK, TryLock, Goto
  <2> QED
    BY <2>1, <2>3, <2>4 DEF IndInv
<1>5. CASE TryFails(t)
  <2>0. want[t] \in Objects /\ op[t] \in Operations /\ Touched(op[t]) \subseteq Objects
    BY <1>0, <1>5 DEF TryFails, Goto, OwnerInv, TypeOK, Touched, Operations
  <2>1. TypeOK'
    BY <1>0, <1>5, <2>0 DEF TypeOK, TryFails, Goto
  <2>2. \A u \in Threads, y \in Objects :
          Owns(u, y)' <=> Owns(u, y) /\ u # t
    BY <1>0, <1>5, <2>0 DEF TypeOK, TryFails, Goto, Owns
  <2>3. OwnerInv'
    <3>1. ASSUME NEW u \in Threads, NEW y \in Objects
          PROVE  mutex'[y] = u <=> Owns(u, y)'
      BY <1>0, <1>5, <2>0, <2>2 DEF TypeOK, OwnerInv, Owns, TryFails, Goto
    <3> QED
      BY <1>0, <1>5, <2>0, <3>1 DEF TypeOK, OwnerInv, TryFails, Goto
  <2>4. WordInv'
    BY <1>0, <1>5, WordsUntouched DEF TypeOK, TryFails, Goto
  <2> QED
    BY <2>1, <2>3, <2>4 DEF IndInv
<1>6. CASE FirstWord(t)
  <2>0. /\ op[t] \in Operations /\ word[1] \in [Objects -> Values]
        /\ word[2] \in [Objects -> Values] /\ pc[t] = "first"
    BY <1>0, <1>6 DEF FirstWord, Goto, OwnerInv, TypeOK
  <2>a. /\ word'[1] = Effect(op[t], word[1]) /\ word'[2] = word[2]
        /\ part' = [part EXCEPT ![t] = Result(op[t], word[1])]
        /\ pc' = [pc EXCEPT ![t] = "second"]
        /\ mutex' = mutex /\ op' = op /\ want' = want /\ out' = out
    BY <1>0, <1>6 DEF FirstWord, Goto, TypeOK
  <2>1. TypeOK'
    BY <1>0, <1>6, <2>0, <2>a, EffectType DEF TypeOK, FirstWord
  <2>2. \A u \in Threads, y \in Objects : Owns(u, y)' <=> Owns(u, y)
    BY <1>0, <2>0, <2>a DEF TypeOK, Owns
  <2>3. OwnerInv'
    BY <1>0, <2>0, <2>a, <2>2 DEF TypeOK, OwnerInv
  <2>4. WordInv'
    <3>1. ASSUME NEW x \in Touched(op[t])
          PROVE  word[1][x] = word[2][x]
      <4>1. x \in Objects
        BY <2>0, EffectType
      <4>2. mutex[x] = t
        BY <1>0, <2>0, <4>1 DEF OwnerInv, Owns
      <4>3. \A u \in Threads : Owns(u, x) => u = t
        BY <1>0, <4>1, <4>2 DEF OwnerInv
      <4>4. \A u \in Threads : pc[u] = "second" => ~Owns(u, x)
        BY <2>0, <4>3
      <4> QED
        BY <1>0, <4>1, <4>4 DEF WordInv
    <3>2. ASSUME NEW x \in Objects, \A u \in Threads : pc'[u] = "second" => ~Owns(u, x)'
          PROVE  word'[1][x] = word'[2][x]
      <4>1. x \notin Touched(op[t])
        BY <1>0, <2>0, <2>a, <3>2 DEF Owns, TypeOK
      <4>2. \A u \in Threads : pc[u] = "second" => ~Owns(u, x)
        BY <1>0, <2>0, <2>a, <2>2, <3>2 DEF TypeOK
      <4>3. word[1][x] = word[2][x]
        BY <1>0, <4>2 DEF WordInv
      <4> QED
        BY <2>0, <2>a, <4>1, <4>3, EffectType
    <3>3. ASSUME NEW u \in Threads, pc'[u] = "second"
          PROVE  /\ part'[u] = Result(op'[u], word'[2])
                 /\ \A x \in Touched(op'[u]) : word'[1][x] = ValueAfter(op'[u], word'[2], x)
      <4>1. CASE u = t
        <5>1. /\ Result(op[t], word[1]) = Result(op[t], word[2])
              /\ \A x \in Touched(op[t]) :
                   ValueAfter(op[t], word[1], x) = ValueAfter(op[t], word[2], x)
          BY <2>0, <3>1, EffectAgrees
        <5>2. part'[t] = Result(op[t], word[1])
          BY <1>0, <2>a DEF TypeOK
        <5>3. \A x \in Touched(op[t]) : word'[1][x] = ValueAfter(op[t], word[1], x)
          BY <2>0, <2>a, EffectType
        <5> QED
          BY <2>a, <4>1, <5>1, <5>2, <5>3
      <4>2. CASE u # t
        <5>1. pc[u] = "second" /\ part'[u] = part[u]
          BY <1>0, <2>a, <3>3, <4>2 DEF TypeOK
        <5>2. op[u] \in Operations
          BY <1>0, <5>1 DEF OwnerInv
        <5>3. ASSUME NEW x \in Touched(op[u])
              PROVE  x \in Objects /\ x \notin Touched(op[t])
          <6>1. x \in Objects
            BY <2>0, <5>2, EffectType
          <6>2. mutex[x] = u
            BY <1>0, <5>1, <6>1 DEF OwnerInv, Owns
          <6>3. ~Owns(t, x)
            BY <1>0, <4>2, <6>1, <6>2 DEF OwnerInv
          <6> QED
            BY <2>0, <6>1, <6>3 DEF Owns
        <5>4. \A x \in Touched(op[u]) : word'[1][x] = word[1][x]
          BY <2>0, <2>a, <5>3, EffectType
        <5> QED
          BY <1>0, <2>a, <5>1, <5>4 DEF WordInv
      <4> QED
        BY <4>1, <4>2
    <3> QED
      BY <3>2, <3>3 DEF WordInv
  <2> QED
    BY <2>1, <2>3, <2>4 DEF IndInv
<1>7. CASE SecondWord(t)
  <2>0. /\ op[t] \in Operations /\ word[1] \in [Objects -> Values]
        /\ word[2] \in [Objects -> Values] /\ pc[t] = "second" /\ part[t] \in Values
    BY <1>0, <1>7 DEF SecondWord, Goto, OwnerInv, TypeOK
  <2>a. /\ word'[2] = Effect(op[t], word[2]) /\ word'[1] = word[1]
        /\ pc' = [pc EXCEPT ![t] = "unlock"]
        /\ mutex' = mutex /\ op' = op /\ want' = want /\ part' = part
    BY <1>0, <1>7 DEF SecondWord, Goto, TypeOK
  <2>1. TypeOK'
    <3>1. out' \in [Threads -> Values \X Values]
      BY <1>0, <1>7, <2>0, EffectType DEF TypeOK, SecondWord
    <3> QED
      BY <1>0, <1>7, <2>0, <2>a, <3>1, EffectType DEF TypeOK, SecondWord
  <2>2. \A u \in Threads, y \in Objects : Owns(u, y)' <=> Owns(u, y)
    BY <1>0, <2>0, <2>a DEF TypeOK, Owns
  <2>3. OwnerInv'
    BY <1>0, <2>0, <2>a, <2>2 DEF TypeOK, OwnerInv
  <2>4. WordInv'
    <3>2. ASSUME NEW x \in Objects, \A u \in Threads : pc'[u] = "second" => ~Owns(u, x)'
          PROVE  word'[1][x] = word'[2][x]
      <4>1. CASE x \in Touched(op[t])
        BY <1>0, <2>0, <2>a, <4>1, EffectType DEF WordInv
      <4>2. CASE x \notin Touched(op[t])
        <5>1. \A u \in Threads : pc[u] = "second" => ~Owns(u, x)
          BY <1>0, <2>0, <2>a, <2>2, <3>2, <4>2 DEF TypeOK, Owns
        <5>2. word[1][x] = word[2][x]
          BY <1>0, <5>1 DEF WordInv
        <5> QED
          BY <2>0, <2>a, <4>2, <5>2, EffectType
      <4> QED
        BY <4>1, <4>2
    <3>3. ASSUME NEW u \in Threads, pc'[u] = "second"
          PROVE  /\ part'[u] = Result(op'[u], word'[2])
                 /\ \A x \in Touched(op'[u]) : word'[1][x] = ValueAfter(op'[u], word'[2], x)
      <4>1. pc[u] = "second" /\ u # t
        BY <1>0, <2>a, <3>3 DEF TypeOK
      <4>2. op[u] \in Operations
        BY <1>0, <4>1 DEF OwnerInv
      <4>3. ASSUME NEW x \in Touched(op[u])
            PROVE  word'[2][x] = word[2][x]
        <5>1. x \in Objects
          BY <2>0, <4>2, EffectType
        <5>2. mutex[x] = u
          BY <1>0, <4>1, <5>1 DEF OwnerInv, Owns
        <5>3. ~Owns(t, x)
          BY <1>0, <4>1, <5>1, <5>2 DEF OwnerInv
        <5>4. x \notin Touched(op[t])
          BY <2>0, <5>3 DEF Owns
        <5> QED
          BY <2>0, <2>a, <5>1, <5>4, EffectType
      <4>4. /\ Result(op[u], word'[2]) = Result(op[u], word[2])
            /\ \A x \in Touched(op[u]) :
                 ValueAfter(op[u], word'[2], x) = ValueAfter(op[u], word[2], x)
        BY <4>2, <4>3, EffectAgrees
      <4> QED
        BY <1>0, <2>a, <4>1, <4>4 DEF WordInv
    <3> QED
      BY <3>2, <3>3 DEF WordInv
  <2> QED
    BY <2>1, <2>3, <2>4 DEF IndInv
<1>8. CASE Unlock(t)
  <2>0. op[t] \in Operations /\ Touched(op[t]) \subseteq Objects
    BY <1>0, <1>8 DEF Unlock, Goto, OwnerInv, Touched, Operations
  <2>1. TypeOK'
    BY <1>0, <1>8, ValuesAssumption DEF TypeOK, Unlock, Goto
  <2>2. \A u \in Threads, y \in Objects : Owns(u, y)' <=> Owns(u, y) /\ u # t
    BY <1>0, <1>8, <2>0 DEF TypeOK, Unlock, Goto, Owns
  <2>3. OwnerInv'
    <3>1. ASSUME NEW u \in Threads, NEW y \in Objects
          PROVE  mutex'[y] = u <=> Owns(u, y)'
      BY <1>0, <1>8, <2>0, <2>2 DEF TypeOK, OwnerInv, Owns, Unlock, Goto
    <3> QED
      BY <1>0, <1>8, <3>1 DEF TypeOK, OwnerInv, Unlock, Goto
  <2>4. WordInv'
    BY <1>0, <1>8, WordsUntouched DEF TypeOK, Unlock, Goto
  <2> QED
    BY <2>1, <2>3, <2>4 DEF IndInv
<1> QED
  BY <1>1, <1>2, <1>3, <1>4, <1>5, <1>6, <1>7, <1>8 DEF Step, Calls

(* The mutexes and the words of the values are consistent in every state.  *)
THEOREM SynchronizedValueInvariant == Spec => []IndInv
<1>1. Init => IndInv
  <2> SUFFICES ASSUME Init
               PROVE  IndInv
    OBVIOUS
  <2>1. TypeOK
    BY ValuesAssumption DEF Init, TypeOK
  <2>2. OwnerInv /\ WordInv
    BY NoneAssumption DEF Init, OwnerInv, WordInv, Owns
  <2> QED
    BY <2>1, <2>2 DEF IndInv
<1>2. IndInv /\ [Next]_vars => IndInv'
  <2> SUFFICES ASSUME IndInv, [Next]_vars
               PROVE  IndInv'
    OBVIOUS
  <2>1. CASE Next
    BY <2>1, IndInvStep DEF Next
  <2>2. CASE UNCHANGED vars
    BY <2>2 DEF vars, IndInv, TypeOK, OwnerInv, WordInv, Owns
  <2> QED
    BY <2>1, <2>2
<1> QED
  BY <1>1, <1>2, PTL DEF Spec

(* Assignments, swaps and the free synchronize never deadlock: a thread    *)
(* that waits for a mutex owns none, so a mutex that is waited for is      *)
(* owned by a thread that does not wait.                                   *)
THEOREM SynchronizedValueNoDeadlock == Spec => []NoCircularWait
<1>1. IndInv => NoCircularWait
  <2> SUFFICES ASSUME IndInv, NEW S \in (SUBSET Threads) \ {{}}
               PROVE  \E t \in S : ~(pc[t] = "lock" /\ mutex[want[t]] \in S)
    BY DEF NoCircularWait
  <2>0. TypeOK /\ OwnerInv
    BY DEF IndInv
  <2>1. PICK t \in S : TRUE
    OBVIOUS
  <2>2. CASE pc[t] = "lock" /\ mutex[want[t]] \in S
    <3>1. t \in Threads /\ want[t] \in Objects
      BY <2>0, <2>2 DEF OwnerInv, Touched, Operations
    <3>2. Owns(mutex[want[t]], want[t])
      BY <2>0, <2>2, <3>1 DEF OwnerInv
    <3>3. pc[mutex[want[t]]] # "lock"
      BY <3>2 DEF Owns
    <3> QED
      BY <2>2, <3>3
  <2> QED
    BY <2>1, <2>2
<1> QED
  BY <1>1, SynchronizedValueInvariant, PTL

(* Every operation is atomic: the locked, word by word operations          *)
(* implement the atomic ones.                                              *)
THEOREM SynchronizedValueAtomic == Spec => ImplementsAtomicCells
<1>0. /\ Atomic!Operations = Operations
      /\ \A o : Atomic!WellFormed(o) <=> WellFormed(o)
      /\ \A o, w : Atomic!Effect(o, w) = Effect(o, w) /\ Atomic!Result(o, w) = Result(o, w)
  BY DEF Operations, Atomic!Operations, WellFormed, Atomic!WellFormed, Binary, Atomic!Binary,
         Result, Atomic!Result, Effect, Atomic!Effect, ValueAfter, Atomic!ValueAfter,
         AtA, Atomic!AtA, AtB, Atomic!AtB
<1>1. Init => Atomic!Init
  BY DEF Init, Atomic!Init
<1>2. IndInv /\ [Next]_vars => [Atomic!Next]_Atomic!vars
  <2> SUFFICES ASSUME IndInv, [Next]_vars
               PROVE  [Atomic!Next]_Atomic!vars
    OBVIOUS
  <2>0. TypeOK /\ OwnerInv /\ WordInv
    BY DEF IndInv
  <2>1. ASSUME NEW t \in Threads, SecondWord(t)
        PROVE  Atomic!Next
    <3>1. /\ op[t] \in Operations /\ WellFormed(op[t])
          /\ part[t] = Result(op[t], word[2])
      BY <2>0, <2>1 DEF SecondWord, Goto, OwnerInv, WordInv
    <3>2. word'[2] = Effect(op[t], word[2])
      BY <2>0, <2>1 DEF SecondWord, TypeOK
    <3>3. out' = [out EXCEPT ![t] = <<Result(op[t], word[2]), Result(op[t], word[2])>>]
      BY <2>1, <3>1 DEF SecondWord
    <3>4. Atomic!Operate(t, op[t])
      BY <1>0, <3>2, <3>3 DEF Atomic!Operate
    <3> QED
      BY <1>0, <3>1, <3>4 DEF Atomic!Next
  <2>2. ASSUME NEW t \in Threads, NEW o \in Operations, WellFormed(o), SelfCall(t, o)
        PROVE  Atomic!Next
    <3>1. word[2] \in [Objects -> Values]
      BY <2>0 DEF TypeOK
    <3>2. Effect(o, word[2]) = word[2] /\ Result(o, word[2]) = Empty
      BY <2>2, <3>1, SelfEffect DEF SelfCall
    <3>3. Atomic!Operate(t, o)
      BY <1>0, <2>2, <3>2 DEF SelfCall, Atomic!Operate
    <3> QED
      BY <1>0, <2>2, <3>3 DEF Atomic!Next
  <2>3. ASSUME NEW t \in Threads,
               \/ \E o \in Operations, x \in Objects : Call(t, o, x)
               \/ Lock(t) \/ TryLock(t) \/ TryFails(t) \/ FirstWord(t) \/ Unlock(t)
        PROVE  word'[2] = word[2] /\ out' = out
    BY <2>0, <2>3 DEF Call, Lock, TryLock, TryFails, FirstWord, Unlock, TypeOK
  <2>4. CASE UNCHANGED vars
    BY <2>4 DEF vars, Atomic!vars
  <2>5. CASE Next
    <3>1. PICK t \in Threads : Step(t)
      BY <2>5 DEF Next
    <3> QED
      BY <2>1, <2>2, <2>3, <3>1 DEF Step, Calls, Atomic!vars
  <2> QED
    BY <2>4, <2>5
<1> QED
  BY <1>1, <1>2, SynchronizedValueInvariant, PTL DEF Spec, Atomic!Spec, ImplementsAtomicCells

-----------------------------------------------------------------------------
(* The sums of phi_accrual_fd::Window *)

LEMMA LeastNatural ==
  ASSUME NEW T \in SUBSET Nat, T # {}
  PROVE  \E x \in T : \A y \in T : x <= y
  <1> DEFINE Less == OpToRel(<, Nat)
  <1>1. IsWellFoundedOn(Less, Nat)  BY NatLessThanWellFounded
  <1>2. \A x, y \in Nat : x < y => <<x, y>> \in Less  BY DEF OpToRel
  <1> HIDE DEF Less
  <1>3. PICK x \in T : \A y \in T : ~(<<y, x>> \in Less)  BY <1>1, WFMin
  <1>4. ASSUME NEW y \in T PROVE x <= y
    <2>1. y \in Nat /\ x \in Nat  OBVIOUS
    <2>2. ~(y < x)  BY <1>2, <1>3, <2>1, Zenon
    <2> QED  BY <2>1, <2>2
  <1> QED  BY <1>3, <1>4

\* The function g has the sums of the first entries of s, up to the first k.
Sums(s, g, k) ==
  g \in [0 .. k -> Int] /\ g[0] = 0 /\ \A x \in 1 .. k : g[x] = g[x - 1] + s[x]

LEMMA SumsExist ==
  ASSUME NEW s \in Seq(Int)
  PROVE  \E g : Sums(s, g, Len(s))
  <1> DEFINE Bad == {k \in 0 .. Len(s) : ~ \E g : Sums(s, g, k)}
  <1>1. Len(s) \in Nat /\ \A x \in 1 .. Len(s) : s[x] \in Int  OBVIOUS
  <1>2. Bad = {}
    <2> SUFFICES ASSUME Bad # {} PROVE FALSE  OBVIOUS
    <2>1. PICK k \in Bad : \A y \in Bad : k <= y
      <3>1. Bad \in SUBSET Nat  OBVIOUS
      <3> HIDE DEF Bad
      <3> QED  BY <3>1, LeastNatural
    <2>2. CASE k = 0
      <3>1. Sums(s, [x \in 0 .. 0 |-> 0], 0)  BY DEF Sums
      <3> QED  BY <2>2, <3>1
    <2>3. CASE k # 0
      <3>1. k - 1 \in 0 .. Len(s) /\ k \in 1 .. Len(s) /\ ~(k <= k - 1)  BY <1>1, <2>3
      <3>2. PICK g : Sums(s, g, k - 1)  BY <2>1, <3>1
      <3> DEFINE h == [x \in 0 .. k |-> IF x < k THEN g[x] ELSE g[k - 1] + s[k]]
      <3>3. /\ \A x \in 0 .. k - 1 : g[x] \in Int /\ h[x] = g[x]
            /\ h[k] = g[k - 1] + s[k] /\ s[k] \in Int /\ k - 1 \in 0 .. k - 1
        BY <1>1, <3>1, <3>2 DEF Sums
      <3>4. h = [x \in 0 .. k |-> h[x]]  OBVIOUS
      <3> HIDE DEF h
      <3>5. \A x \in 0 .. k : x = k \/ x \in 0 .. k - 1  BY <3>1
      <3>6. h \in [0 .. k -> Int]
        <4>1. h[k] \in Int  BY <3>3
        <4>2. \A x \in 0 .. k : h[x] \in Int  BY <3>3, <3>5, <4>1
        <4> QED  BY <3>4, <4>2
      <3>7. h[0] = 0  BY <3>1, <3>2, <3>3 DEF Sums
      <3>8. ASSUME NEW x \in 1 .. k PROVE h[x] = h[x - 1] + s[x]
        <4>1. CASE x = k  BY <3>3, <4>1
        <4>2. CASE x # k
          <5>1. x \in 1 .. k - 1 /\ x \in 0 .. k - 1 /\ x - 1 \in 0 .. k - 1  BY <3>1, <4>2
          <5>2. g[x] = g[x - 1] + s[x]  BY <3>2, <5>1 DEF Sums
          <5> QED  BY <3>3, <5>1, <5>2
        <4> QED  BY <4>1, <4>2
      <3>9. Sums(s, h, k)  BY <3>6, <3>7, <3>8 DEF Sums
      <3> QED  BY <2>1, <3>9
    <2> QED  BY <2>2, <2>3
  <1> QED  BY <1>1, <1>2

\* There is one such function only.
LEMMA SumsAgree ==
  ASSUME NEW s \in Seq(Int), NEW g, Sums(s, g, Len(s)),
         NEW h, h[0] = 0, \A x \in 1 .. Len(s) : h[x] = h[x - 1] + s[x]
  PROVE  g[Len(s)] = h[Len(s)]
  <1> DEFINE Bad == {x \in 0 .. Len(s) : g[x] # h[x]}
  <1>1. Len(s) \in Nat  OBVIOUS
  <1>2. Bad = {}
    <2> SUFFICES ASSUME Bad # {} PROVE FALSE  OBVIOUS
    <2>1. PICK x \in Bad : \A y \in Bad : x <= y
      <3>1. Bad \in SUBSET Nat  OBVIOUS
      <3> HIDE DEF Bad
      <3> QED  BY <3>1, LeastNatural
    <2>2. x # 0  BY DEF Sums
    <2>3. x \in 1 .. Len(s) /\ x - 1 \in 0 .. Len(s) /\ ~(x <= x - 1)  BY <1>1, <2>2
    <2>4. g[x - 1] = h[x - 1]  BY <2>1, <2>3
    <2>5. g[x] = g[x - 1] + s[x] /\ h[x] = h[x - 1] + s[x]  BY <2>3 DEF Sums
    <2> QED  BY <2>1, <2>4, <2>5
  <1> QED  BY <1>1, <1>2

LEMMA TotalIs ==
  ASSUME NEW s \in Seq(Int)
  PROVE  \E g : Sums(s, g, Len(s)) /\ Server!Total(s) = g[Len(s)]
  <1> DEFINE Sum(g, x) == IF x = 0 THEN 0 ELSE g[x - 1] + s[x]
             Eq(g) == g = [x \in 0 .. Len(s) |-> Sum(g, x)]
             w == CHOOSE g : Eq(g)
  <1>1. Len(s) \in Nat  OBVIOUS
  <1>2. PICK g : Sums(s, g, Len(s))  BY SumsExist
  <1>3. Eq(g)
    <2>1. g = [x \in 0 .. Len(s) |-> g[x]]  BY <1>2 DEF Sums
    <2>2. ASSUME NEW x \in 0 .. Len(s) PROVE g[x] = Sum(g, x)
      <3>1. CASE x = 0  BY <1>2, <3>1 DEF Sums
      <3>2. CASE x # 0
        <4>1. x \in 1 .. Len(s)  BY <1>1, <3>2
        <4> QED  BY <1>2, <3>2, <4>1 DEF Sums
      <3> QED  BY <3>1, <3>2
    <2> HIDE DEF Sum
    <2> QED  BY <2>1, <2>2
  <1>4. Server!Total(s) = w[Len(s)]  BY DEF Server!Total
  <1>5. Eq(w)
    <2> HIDE DEF Eq
    <2> QED  BY <1>3
  <1> HIDE DEF w
  <1>6. /\ w[0] = 0
        /\ \A x \in 1 .. Len(s) : w[x] = w[x - 1] + s[x]
    BY <1>1, <1>5
  <1>7. g[Len(s)] = w[Len(s)]  BY <1>2, <1>6, SumsAgree
  <1> QED  BY <1>2, <1>4, <1>7

LEMMA TotalBySums ==
  ASSUME NEW s \in Seq(Int), NEW h, Sums(s, h, Len(s))
  PROVE  Server!Total(s) = h[Len(s)] /\ Server!Total(s) \in Int
  <1>1. PICK g : Sums(s, g, Len(s)) /\ Server!Total(s) = g[Len(s)]  BY TotalIs
  <1>2. g[Len(s)] = h[Len(s)]  BY <1>1, SumsAgree DEF Sums
  <1>3. Len(s) \in 0 .. Len(s)  OBVIOUS
  <1> QED  BY <1>1, <1>2, <1>3 DEF Sums

LEMMA TotalOfNone == Server!Total(<<>>) = 0
  <1>1. <<>> \in Seq(Int) /\ Len(<<>>) = 0  OBVIOUS
  <1>2. Sums(<<>>, [x \in 0 .. 0 |-> 0], 0)  BY DEF Sums
  <1> QED  BY <1>1, <1>2, TotalBySums

\* push_back and one addition.
LEMMA TotalOfAppend ==
  ASSUME NEW s \in Seq(Int), NEW d \in Int
  PROVE  Server!Total(Append(s, d)) = Server!Total(s) + d
  <1> DEFINE k == Len(s)
             t == Append(s, d)
  <1>1. PICK g : Sums(s, g, k) /\ Server!Total(s) = g[k]  BY TotalIs
  <1>2. /\ k \in Nat /\ t \in Seq(Int) /\ Len(t) = k + 1 /\ t[k + 1] = d
        /\ \A x \in 1 .. k : t[x] = s[x]
    OBVIOUS
  <1> HIDE DEF k, t
  <1> DEFINE h == [x \in 0 .. k + 1 |-> IF x <= k THEN g[x] ELSE g[k] + d]
  <1>3. /\ \A x \in 0 .. k : h[x] = g[x] /\ g[x] \in Int
        /\ h[k + 1] = g[k] + d
    BY <1>1, <1>2 DEF Sums
  <1>4. h = [x \in 0 .. k + 1 |-> h[x]]  OBVIOUS
  <1> HIDE DEF h
  <1>5. k \in 0 .. k /\ \A x \in 0 .. k + 1 : x = k + 1 \/ x \in 0 .. k  BY <1>2
  <1>6. h \in [0 .. k + 1 -> Int]
    <2>1. h[k + 1] \in Int  BY <1>3, <1>5
    <2>2. \A x \in 0 .. k + 1 : h[x] \in Int  BY <1>3, <1>5, <2>1
    <2> QED  BY <1>4, <2>2
  <1>7. h[0] = 0
    <2>1. 0 \in 0 .. k  BY <1>2
    <2> QED  BY <1>1, <1>3, <2>1 DEF Sums
  <1>8. ASSUME NEW x \in 1 .. k + 1 PROVE h[x] = h[x - 1] + t[x]
    <2>1. CASE x = k + 1
      <3>1. x - 1 = k  BY <1>2, <2>1
      <3> QED  BY <1>2, <1>3, <1>5, <2>1, <3>1
    <2>2. CASE x # k + 1
      <3>1. x \in 1 .. k /\ x \in 0 .. k /\ x - 1 \in 0 .. k  BY <1>2, <2>2
      <3>2. g[x] = g[x - 1] + s[x]  BY <1>1, <3>1 DEF Sums
      <3> QED  BY <1>2, <1>3, <3>1, <3>2
    <2> QED  BY <2>1, <2>2
  <1>9. Sums(t, h, Len(t))  BY <1>2, <1>6, <1>7, <1>8 DEF Sums
  <1>10. Server!Total(t) = h[k + 1]  BY <1>2, <1>9, TotalBySums
  <1> QED  BY <1>1, <1>3, <1>10 DEF t

\* pop_front and one subtraction.
LEMMA TotalOfTail ==
  ASSUME NEW s \in Seq(Int), s # <<>>
  PROVE  Server!Total(Tail(s)) = Server!Total(s) - Head(s)
  <1> DEFINE k == Len(s) - 1
             t == Tail(s)
  <1>1. PICK g : Sums(s, g, Len(s)) /\ Server!Total(s) = g[Len(s)]  BY TotalIs
  <1>2. /\ k \in Nat /\ t \in Seq(Int) /\ Len(t) = k /\ Len(s) = k + 1 /\ Head(s) = s[1]
        /\ \A x \in 1 .. k : t[x] = s[x + 1]
    OBVIOUS
  <1>3. s[1] \in Int  BY <1>2
  <1> HIDE DEF k, t
  <1> DEFINE h == [x \in 0 .. k |-> g[x + 1] - s[1]]
  <1>4. \A x \in 0 .. k : x + 1 \in 0 .. Len(s) /\ g[x + 1] \in Int  BY <1>1, <1>2 DEF Sums
  <1>5. h \in [0 .. k -> Int]  BY <1>3, <1>4
  <1>6. h[0] = 0
    <2>1. g[1] = g[1 - 1] + s[1] /\ g[0] = 0  BY <1>1, <1>2 DEF Sums
    <2>2. h[0] = g[0 + 1] - s[1]  BY <1>2
    <2> QED  BY <1>3, <2>1, <2>2
  <1>7. ASSUME NEW x \in 1 .. k PROVE h[x] = h[x - 1] + t[x]
    <2>1. /\ x + 1 \in 1 .. Len(s) /\ x \in 0 .. k /\ x - 1 \in 0 .. k
          /\ (x - 1) + 1 = x /\ (x + 1) - 1 = x
      BY <1>2
    <2>2. g[x + 1] = g[x] + s[x + 1]  BY <1>1, <2>1 DEF Sums
    <2>3. h[x] = g[x + 1] - s[1] /\ h[x - 1] = g[x] - s[1]  BY <2>1
    <2>4. g[x] \in Int /\ s[x + 1] \in Int  BY <1>4, <2>1
    <2> HIDE DEF h
    <2> QED  BY <1>2, <1>3, <2>2, <2>3, <2>4
  <1>8. Sums(t, h, Len(t))
    <2> HIDE DEF h
    <2> QED  BY <1>2, <1>5, <1>6, <1>7 DEF Sums
  <1>9. Server!Total(t) = h[k]
    <2> HIDE DEF h
    <2> QED  BY <1>2, <1>8, TotalBySums
  <1>10. h[k] = g[Len(s)] - s[1]  BY <1>2
  <1> HIDE DEF h
  <1> QED  BY <1>1, <1>2, <1>9, <1>10 DEF t

LEMMA SquareType == \A d \in Int : Server!pow2(d) \in Int
  BY DEF Server!pow2

\* The squares of the durations.
Squared(s) == [m \in DOMAIN s |-> Server!pow2(s[m])]

LEMMA SquaredIs ==
  ASSUME NEW s \in Seq(Int)
  PROVE  /\ Squared(s) \in Seq(Int) /\ Len(Squared(s)) = Len(s)
         /\ \A m \in 1 .. Len(s) : Squared(s)[m] = Server!pow2(s[m])
  <1>1. \A m \in 1 .. Len(s) : Server!pow2(s[m]) \in Int  BY SquareType
  <1>2. Squared(s) = [m \in 1 .. Len(s) |-> Server!pow2(s[m])]  BY DEF Squared
  <1> QED  BY <1>1, <1>2

LEMMA SquaresOfAppend ==
  ASSUME NEW s \in Seq(Int), NEW d \in Int
  PROVE  /\ Server!Squares(Append(s, d)) = Server!Squares(s) + Server!pow2(d)
         /\ Server!Squares(s) \in Int
  <1> DEFINE q == Squared(s)
             x == Server!pow2(d)
  <1>1. q \in Seq(Int) /\ x \in Int  BY SquareType, SquaredIs
  <1>2. Squared(Append(s, d)) = Append(q, x)
    <2> DEFINE f == Squared(Append(s, d))
               g == Append(q, x)
               k == Len(s)
    <2>1. k \in Nat /\ Len(q) = k /\ \A m \in 1 .. k : q[m] = Server!pow2(s[m])  BY DEF Squared
    <2> HIDE DEF q
    <2>2. f = [m \in 1 .. k + 1 |-> Server!pow2(IF m = k + 1 THEN d ELSE s[m])]  BY DEF Squared
    <2>3. /\ g \in Seq(Int) /\ Len(g) = k + 1 /\ g[k + 1] = x
          /\ \A m \in 1 .. k : g[m] = q[m]
      BY <1>1, <2>1
    <2> HIDE DEF g, k
    <2>4. g = [m \in 1 .. k + 1 |-> g[m]]  BY <2>1, <2>3
    <2>5. \A m \in 1 .. k + 1 : g[m] = Server!pow2(IF m = k + 1 THEN d ELSE s[m])
      BY <2>1, <2>3
    <2> HIDE DEF f
    <2>6. f = g  BY <2>2, <2>4, <2>5
    <2> QED  BY <2>6 DEF f, g
  <1>3. \A t : Server!Squares(t) = Server!Total(Squared(t))  BY DEF Server!Squares, Squared
  <1>4. PICK g : Sums(q, g, Len(q))  BY <1>1, SumsExist
  <1>5. Server!Total(q) \in Int  BY <1>1, <1>4, TotalBySums
  <1> HIDE DEF q, x
  <1>6. Server!Total(Append(q, x)) = Server!Total(q) + x  BY <1>1, TotalOfAppend
  <1> QED  BY <1>2, <1>3, <1>5, <1>6 DEF q, x

LEMMA SquaresOfTail ==
  ASSUME NEW s \in Seq(Int), s # <<>>
  PROVE  Server!Squares(Tail(s)) = Server!Squares(s) - Server!pow2(Head(s))
  <1> DEFINE q == Squared(s)
             k == Len(s) - 1
  <1>1. /\ q \in Seq(Int) /\ k \in Nat /\ Len(s) = k + 1 /\ Len(q) = k + 1
        /\ \A m \in 1 .. k + 1 : q[m] = Server!pow2(s[m])
    <2>1. Len(s) \in Nat /\ Len(s) # 0  OBVIOUS
    <2> QED  BY <2>1, SquaredIs
  <1> HIDE DEF k
  <1>2. q # <<>> /\ Head(q) = Server!pow2(Head(s))
    <2> HIDE DEF q
    <2>1. Head(q) = q[1] /\ Head(s) = s[1]  BY <1>1
    <2> QED  BY <1>1, <2>1
  <1>3. Squared(Tail(s)) = Tail(q)
    <2> DEFINE f == Squared(Tail(s))
               g == Tail(q)
    <2>1. f = [m \in 1 .. k |-> Server!pow2(s[m + 1])]  BY <1>1 DEF Squared
    <2> HIDE DEF q
    <2>2. g \in Seq(Int) /\ Len(g) = k /\ \A m \in 1 .. k : g[m] = q[m + 1]  BY <1>1, <1>2
    <2> HIDE DEF f, g
    <2>3. g = [m \in 1 .. k |-> g[m]]  BY <1>1, <2>2
    <2>4. \A m \in 1 .. k : g[m] = Server!pow2(s[m + 1])  BY <1>1, <2>2
    <2>5. f = g  BY <2>1, <2>3, <2>4
    <2> QED  BY <2>5 DEF f, g
  <1>4. \A t : Server!Squares(t) = Server!Total(Squared(t))  BY DEF Server!Squares, Squared
  <1> HIDE DEF q
  <1>5. Server!Total(Tail(q)) = Server!Total(q) - Head(q)  BY <1>1, <1>2, TotalOfTail
  <1> QED  BY <1>2, <1>3, <1>4, <1>5 DEF q
-----------------------------------------------------------------------------
(* The heartbeat server of thallium_failure_detector *)

\* A window that has the durations s and their sums.
Exact(s) == [durations |-> s, sum |-> Server!Total(s), sum_of_squares |-> Server!Squares(s)]

\* The window of the heartbeats before the last one, with the last interval behind it.
Longer(at) == Append(Server!Intervals(at, Len(at) - 1), at[Len(at)] - at[Len(at) - 1])

Handling == {"locked", "added", "squared"}

ServerType ==
  /\ now \in Int /\ latest \in Int /\ times \in Seq(Int) /\ printed.after \in 0 .. Len(times)
  /\ hpc \in [Heartbeat -> {"unsent", "sent", "done"} \cup Handling]
  /\ ppc \in {"loop", "locked"} /\ received_first_heartbeat \in BOOLEAN

\* The mutex is held by the handler at work or by the printing thread.
ServerLocked ==
  /\ \A h \in Heartbeat : hpc[h] \in Handling <=> mtx = {h}
  /\ ppc = "locked" <=> mtx = {"printer"}

\* How far the handler at work has taken the last interval into the window; with none at
\* work, the window is the last intervals.
WindowFollows ==
  /\ received_first_heartbeat <=> times # <<>>
  /\ received_first_heartbeat => latest = times[Len(times)]
  /\ \A h \in Heartbeat :
       /\ hpc[h] \in {"added", "squared"} => Len(times) >= 2
       /\ hpc[h] = "added" =>
            window = [durations      |-> Longer(times),
                      sum            |-> Server!Total(Longer(times)),
                      sum_of_squares |->
                        Server!Squares(Server!Intervals(times, Len(times) - 1))]
       /\ hpc[h] = "squared" => window = Exact(Longer(times))
  /\ received_first_heartbeat /\ (\A h \in Heartbeat : hpc[h] \notin {"added", "squared"}) =>
       window = Exact(Server!Intervals(times, Len(times)))

ServerInv == ServerType /\ ServerLocked /\ WindowFollows /\ PhiFromLastIntervals

\* What the two halves of Window::add and the drop do to a window with the right sums.
LEMMA WindowAdds ==
  ASSUME NEW s \in Seq(Int), NEW d \in Int
  PROVE  LET half == [durations |-> Append(s, d), sum |-> Server!Total(Append(s, d)),
                      sum_of_squares |-> Server!Squares(s)]
         IN  /\ Server!addToSum(Exact(s), d) = half
             /\ Server!addToSquares(half) = Exact(Append(s, d))
  <1> DEFINE t == Append(s, d)
             a == Server!Total(s)
             b == Server!Squares(s)
             half == [durations |-> t, sum |-> Server!Total(t), sum_of_squares |-> b]
  <1>1. Server!Total(t) = a + d /\ Server!Squares(t) = b + Server!pow2(d)
    BY TotalOfAppend, SquaresOfAppend
  <1>2. Server!Last(t) = d  BY DEF Server!Last
  <1> HIDE DEF t, a, b
  <1>3. Server!addToSum(Exact(s), d) = half
    <2> DEFINE e == a + d
               w == [durations |-> s, sum |-> a, sum_of_squares |-> b]
               r == [w EXCEPT !.durations = t]
    <2>1. Exact(s) = w  BY DEF Exact, a, b
    <2>2. Server!addToSum(w, d) = [w EXCEPT !.durations = t, !.sum = e]
      BY Zenon DEF Server!addToSum, t
    <2> HIDE DEF e
    <2>3. r = [durations |-> t, sum |-> a, sum_of_squares |-> b]  OBVIOUS
    <2>4. [w EXCEPT !.durations = t, !.sum = e] = [r EXCEPT !.sum = e]
      <3> HIDE DEF w
      <3> QED  OBVIOUS
    <2> HIDE DEF w, r
    <2>5. [r EXCEPT !.sum = e] = [durations |-> t, sum |-> e, sum_of_squares |-> b]  BY <2>3
    <2> QED  BY <1>1, <2>1, <2>2, <2>4, <2>5 DEF e
  <1>4. Server!addToSquares(half) = Exact(t)
    BY <1>1, <1>2 DEF Server!addToSquares, Exact
  <1> QED  BY <1>3, <1>4 DEF t, b

LEMMA WindowDrops ==
  ASSUME NEW t \in Seq(Int)
  PROVE  Server!dropOldest(Exact(t)) = IF Len(t) <= window_size THEN Exact(t) ELSE Exact(Tail(t))
  <1>1. CASE Len(t) <= window_size  BY <1>1 DEF Server!dropOldest, Exact
  <1>2. CASE ~(Len(t) <= window_size)
    <2>1. t # <<>>  BY <1>2, ServerAssumption
    <2>2. /\ Server!Total(Tail(t)) = Server!Total(t) - Head(t)
          /\ Server!Squares(Tail(t)) = Server!Squares(t) - Server!pow2(Head(t))
      BY <2>1, TotalOfTail, SquaresOfTail
    <2> QED  BY <1>2, <2>2 DEF Server!dropOldest, Exact
  <1> QED  BY <1>1, <1>2

\* Where the last intervals before the k-th heartbeat start.
First(k) == IF k - 1 > window_size THEN k - window_size ELSE 1

LEMMA IntervalsAre ==
  ASSUME NEW at \in Seq(Int), NEW k \in 1 .. Len(at)
  PROVE  /\ First(k) \in 1 .. k
         /\ Server!Intervals(at, k) = [m \in 1 .. k - First(k) |-> at[First(k) + m] - at[First(k) + m - 1]]
         /\ Server!Intervals(at, k) \in Seq(Int) /\ Len(Server!Intervals(at, k)) = k - First(k)
  <1> DEFINE f == First(k)
             s == Server!Intervals(at, k)
  <1>1. k \in Nat /\ f \in 1 .. k  BY ServerAssumption DEF First
  <1>2. s = [m \in 1 .. k - f |-> at[f + m] - at[f + m - 1]]  BY DEF Server!Intervals, First
  <1> HIDE DEF f, s
  <1>3. \A m \in 1 .. k - f : at[f + m] - at[f + m - 1] \in Int
    <2> SUFFICES ASSUME NEW m \in 1 .. k - f PROVE at[f + m] - at[f + m - 1] \in Int  OBVIOUS
    <2>1. f + m \in 1 .. Len(at) /\ f + m - 1 \in 1 .. Len(at)  BY <1>1
    <2>2. at[f + m] \in Int /\ at[f + m - 1] \in Int  BY <2>1
    <2> QED  BY <2>2
  <1>4. k - f \in Nat  BY <1>1
  <1> DEFINE e(m) == at[f + m] - at[f + m - 1]
  <1>5. s = [m \in 1 .. k - f |-> e(m)] /\ \A m \in 1 .. k - f : e(m) \in Int  BY <1>2, <1>3
  <1> HIDE DEF e
  <1>6. s \in Seq(Int) /\ Len(s) = k - f  BY <1>4, <1>5
  <1> QED  BY <1>1, <1>2, <1>6 DEF f, s

\* The intervals before a heartbeat do not change when there are more heartbeats.
LEMMA IntervalsKept ==
  ASSUME NEW at \in Seq(Int), NEW x \in Int, NEW k \in 1 .. Len(at)
  PROVE  Server!Intervals(Append(at, x), k) = Server!Intervals(at, k)
  <1> DEFINE f == First(k)
             more == Append(at, x)
  <1>1. /\ Len(at) \in Nat /\ more \in Seq(Int) /\ Len(more) = Len(at) + 1
        /\ \A m \in 1 .. Len(at) : more[m] = at[m]
    OBVIOUS
  <1> HIDE DEF more
  <1>2. k \in 1 .. Len(more)  BY <1>1
  <1>3. /\ f \in 1 .. k
        /\ Server!Intervals(at, k) = [m \in 1 .. k - f |-> at[f + m] - at[f + m - 1]]
        /\ Server!Intervals(more, k) = [m \in 1 .. k - f |-> more[f + m] - more[f + m - 1]]
    BY <1>1, <1>2, IntervalsAre
  <1> HIDE DEF f
  <1>4. ASSUME NEW m \in 1 .. k - f
        PROVE  more[f + m] - more[f + m - 1] = at[f + m] - at[f + m - 1]
    <2>0. f \in 1 .. k  BY <1>3
    <2>1. f + m \in 1 .. Len(at) /\ f + m - 1 \in 1 .. Len(at)  BY <1>1, <2>0
    <2> QED  BY <1>1, <2>1
  <1> QED  BY <1>3, <1>4 DEF more

\* One heartbeat more: its interval behind the others, and the oldest out if they are
\* more than window_size.
LEMMA IntervalsNext ==
  ASSUME NEW at \in Seq(Int), Len(at) >= 2, NEW t, t = Longer(at)
  PROVE  /\ t \in Seq(Int)
         /\ Server!Intervals(at, Len(at)) = IF Len(t) <= window_size THEN t ELSE Tail(t)
  <1> DEFINE k == Len(at) - 1
             f == First(k)
             s == Server!Intervals(at, k)
             d == at[k + 1] - at[k]
             l == k - f
  <1>1. k \in 1 .. Len(at) /\ Len(at) = k + 1 /\ k \in Nat  OBVIOUS
  <1>2. /\ f \in 1 .. k /\ s \in Seq(Int) /\ Len(s) = l
        /\ s = [m \in 1 .. l |-> at[f + m] - at[f + m - 1]]
    BY <1>1, IntervalsAre
  <1>3. d \in Int
    <2>1. at[k + 1] \in Int /\ at[k] \in Int  BY <1>1
    <2> QED  BY <2>1
  <1>4. t = Append(s, d)  BY <1>1 DEF Longer
  <1>5. l \in Nat  BY <1>1, <1>2
  <1>6. \A m \in 1 .. l : s[m] = at[f + m] - at[f + m - 1]  BY <1>2
  <1>7. f + (l + 1) = k + 1 /\ f + (l + 1) - 1 = k  BY <1>1, <1>2
  <1> HIDE DEF s
  <1> DEFINE e(m) == at[f + m] - at[f + m - 1]
  <1>8. e(l + 1) = d /\ \A m \in 1 .. l : s[m] = e(m)  BY <1>6, <1>7
  <1>9. /\ t \in Seq(Int) /\ Len(t) = l + 1 /\ t[l + 1] = d
        /\ \A m \in 1 .. l : t[m] = s[m]
    <2> HIDE DEF d, l
    <2> QED  BY <1>2, <1>3, <1>4, <1>5
  <1>10. \A m \in 1 .. l + 1 : t[m] = e(m)
    <2> HIDE DEF d, l, e
    <2> QED  BY <1>5, <1>8, <1>9
  <1> DEFINE g == First(k + 1)
             u == Server!Intervals(at, k + 1)
  <1>11. g \in 1 .. k + 1 /\ u = [m \in 1 .. (k + 1) - g |-> at[g + m] - at[g + m - 1]]
    <2>1. k + 1 \in 1 .. Len(at)  BY <1>1
    <2> HIDE DEF k
    <2> QED  BY <2>1, IntervalsAre
  <1>12. /\ f = (IF k - 1 > window_size THEN k - window_size ELSE 1)
         /\ g = (IF k > window_size THEN (k + 1) - window_size ELSE 1)
         /\ l = k - f /\ k >= 1 /\ f \in 1 .. k /\ k \in Nat
    <2>1. k >= 1 /\ (k + 1) - 1 = k  BY <1>1
    <2>2. g = (IF k > window_size THEN (k + 1) - window_size ELSE 1)  BY <2>1 DEF First
    <2> QED  BY <1>1, <1>2, <2>1, <2>2 DEF First
  <1> HIDE DEF f, g, l, k, u, d
  <1>13. CASE l + 1 <= window_size
    <2>1. f = 1 /\ g = 1 /\ (k + 1) - g = l + 1  BY <1>12, <1>13, ServerAssumption
    <2>2. u = [m \in 1 .. l + 1 |-> e(m)]  BY <1>11, <2>1
    <2> HIDE DEF e
    <2>3. t = [m \in 1 .. l + 1 |-> t[m]]  BY <1>5, <1>9
    <2>4. u = t  BY <1>10, <2>2, <2>3
    <2> QED  BY <1>1, <1>9, <1>13, <2>4 DEF u
  <1>14. CASE ~(l + 1 <= window_size)
    <2>1. g = f + 1 /\ (k + 1) - g = l  BY <1>12, <1>14, ServerAssumption
    <2>2. u = [m \in 1 .. l |-> e(m + 1)]
      <3>1. ASSUME NEW m \in 1 .. l PROVE g + m = f + (m + 1) /\ g + m - 1 = f + (m + 1) - 1
        <4>1. f \in Int /\ m \in Int  BY <1>12
        <4>2. \A x, y \in Int : (x + 1) + y = x + (y + 1) /\ (x + 1) + y - 1 = x + (y + 1) - 1
          OBVIOUS
        <4> QED  BY <2>1, <4>1, <4>2
      <3> QED  BY <1>11, <2>1, <3>1
    <2> HIDE DEF e
    <2> DEFINE v == Tail(t)
    <2>3. v \in Seq(Int) /\ Len(v) = l /\ \A m \in 1 .. l : v[m] = t[m + 1]  BY <1>5, <1>9
    <2> HIDE DEF v
    <2>4. v = [m \in 1 .. l |-> v[m]]  BY <1>5, <2>3
    <2>5. ASSUME NEW m \in 1 .. l PROVE v[m] = e(m + 1)
      <3>1. m + 1 \in 1 .. l + 1  BY <1>5
      <3> QED  BY <1>10, <2>3, <3>1
    <2>6. u = v  BY <2>2, <2>4, <2>5
    <2> QED  BY <1>1, <1>9, <1>14, <2>6 DEF u, v
  <1> QED  BY <1>13, <1>14

\* What is printed rests on the intervals of the window.
Rests(print, at) ==
  print.after >= 2 =>
    LET last == Server!Intervals(at, print.after)
    IN  print.from = [n |-> Len(last), sum |-> Server!Total(last), squares |-> Server!Squares(last)]

LEMMA PhiIs ==
  /\ PhiFromLastIntervals <=> Rests(printed, times)
  /\ PhiFromLastIntervals' <=> Rests(printed', times')
  BY DEF PhiFromLastIntervals, Server!PhiFromLastIntervals, Rests

LEMMA ServerStart == Server!Init => ServerInv
  <1> SUFFICES ASSUME Server!Init PROVE ServerInv  OBVIOUS
  <1> USE DEF Server!Init
  <1>1. ServerType
    <2>1. printed.after = 0 /\ times \in Seq(Int) /\ Len(times) = 0  OBVIOUS
    <2>2. printed.after \in 0 .. Len(times) /\ now \in Int /\ latest \in Int  BY <2>1
    <2>3. hpc \in [Heartbeat -> {"unsent", "sent", "done"} \cup Handling]  OBVIOUS
    <2>4. received_first_heartbeat \in BOOLEAN /\ ppc \in {"loop", "locked"}  OBVIOUS
    <2> HIDE DEF Server!Init
    <2> QED  BY <2>1, <2>2, <2>3, <2>4 DEF ServerType
  <1>2. ServerLocked  BY DEF ServerLocked, Handling
  <1>3. WindowFollows  BY DEF WindowFollows
  <1>4. PhiFromLastIntervals  BY PhiIs DEF Rests
  <1> QED  BY <1>1, <1>2, <1>3, <1>4 DEF ServerInv

\* Nobody else is in a critical section, and the mutex is free for nobody.
LEMMA HandlerAlone ==
  ASSUME ServerInv, NEW h \in Heartbeat, hpc[h] \in Handling
  PROVE  mtx = {h} /\ ppc = "loop" /\ \A other \in Heartbeat : other # h => hpc[other] \notin Handling
  <1>1. mtx = {h}  BY DEF ServerInv, ServerLocked
  <1>2. ppc # "locked"  BY <1>1, ServerAssumption DEF ServerInv, ServerLocked
  <1>3. \A other \in Heartbeat : other # h => hpc[other] \notin Handling
    BY <1>1 DEF ServerInv, ServerLocked
  <1> QED  BY <1>1, <1>2, <1>3 DEF ServerInv, ServerType

\* A handler that goes on or unlocks leaves the others where they are.
LEMMA HandlerMoves ==
  ASSUME ServerInv, NEW h \in Heartbeat, hpc[h] \in Handling, NEW to \in Handling \cup {"done"},
         hpc' = [hpc EXCEPT ![h] = to], UNCHANGED ppc,
         mtx' = IF to = "done" THEN {} ELSE mtx
  PROVE  /\ ServerLocked' /\ hpc' \in [Heartbeat -> {"unsent", "sent", "done"} \cup Handling]
         /\ hpc'[h] = to /\ \A other \in Heartbeat : other # h => hpc'[other] \notin Handling
  <1>1. /\ mtx = {h} /\ ppc = "loop"
        /\ \A other \in Heartbeat : other # h => hpc[other] \notin Handling
    BY HandlerAlone
  <1>2. /\ hpc \in [Heartbeat -> {"unsent", "sent", "done"} \cup Handling]
    BY DEF ServerInv, ServerType
  <1>3. /\ hpc' \in [Heartbeat -> {"unsent", "sent", "done"} \cup Handling]
        /\ hpc'[h] = to /\ \A other \in Heartbeat : other # h => hpc'[other] = hpc[other]
    BY <1>2
  <1>4. "done" \notin Handling  BY DEF Handling
  <1>5. ASSUME NEW g \in Heartbeat PROVE hpc'[g] \in Handling <=> mtx' = {g}
    BY <1>1, <1>3, <1>4
  <1>6. mtx' # {"printer"}  BY <1>1, ServerAssumption
  <1>7. ServerLocked'  BY <1>1, <1>5, <1>6 DEF ServerLocked
  <1> QED  BY <1>1, <1>3, <1>7

LEMMA FirstInterval == \A x \in Int : Exact(Server!Intervals(<<x>>, 1)) = Server!reset
  <1> SUFFICES ASSUME NEW x \in Int PROVE Exact(Server!Intervals(<<x>>, 1)) = Server!reset  OBVIOUS
  <1>1. Server!Intervals(<<x>>, 1) = <<>>
    <2>1. ~(1 - 1 > window_size)  BY ServerAssumption
    <2>2. 1 .. 1 - 1 = {}  OBVIOUS
    <2> QED  BY <2>1, <2>2 DEF Server!Intervals
  <1>2. Server!Squares(<<>>) = Server!Total(<<>>)
    <2>1. [m \in DOMAIN <<>> |-> Server!pow2(<<>>[m])] = <<>>  OBVIOUS
    <2> QED  BY <2>1 DEF Server!Squares
  <1> QED  BY <1>1, <1>2, TotalOfNone DEF Exact, Server!reset

\* Steps that leave the window, the heartbeats handled and what was printed alone, and
\* put no handler further in its work.
LEMMA WindowLeftAlone ==
  ASSUME ServerInv, UNCHANGED <<received_first_heartbeat, latest, window, printed, times>>,
         \A h \in Heartbeat : hpc'[h] \in {"added", "squared"} <=> hpc[h] \in {"added", "squared"},
         \A h \in Heartbeat : hpc'[h] = "added" <=> hpc[h] = "added"
  PROVE  WindowFollows' /\ PhiFromLastIntervals'
  <1>1. \A h \in Heartbeat : hpc'[h] = "squared" <=> hpc[h] = "squared"
    OBVIOUS
  <1>2. WindowFollows'  BY <1>1 DEF ServerInv, WindowFollows
  <1>3. PhiFromLastIntervals'  BY PhiIs DEF ServerInv
  <1> QED  BY <1>2, <1>3

LEMMA HandlerResetKeeps ==
  ASSUME ServerInv, NEW h \in Heartbeat, Server!HandlerReset(h)
  PROVE  ServerInv'
  <1>1. /\ hpc[h] = "locked" /\ ~received_first_heartbeat /\ received_first_heartbeat' = TRUE
        /\ window' = Server!reset /\ latest' = now /\ times' = <<now>>
        /\ mtx' = {} /\ hpc' = [hpc EXCEPT ![h] = "done"] /\ UNCHANGED <<now, ppc, printed>>
    BY DEF Server!HandlerReset, Server!Unlock
  <1>2. /\ ServerLocked' /\ hpc' \in [Heartbeat -> {"unsent", "sent", "done"} \cup Handling]
        /\ hpc'[h] = "done" /\ \A other \in Heartbeat : other # h => hpc'[other] \notin Handling
    BY <1>1, HandlerMoves DEF Handling
  <1>3. \A g \in Heartbeat : hpc'[g] \notin {"added", "squared"}  BY <1>2 DEF Handling
  <1>4. times = <<>> /\ printed.after = 0 /\ now \in Int
    <2>1. times = <<>>  BY <1>1 DEF ServerInv, WindowFollows
    <2>2. Len(times) = 0 /\ printed.after \in 0 .. Len(times) /\ now \in Int
      BY <2>1 DEF ServerInv, ServerType
    <2> QED  BY <2>1, <2>2
  <1>5. times' \in Seq(Int) /\ Len(times') = 1 /\ times'[1] = now /\ times' # <<>>
    BY <1>1, <1>4
  <1>6. ServerType'
    <2>1. printed'.after \in 0 .. Len(times')  BY <1>1, <1>4, <1>5
    <2>2. now' \in Int /\ latest' \in Int /\ ppc' \in {"loop", "locked"}
          /\ received_first_heartbeat' \in BOOLEAN
      BY <1>1, <1>4 DEF ServerInv, ServerType
    <2> QED  BY <1>2, <1>5, <2>1, <2>2 DEF ServerType
  <1>7. window' = Exact(Server!Intervals(times', Len(times')))
    BY <1>1, <1>4, <1>5, FirstInterval
  <1>8. WindowFollows'  BY <1>1, <1>3, <1>5, <1>7 DEF WindowFollows
  <1>9. PhiFromLastIntervals'  BY <1>1, <1>4, PhiIs DEF Rests
  <1> QED  BY <1>2, <1>6, <1>8, <1>9 DEF ServerInv

LEMMA HandlerAddKeeps ==
  ASSUME ServerInv, NEW h \in Heartbeat, Server!HandlerAdd(h)
  PROVE  ServerInv'
  <1> DEFINE k == Len(times)
             s == Server!Intervals(times, k)
             d == now - times[k]
  <1>1. /\ hpc[h] = "locked" /\ received_first_heartbeat
        /\ window' = Server!addToSum(window, now - latest) /\ latest' = now
        /\ times' = Append(times, now) /\ hpc' = [hpc EXCEPT ![h] = "added"]
        /\ UNCHANGED <<now, ppc, mtx, received_first_heartbeat, printed>>
    BY DEF Server!HandlerAdd
  <1>2. /\ ServerLocked' /\ hpc' \in [Heartbeat -> {"unsent", "sent", "done"} \cup Handling]
        /\ hpc'[h] = "added" /\ \A other \in Heartbeat : other # h => hpc'[other] \notin Handling
    BY <1>1, HandlerMoves DEF Handling
  <1>3. \A g \in Heartbeat : hpc[g] \notin {"added", "squared"}
    BY <1>1, HandlerAlone DEF Handling
  <1>4. /\ window = Exact(s) /\ latest = times[k] /\ times # <<>>
        /\ times \in Seq(Int) /\ now \in Int /\ printed.after \in 0 .. k
    BY <1>1, <1>3 DEF ServerInv, ServerType, WindowFollows
  <1>5. k \in Nat /\ k >= 1 /\ times[k] \in Int /\ d \in Int  BY <1>4
  <1>6. /\ times' \in Seq(Int) /\ Len(times') = k + 1 /\ times'[k + 1] = now
        /\ times'[k] = times[k] /\ times' # <<>>
    BY <1>1, <1>4, <1>5
  <1>7. s \in Seq(Int)  BY <1>4, <1>5, IntervalsAre
  <1>8. Server!Intervals(times', k) = s  BY <1>1, <1>4, <1>5, IntervalsKept
  <1>9. Longer(times') = Append(s, d)
    <2>1. Len(times') - 1 = k  BY <1>5, <1>6
    <2> HIDE DEF k, s
    <2> QED  BY <1>6, <1>8, <2>1 DEF Longer
  <1>10. window' = [durations |-> Longer(times'), sum |-> Server!Total(Longer(times')),
                    sum_of_squares |-> Server!Squares(Server!Intervals(times', Len(times') - 1))]
    <2>1. Len(times') - 1 = k  BY <1>5, <1>6
    <2>2. window' = Server!addToSum(Exact(s), d)  BY <1>1, <1>4
    <2> HIDE DEF k, s, d
    <2>3. window' = [durations |-> Append(s, d), sum |-> Server!Total(Append(s, d)),
                     sum_of_squares |-> Server!Squares(s)]
      BY <1>5, <1>7, <2>2, WindowAdds
    <2> QED  BY <1>8, <1>9, <2>1, <2>3
  <1> HIDE DEF k, s, d
  <1>11. ServerType'
    <2>1. printed'.after \in 0 .. Len(times')  BY <1>1, <1>4, <1>5, <1>6
    <2>2. now' \in Int /\ latest' \in Int  BY <1>1, <1>4
    <2>3. ppc' \in {"loop", "locked"} /\ received_first_heartbeat' \in BOOLEAN
      BY <1>1 DEF ServerInv, ServerType
    <2> QED  BY <1>2, <1>6, <2>1, <2>2, <2>3 DEF ServerType
  <1>12. WindowFollows'
    <2>1. Len(times') >= 2  BY <1>5, <1>6
    <2>2. \A g \in Heartbeat : hpc'[g] # "squared"  BY <1>2 DEF Handling
    <2>3. latest' = times'[Len(times')]  BY <1>1, <1>6
    <2> QED  BY <1>1, <1>2, <1>6, <1>10, <2>1, <2>2, <2>3 DEF WindowFollows
  <1>13. PhiFromLastIntervals'
    <2>1. Rests(printed, times)  BY PhiIs DEF ServerInv
    <2>2. printed.after >= 2 =>
            Server!Intervals(times', printed.after) = Server!Intervals(times, printed.after)
      <3> SUFFICES ASSUME printed.after >= 2
                   PROVE  Server!Intervals(times', printed.after)
                            = Server!Intervals(times, printed.after)
        OBVIOUS
      <3>1. printed.after \in 1 .. Len(times)  BY <1>4, <1>5 DEF k
      <3> QED  BY <1>1, <1>4, <3>1, IntervalsKept
    <2> QED  BY <1>1, <2>1, <2>2, PhiIs DEF Rests
  <1> QED  BY <1>2, <1>11, <1>12, <1>13 DEF ServerInv

LEMMA HandlerSquareKeeps ==
  ASSUME ServerInv, NEW h \in Heartbeat, Server!HandlerSquare(h)
  PROVE  ServerInv'
  <1> DEFINE k == Len(times)
             s == Server!Intervals(times, k - 1)
             d == times[k] - times[k - 1]
  <1>1. /\ hpc[h] = "added" /\ window' = Server!addToSquares(window)
        /\ hpc' = [hpc EXCEPT ![h] = "squared"]
        /\ UNCHANGED <<now, ppc, mtx, received_first_heartbeat, latest, printed, times>>
    BY DEF Server!HandlerSquare
  <1>2. /\ ServerLocked' /\ hpc' \in [Heartbeat -> {"unsent", "sent", "done"} \cup Handling]
        /\ hpc'[h] = "squared" /\ \A other \in Heartbeat : other # h => hpc'[other] \notin Handling
    BY <1>1, HandlerMoves DEF Handling
  <1>3. /\ k >= 2 /\ times \in Seq(Int)
        /\ window = [durations |-> Longer(times), sum |-> Server!Total(Longer(times)),
                     sum_of_squares |-> Server!Squares(s)]
    BY <1>1 DEF ServerInv, ServerType, WindowFollows
  <1>4. k \in Nat /\ k - 1 \in 1 .. Len(times)  BY <1>3
  <1>5. s \in Seq(Int)  BY <1>3, <1>4, IntervalsAre
  <1>6. d \in Int
    <2>1. times[k] \in Int /\ times[k - 1] \in Int  BY <1>3, <1>4
    <2> QED  BY <2>1
  <1>7. Longer(times) = Append(s, d)  BY DEF Longer
  <1> HIDE DEF s, d
  <1>8. window' = Exact(Longer(times))
    <2> DEFINE half == [durations |-> Append(s, d), sum |-> Server!Total(Append(s, d)),
                        sum_of_squares |-> Server!Squares(s)]
    <2>1. Server!addToSquares(half) = Exact(Append(s, d))  BY <1>5, <1>6, WindowAdds
    <2>2. window = half  BY <1>3, <1>7
    <2> HIDE DEF half
    <2> QED  BY <1>1, <1>7, <2>1, <2>2
  <1>9. ServerType'  BY <1>1, <1>2 DEF ServerInv, ServerType
  <1>10. WindowFollows'
    <2>1. \A g \in Heartbeat : hpc'[g] # "added"  BY <1>2 DEF Handling
    <2>2. received_first_heartbeat <=> times # <<>>  BY DEF ServerInv, WindowFollows
    <2>3. received_first_heartbeat => latest = times[Len(times)]  BY DEF ServerInv, WindowFollows
    <2> QED  BY <1>1, <1>2, <1>3, <1>8, <2>1, <2>2, <2>3 DEF WindowFollows
  <1>11. PhiFromLastIntervals'  BY <1>1, PhiIs DEF ServerInv
  <1> QED  BY <1>2, <1>9, <1>10, <1>11 DEF ServerInv

LEMMA HandlerDropKeeps ==
  ASSUME ServerInv, NEW h \in Heartbeat, Server!HandlerDrop(h)
  PROVE  ServerInv'
  <1>1. /\ hpc[h] = "squared" /\ window' = Server!dropOldest(window)
        /\ mtx' = {} /\ hpc' = [hpc EXCEPT ![h] = "done"]
        /\ UNCHANGED <<now, ppc, received_first_heartbeat, latest, printed, times>>
    BY DEF Server!HandlerDrop, Server!Unlock
  <1>2. /\ ServerLocked' /\ hpc' \in [Heartbeat -> {"unsent", "sent", "done"} \cup Handling]
        /\ hpc'[h] = "done" /\ \A other \in Heartbeat : other # h => hpc'[other] \notin Handling
    BY <1>1, HandlerMoves DEF Handling
  <1>3. Len(times) >= 2 /\ times \in Seq(Int) /\ window = Exact(Longer(times))
    BY <1>1 DEF ServerInv, ServerType, WindowFollows
  <1>4. window' = Exact(Server!Intervals(times, Len(times)))
    <2> DEFINE t == Longer(times)
    <2>1. /\ t \in Seq(Int)
          /\ Server!Intervals(times, Len(times)) = IF Len(t) <= window_size THEN t ELSE Tail(t)
      BY <1>3, IntervalsNext
    <2> HIDE DEF t
    <2>2. window' = IF Len(t) <= window_size THEN Exact(t) ELSE Exact(Tail(t))
      BY <1>1, <1>3, <2>1, WindowDrops DEF t
    <2> QED  BY <2>1, <2>2
  <1>5. ServerType'  BY <1>1, <1>2 DEF ServerInv, ServerType
  <1>6. WindowFollows'
    <2>1. \A g \in Heartbeat : hpc'[g] \notin {"added", "squared"}  BY <1>2 DEF Handling
    <2>2. received_first_heartbeat <=> times # <<>>  BY DEF ServerInv, WindowFollows
    <2>3. received_first_heartbeat => latest = times[Len(times)]  BY DEF ServerInv, WindowFollows
    <2> QED  BY <1>1, <1>4, <2>1, <2>2, <2>3 DEF WindowFollows
  <1>7. PhiFromLastIntervals'  BY <1>1, PhiIs DEF ServerInv
  <1> QED  BY <1>2, <1>5, <1>6, <1>7 DEF ServerInv

LEMMA PrinterPhiKeeps ==
  ASSUME ServerInv, Server!PrinterPhi
  PROVE  ServerInv'
  <1>1. /\ ppc = "locked" /\ ppc' = "loop" /\ mtx' = mtx \ {"printer"}
        /\ printed' = [from |-> Server!normalDistribution(window), after |-> Len(times)]
        /\ UNCHANGED <<now, hpc, received_first_heartbeat, latest, window, times>>
    BY DEF Server!PrinterPhi
  <1>2. mtx = {"printer"} /\ mtx' = {}  BY <1>1 DEF ServerInv, ServerLocked
  <1>3. \A g \in Heartbeat : hpc[g] \notin Handling
    BY <1>2, ServerAssumption DEF ServerInv, ServerLocked
  <1>4. ServerLocked'  BY <1>1, <1>2, <1>3 DEF ServerLocked
  <1>5. Len(times) \in Nat /\ printed'.after = Len(times)
    BY <1>1 DEF ServerInv, ServerType
  <1>6. ServerType'
    <2>1. printed'.after \in 0 .. Len(times')  BY <1>1, <1>5
    <2> QED  BY <1>1, <2>1 DEF ServerInv, ServerType
  <1>7. WindowFollows'  BY <1>1 DEF ServerInv, WindowFollows
  <1>8. PhiFromLastIntervals'
    <2> SUFFICES ASSUME printed'.after >= 2 PROVE Rests(printed', times)
      BY <1>1, PhiIs DEF Rests
    <2> DEFINE last == Server!Intervals(times, Len(times))
    <2>1. times # <<>>
      <3>1. Len(<<>>) = 0  OBVIOUS
      <3> QED  BY <1>5, <3>1
    <2>2. window = Exact(last)
      BY <1>3, <2>1 DEF ServerInv, WindowFollows, Handling
    <2> HIDE DEF last
    <2>3. Server!normalDistribution(window)
            = [n |-> Len(last), sum |-> Server!Total(last), squares |-> Server!Squares(last)]
      BY <2>2 DEF Server!normalDistribution, Exact
    <2>4. printed'.from = Server!normalDistribution(window)  BY <1>1
    <2> QED  BY <1>5, <2>3, <2>4 DEF Rests, last
  <1> QED  BY <1>4, <1>6, <1>7, <1>8 DEF ServerInv

LEMMA ServerKept == ServerInv /\ [Server!Next]_(Server!vars) => ServerInv'
  <1> SUFFICES ASSUME ServerInv, [Server!Next]_(Server!vars) PROVE ServerInv'  OBVIOUS
  <1>1. CASE Server!Clock
    <2>1. now' \in Int
      <3>1. now' \in {now - 1, now + 1} /\ now \in Int
        BY <1>1 DEF Server!Clock, ServerInv, ServerType
      <3> QED  BY <3>1
    <2>2. UNCHANGED <<hpc, ppc, mtx, received_first_heartbeat, latest, window, printed, times>>
      BY <1>1 DEF Server!Clock
    <2>3. WindowFollows' /\ PhiFromLastIntervals'  BY <2>2, WindowLeftAlone
    <2>4. ServerType' /\ ServerLocked'  BY <2>1, <2>2 DEF ServerInv, ServerType, ServerLocked
    <2> QED  BY <2>3, <2>4 DEF ServerInv
  <1>2. CASE Server!PrinterLock
    <2>1. /\ ppc = "loop" /\ ppc' = "locked" /\ mtx = {} /\ mtx' = {"printer"}
          /\ UNCHANGED <<now, hpc, received_first_heartbeat, latest, window, printed, times>>
      BY <1>2 DEF Server!PrinterLock
    <2>2. WindowFollows' /\ PhiFromLastIntervals'  BY <2>1, WindowLeftAlone
    <2>3. ServerType'  BY <2>1 DEF ServerInv, ServerType
    <2>4. ServerLocked'
      <3>1. ASSUME NEW g \in Heartbeat PROVE hpc[g] \notin Handling /\ {"printer"} # {g}
        BY <2>1, ServerAssumption DEF ServerInv, ServerLocked
      <3> QED  BY <2>1, <3>1 DEF ServerLocked
    <2> QED  BY <2>2, <2>3, <2>4 DEF ServerInv
  <1>3. ASSUME NEW h \in Heartbeat, Server!Send(h) PROVE ServerInv'
    <2>1. /\ hpc[h] = "unsent" /\ hpc' = [hpc EXCEPT ![h] = "sent"]
          /\ UNCHANGED <<now, ppc, mtx, received_first_heartbeat, latest, window, printed, times>>
      BY <1>3 DEF Server!Send
    <2>2. /\ hpc' \in [Heartbeat -> {"unsent", "sent", "done"} \cup Handling]
          /\ \A g \in Heartbeat : hpc'[g] = IF g = h THEN "sent" ELSE hpc[g]
      BY <2>1 DEF ServerInv, ServerType
    <2>3. WindowFollows' /\ PhiFromLastIntervals'  BY <2>1, <2>2, WindowLeftAlone
    <2>4. ServerType'  BY <2>1, <2>2 DEF ServerInv, ServerType
    <2>5. ServerLocked'
      <3>1. ASSUME NEW g \in Heartbeat PROVE hpc'[g] \in Handling <=> hpc[g] \in Handling
        BY <2>1, <2>2 DEF Handling
      <3> QED  BY <2>1, <3>1 DEF ServerInv, ServerLocked
    <2> QED  BY <2>3, <2>4, <2>5 DEF ServerInv
  <1>4. ASSUME NEW h \in Heartbeat, Server!HandlerLock(h) PROVE ServerInv'
    <2>1. /\ hpc[h] = "sent" /\ hpc' = [hpc EXCEPT ![h] = "locked"] /\ mtx = {} /\ mtx' = {h}
          /\ UNCHANGED <<now, ppc, received_first_heartbeat, latest, window, printed, times>>
      BY <1>4 DEF Server!HandlerLock
    <2>2. /\ hpc' \in [Heartbeat -> {"unsent", "sent", "done"} \cup Handling]
          /\ \A g \in Heartbeat : hpc'[g] = IF g = h THEN "locked" ELSE hpc[g]
      BY <2>1 DEF ServerInv, ServerType, Handling
    <2>3. WindowFollows' /\ PhiFromLastIntervals'  BY <2>1, <2>2, WindowLeftAlone
    <2>4. ServerType'  BY <2>1, <2>2 DEF ServerInv, ServerType
    <2>5. ServerLocked'
      <3>1. \A g \in Heartbeat : hpc[g] \notin Handling  BY <2>1 DEF ServerInv, ServerLocked
      <3>2. "locked" \in Handling  BY DEF Handling
      <3>3. ASSUME NEW g \in Heartbeat PROVE hpc'[g] \in Handling <=> mtx' = {g}
        BY <2>1, <2>2, <3>1, <3>2
      <3>4. ppc' # "locked" /\ mtx' # {"printer"}
        BY <2>1, ServerAssumption DEF ServerInv, ServerLocked
      <3> QED  BY <3>3, <3>4 DEF ServerLocked
    <2> QED  BY <2>3, <2>4, <2>5 DEF ServerInv
  <1>5. CASE UNCHANGED Server!vars
    <2>1. UNCHANGED <<now, hpc, ppc, mtx, received_first_heartbeat, latest, window, printed, times>>
      BY <1>5 DEF Server!vars
    <2>2. WindowFollows' /\ PhiFromLastIntervals'  BY <2>1, WindowLeftAlone
    <2> QED  BY <2>1, <2>2 DEF ServerInv, ServerType, ServerLocked
  <1> QED
    BY <1>1, <1>2, <1>3, <1>4, <1>5, HandlerResetKeeps, HandlerAddKeeps, HandlerSquareKeeps,
       HandlerDropKeeps, PrinterPhiKeeps DEF Server!Next

\* For every number of heartbeats, every window and a clock that may run backwards: from
\* the second heartbeat on, every phi printed rests on the last intervals between
\* heartbeats, whole, and never on memory that nobody initialised.
THEOREM PhiFromLastIntervalsHolds == Server!Spec => []PhiFromLastIntervals
  <1>1. ServerInv => PhiFromLastIntervals  BY DEF ServerInv
  <1> QED  BY <1>1, ServerStart, ServerKept, PTL DEF Server!Spec
=============================================================================
