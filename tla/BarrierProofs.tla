---------------------------- MODULE BarrierProofs ----------------------------
(***************************************************************************)
(* Proofs about psync::Barrier, for every number of threads, every         *)
(* constructor argument and every width of size_t.                         *)
(***************************************************************************)
EXTENDS Barrier, FiniteSetTheorems, TLAPS

(* Only Decrement changes who has entered, and it adds its own thread;     *)
(* nobody ever takes an entry back (enter, line 18).                       *)
LEMMA EnteredStep ==
  ASSUME TypeOK, NEW t \in Threads
  PROVE  /\ Decrement(t) => Entered' = Entered \cup {t} /\ t \notin Entered
         /\ Lock(t) \/ NotifyAll(t) \/ Leave(t) \/ Block(t) \/ Reacquire(t)
              \/ SpuriousWakeup(t) => Entered' = Entered
BY DEF TypeOK, Entered, Location, Decrement, Lock, NotifyAll, Leave, Block,
       Reacquire, SpuriousWakeup, Goto

LEMMA EnteredFinite ==
  ASSUME TypeOK
  PROVE  IsFiniteSet(Entered) /\ Cardinality(Entered) \in Nat
<1>1. Entered \subseteq Threads
  BY DEF Entered
<1> QED
  BY <1>1, ThreadsAssumption, FS_Subset, FS_CardinalityType

(* One step of any thread preserves the inductive invariant.               *)
LEMMA IndInvStep ==
  ASSUME IndInv, Next
  PROVE  IndInv'
<1> USE ThreadsAssumption, NThreadsAssumption
<1>0. TypeOK /\ MutexOwner /\ CounterCounts /\ NobodyLeavesEarly /\ NoLostWakeup
  BY DEF IndInv
<1>fin. IsFiniteSet(Entered) /\ Cardinality(Entered) \in Nat
  BY <1>0, EnteredFinite
<1>1. ASSUME NEW t \in Threads, Lock(t)
      PROVE  IndInv'
  <2>1. Entered' = Entered /\ Left' = Left
    BY <1>0, <1>1, EnteredStep DEF Left, Lock, Goto, TypeOK
  <2>2. TypeOK' /\ MutexOwner'
    BY <1>0, <1>1 DEF TypeOK, MutexOwner, Location, Holding, Lock, Goto
  <2>3. NoLostWakeup'
    BY <1>0, <1>1 DEF NoLostWakeup, Waiting, Lock, Goto, TypeOK
  <2> QED
    BY <1>0, <1>1, <2>1, <2>2, <2>3
    DEF IndInv, CounterCounts, NobodyLeavesEarly, Lock
<1>2. ASSUME NEW t \in Threads, Decrement(t)
      PROVE  IndInv'
  <2>1. Entered' = Entered \cup {t} /\ t \notin Entered
    BY <1>0, <1>2, EnteredStep
  <2>2. Cardinality(Entered') = Cardinality(Entered) + 1
    BY <1>fin, <2>1, FS_AddElement
  <2>3. Left' = Left
    BY <1>0, <1>2 DEF Left, Decrement, Goto, TypeOK
  <2>4. TypeOK' /\ MutexOwner'
    BY <1>0, <1>2 DEF TypeOK, MutexOwner, Location, Holding, Decrement, Goto
  <2>5. CounterCounts'
    BY <1>0, <1>2, <1>fin, <2>2 DEF CounterCounts, Decrement, TypeOK
  <2>6. NobodyLeavesEarly'
    BY <1>0, <1>fin, <2>2, <2>3 DEF NobodyLeavesEarly
  <2>7. NoLostWakeup'
    BY <1>0, <1>2 DEF NoLostWakeup, Decrement, Goto, TypeOK
  <2> QED
    BY <2>4, <2>5, <2>6, <2>7 DEF IndInv
<1>3. ASSUME NEW t \in Threads, NotifyAll(t)
      PROVE  IndInv'
  <2>1. Entered' = Entered /\ Left' = Left
    BY <1>0, <1>3, EnteredStep DEF Left, NotifyAll, TypeOK
  <2>2. TypeOK' /\ MutexOwner'
    BY <1>0, <1>3 DEF TypeOK, MutexOwner, Location, Holding, NotifyAll
  <2>3. NoLostWakeup'
    BY <1>0, <1>3 DEF NoLostWakeup, Waiting, NotifyAll, TypeOK
  <2> QED
    BY <1>0, <1>3, <2>1, <2>2, <2>3
    DEF IndInv, CounterCounts, NobodyLeavesEarly, NotifyAll
<1>4. ASSUME NEW t \in Threads, Leave(t)
      PROVE  IndInv'
  <2>1. Entered' = Entered
    BY <1>0, <1>4, EnteredStep
  <2>2. TypeOK' /\ MutexOwner'
    BY <1>0, <1>4 DEF TypeOK, MutexOwner, Location, Holding, Leave, Goto
  <2>3. Cardinality(Entered) >= NThreads
    BY <1>0, <1>4, <1>fin DEF CounterCounts, Leave
  <2>4. NoLostWakeup'
    BY <1>0, <1>4 DEF NoLostWakeup, Waiting, Leave, Goto, TypeOK
  <2> QED
    BY <1>0, <1>4, <2>1, <2>2, <2>3, <2>4
    DEF IndInv, CounterCounts, NobodyLeavesEarly, Leave
<1>5. ASSUME NEW t \in Threads, Block(t)
      PROVE  IndInv'
  <2>1. Entered' = Entered /\ Left' = Left
    BY <1>0, <1>5, EnteredStep DEF Left, Block, Goto, TypeOK
  <2>2. TypeOK' /\ MutexOwner'
    BY <1>0, <1>5 DEF TypeOK, MutexOwner, Location, Holding, Block, Goto
  <2>3. NoLostWakeup'
    BY <1>0, <1>5 DEF NoLostWakeup, Block
  <2> QED
    BY <1>0, <1>5, <2>1, <2>2, <2>3
    DEF IndInv, CounterCounts, NobodyLeavesEarly, Block
<1>6. ASSUME NEW t \in Threads, Reacquire(t)
      PROVE  IndInv'
  <2>1. Entered' = Entered /\ Left' = Left
    BY <1>0, <1>6, EnteredStep DEF Left, Reacquire, Goto, TypeOK
  <2>2. TypeOK' /\ MutexOwner'
    BY <1>0, <1>6 DEF TypeOK, MutexOwner, Location, Holding, Reacquire, Goto
  <2>3. NoLostWakeup'
    BY <1>0, <1>6 DEF NoLostWakeup, Waiting, Reacquire, Goto, TypeOK
  <2> QED
    BY <1>0, <1>6, <2>1, <2>2, <2>3
    DEF IndInv, CounterCounts, NobodyLeavesEarly, Reacquire
<1>7. ASSUME NEW t \in Threads, SpuriousWakeup(t)
      PROVE  IndInv'
  <2>1. Entered' = Entered /\ Left' = Left
    BY <1>0, <1>7, EnteredStep DEF Left, SpuriousWakeup, Goto, TypeOK
  <2>2. TypeOK' /\ MutexOwner'
    BY <1>0, <1>7 DEF TypeOK, MutexOwner, Location, Holding, SpuriousWakeup, Goto
  <2>3. NoLostWakeup'
    BY <1>0, <1>7 DEF NoLostWakeup, Waiting, SpuriousWakeup, Goto, TypeOK
  <2> QED
    BY <1>0, <1>7, <2>1, <2>2, <2>3
    DEF IndInv, CounterCounts, NobodyLeavesEarly, SpuriousWakeup
<1>8. CASE AllLeft
  BY <1>0, <1>8 DEF AllLeft, vars, IndInv, TypeOK, MutexOwner, CounterCounts,
     NobodyLeavesEarly, NoLostWakeup, Entered, Left, Waiting
<1> QED
  BY <1>1, <1>2, <1>3, <1>4, <1>5, <1>6, <1>7, <1>8 DEF Next, Step

LEMMA IndInvInit == Init => IndInv
<1> SUFFICES ASSUME Init PROVE IndInv
  OBVIOUS
<1> USE ThreadsAssumption, NThreadsAssumption
<1>1. Entered = {} /\ Left = {} /\ Waiting = {}
  BY DEF Init, Entered, Left, Waiting
<1>2. TypeOK /\ MutexOwner
  BY DEF Init, TypeOK, MutexOwner, Location, Holding
<1>3. Cardinality(Entered) = 0
  BY <1>1, FS_EmptySet
<1> QED
  BY <1>1, <1>2, <1>3
  DEF Init, IndInv, CounterCounts, NobodyLeavesEarly, NoLostWakeup

(* The inductive invariant holds in every reachable state of enter().      *)
THEOREM BarrierInvariant == Spec => []IndInv
<1>1. IndInv /\ [Next]_vars => IndInv'
  <2>1. CASE UNCHANGED vars
    BY <2>1 DEF vars, IndInv, TypeOK, MutexOwner, CounterCounts,
       NobodyLeavesEarly, NoLostWakeup, Entered, Left, Waiting
  <2> QED
    BY <2>1, IndInvStep
<1> QED
  BY <1>1, IndInvInit, PTL DEF Spec

(* Typing of the barrier's state.                                          *)
THEOREM BarrierTyping == Spec => []TypeOK
BY BarrierInvariant, PTL DEF IndInv

(* However many threads call enter(), none returns before NThreads of them *)
(* have executed the decrement.                                            *)
THEOREM BarrierSafety == Spec => []NobodyLeavesEarly
BY BarrierInvariant, PTL DEF IndInv

(* The notification after the last decrement is never lost.                *)
THEOREM BarrierNoLostWakeup == Spec => []NoLostWakeup
BY BarrierInvariant, PTL DEF IndInv

(* Used by exactly NThreads threads, as every benchmark does, enter()      *)
(* implements the abstract barrier: each of its steps is an entry, a       *)
(* departure with everybody in, or invisible.                              *)
THEOREM BarrierRefinement ==
  ASSUME Cardinality(Threads) = NThreads
  PROVE  Spec => Abstract!SafetySpec
<1> USE ThreadsAssumption, NThreadsAssumption
<1>1. Init => Abstract!Init
  BY DEF Init, Abstract!Init, Entered, Left
<1>2. IndInv /\ [Next]_vars => [Abstract!Next]_Abstract!vars
  <2> SUFFICES ASSUME IndInv, [Next]_vars
               PROVE  [Abstract!Next]_Abstract!vars
    OBVIOUS
  <2>0. TypeOK /\ MutexOwner /\ CounterCounts
    BY DEF IndInv
  <2>fin. IsFiniteSet(Entered) /\ Cardinality(Entered) \in Nat
    BY <2>0, EnteredFinite
  <2>1. ASSUME NEW t \in Threads, Decrement(t)
        PROVE  Abstract!Enter(t)
    <3>1. Left' = Left
      BY <2>0, <2>1 DEF Left, Decrement, Goto, TypeOK
    <3> QED
      BY <2>0, <2>1, <3>1, EnteredStep DEF Abstract!Enter
  <2>2. ASSUME NEW t \in Threads, Leave(t)
        PROVE  Abstract!Leave(t)
    <3>1. Cardinality(Entered) >= NThreads
      BY <2>0, <2>2, <2>fin DEF CounterCounts, Leave
    <3>2. Entered = Threads
      <4>1. Entered \subseteq Threads
        BY DEF Entered
      <4>2. Cardinality(Entered) <= Cardinality(Threads)
        BY <4>1, FS_Subset
      <4> QED
        BY <3>1, <4>1, <4>2, <2>fin, FS_Subset, FS_CardinalityType
    <3>3. Left' = Left \cup {t} /\ t \notin Left
      BY <2>0, <2>2 DEF Left, Leave, Goto, TypeOK
    <3>4. Entered' = Entered
      BY <2>0, <2>2, EnteredStep
    <3> QED
      BY <3>2, <3>3, <3>4 DEF Abstract!Leave
  <2>3. ASSUME NEW t \in Threads,
               Lock(t) \/ NotifyAll(t) \/ Block(t) \/ Reacquire(t) \/ SpuriousWakeup(t)
        PROVE  Entered' = Entered /\ Left' = Left
    <3>1. Left' = Left
      BY <2>0, <2>3 DEF Left, Lock, NotifyAll, Block, Reacquire, SpuriousWakeup,
         Goto, TypeOK
    <3> QED
      BY <2>0, <2>3, <3>1, EnteredStep
  <2>4. ASSUME UNCHANGED vars
        PROVE  Entered' = Entered /\ Left' = Left
    BY <2>4 DEF vars, Entered, Left
  <2> QED
    BY <2>1, <2>2, <2>3, <2>4 DEF Next, Step, AllLeft, Abstract!Next, Abstract!vars
<1> QED
  BY <1>1, <1>2, BarrierInvariant, PTL DEF Spec, Abstract!SafetySpec
=============================================================================
