-------------------------- MODULE SynchronizedValue --------------------------
(***************************************************************************)
(* range3::SynchronizedValue: values guarded by a mutex each, used by      *)
(* several threads.  A value takes two words, which are read and written   *)
(* one after the other, so that a missing lock would show as a torn value. *)
(*                                                                         *)
(* An operation on two objects goes through std::lock or std::scoped_lock, *)
(* which (external) waits for one mutex, tries the other, and on failure   *)
(* lets go of the first and begins again, with either of the two.          *)
(***************************************************************************)
EXTENDS CellOps

CONSTANTS
  Threads,
  None       \* no owner, no operation, no wish

ASSUME NoneAssumption == None \notin Threads \cup Objects \cup Operations

VARIABLES
  word,   \* value_: words 1 and 2 of every object
  mutex,  \* the owner of every mutex_
  pc,     \* where each thread is: idle, lock, try, first, second, unlock
  op,     \* the operation of each thread
  want,   \* the mutex std::lock begins with
  part,   \* the first word of its result
  out     \* the last result it was given

vars == <<word, mutex, pc, op, want, part, out>>

TypeOK ==
  /\ word \in [{1, 2} -> [Objects -> Values]]
  /\ mutex \in [Objects -> Threads \cup {None}]
  /\ pc \in [Threads -> {"idle", "lock", "try", "first", "second", "unlock"}]
  /\ op \in [Threads -> Operations \cup {None}]
  /\ want \in [Threads -> Objects \cup {None}]
  /\ part \in [Threads -> Values]
  /\ out \in [Threads -> Values \X Values]

Init ==
  /\ word = [i \in {1, 2} |-> [x \in Objects |-> Empty]]
  /\ mutex = [x \in Objects |-> None]
  /\ pc = [t \in Threads |-> "idle"]
  /\ op = [t \in Threads |-> None]
  /\ want = [t \in Threads |-> None]
  /\ part = [t \in Threads |-> Empty]
  /\ out = [t \in Threads |-> <<Empty, Empty>>]
-----------------------------------------------------------------------------
Goto(t, from, to) == pc[t] = from /\ pc' = [pc EXCEPT ![t] = to]

\* if (&rhs != this), if (this == &rhs) return
IsSelf(o) == o.kind \in {"assign", "move", "swap"} /\ o.b = o.a

\* A thread calls an operation and makes for its mutexes.
Call(t, o, x) ==
  /\ ~IsSelf(o) /\ x \in Touched(o)
  /\ Goto(t, "idle", "lock")
  /\ op' = [op EXCEPT ![t] = o]
  /\ want' = [want EXCEPT ![t] = x]
  /\ UNCHANGED <<word, mutex, part, out>>

\* An object assigned to or swapped with itself: nothing is locked or changed.
SelfCall(t, o) ==
  /\ IsSelf(o)
  /\ pc[t] = "idle"
  /\ out' = [out EXCEPT ![t] = <<Empty, Empty>>]
  /\ UNCHANGED <<word, mutex, pc, op, want, part>>

\* Mutant of Lock: only one of the two mutexes is taken.
LockOne(t) ==
  /\ Goto(t, "lock", "first")
  /\ mutex[want[t]] = None
  /\ mutex' = [mutex EXCEPT ![want[t]] = t]
  /\ UNCHANGED <<word, op, want, part, out>>

\* The lock_guard's lock(), or the first step of std::lock.
Lock(t) ==
  /\ pc[t] = "lock"
  /\ mutex[want[t]] = None
  /\ mutex' = [mutex EXCEPT ![want[t]] = t]
  /\ pc' = [pc EXCEPT ![t] = IF Touched(op[t]) = {want[t]} THEN "first" ELSE "try"]
  /\ UNCHANGED <<word, op, want, part, out>>

\* std::lock: try_lock on the other mutex succeeds ...
TryLock(t) ==
  /\ Goto(t, "try", "first")
  /\ \A y \in Touched(op[t]) \ {want[t]} : mutex[y] = None
  /\ mutex' = [y \in Objects |-> IF y \in Touched(op[t]) THEN t ELSE mutex[y]]
  /\ UNCHANGED <<word, op, want, part, out>>

\* Mutant of TryFails: nested lock_guards, which keep the first mutex.
TryFailsHolding(t) ==
  /\ Goto(t, "try", "lock")
  /\ \E y \in Touched(op[t]) \ {want[t]} :
       mutex[y] # None /\ want' = [want EXCEPT ![t] = y]
  /\ UNCHANGED <<word, mutex, op, part, out>>

\* ... or fails: the first mutex is released, and either may be next.
TryFails(t) ==
  /\ Goto(t, "try", "lock")
  /\ \E y \in Touched(op[t]) \ {want[t]} : mutex[y] # None
  /\ mutex' = [mutex EXCEPT ![want[t]] = None]
  /\ \E y \in Touched(op[t]) : want' = [want EXCEPT ![t] = y]
  /\ UNCHANGED <<word, op, part, out>>

\* The operation on the first word of the value ...
FirstWord(t) ==
  /\ Goto(t, "first", "second")
  /\ word' = [word EXCEPT ![1] = Effect(op[t], @)]
  /\ part' = [part EXCEPT ![t] = Result(op[t], word[1])]
  /\ UNCHANGED <<mutex, op, want, out>>

\* ... and on the second, which completes the result.
SecondWord(t) ==
  /\ Goto(t, "second", "unlock")
  /\ word' = [word EXCEPT ![2] = Effect(op[t], @)]
  /\ out' = [out EXCEPT ![t] = <<part[t], Result(op[t], word[2])>>]
  /\ UNCHANGED <<mutex, op, want, part>>

\* The guard or the proxies are destroyed and the operation returns.
Unlock(t) ==
  /\ Goto(t, "unlock", "idle")
  /\ mutex' = [x \in Objects |-> IF x \in Touched(op[t]) THEN None ELSE mutex[x]]
  /\ op' = [op EXCEPT ![t] = None]
  /\ want' = [want EXCEPT ![t] = None]
  /\ part' = [part EXCEPT ![t] = Empty]
  /\ UNCHANGED <<word, out>>

Calls(t) == \E o \in Operations :
              WellFormed(o) /\ (SelfCall(t, o) \/ \E x \in Objects : Call(t, o, x))

Step(t) == \/ Calls(t)
           \/ Lock(t) \/ TryLock(t) \/ TryFails(t)
           \/ FirstWord(t) \/ SecondWord(t)
           \/ Unlock(t)

Next == \E t \in Threads : Step(t)

Spec == Init /\ [][Next]_vars
-----------------------------------------------------------------------------
\* The mutexes a thread owns according to its position.
Owns(t, x) == \/ pc[t] = "try" /\ x = want[t]
              \/ pc[t] \in {"first", "second", "unlock"} /\ x \in Touched(op[t])

(* Every operation is atomic: a get never returns a mixture of two values, *)
(* nobody sees one half of a swap or of a pair written under the free      *)
(* synchronize, and no update is lost.  The second word is written last,   *)
(* so it is the value the other threads have to go by.                     *)
Atomic == INSTANCE AtomicCells WITH cell <- word[2]
ImplementsAtomicCells == Atomic!Spec

(* Operations on two objects cannot deadlock, whatever the order in which  *)
(* two threads name them: no set of threads is blocked on itself.          *)
NoCircularWait ==
  \A S \in (SUBSET Threads) \ {{}} :
    \E t \in S : ~(pc[t] = "lock" /\ mutex[want[t]] \in S)

\* The mutexes are owned by the threads that are using them.
OwnerInv == /\ \A t \in Threads, x \in Objects : mutex[x] = t <=> Owns(t, x)
            /\ \A t \in Threads :
                 /\ pc[t] # "idle" => /\ op[t] \in Operations /\ WellFormed(op[t])
                                      /\ ~IsSelf(op[t])
                 /\ pc[t] \in {"lock", "try"} => want[t] \in Touched(op[t])
                 /\ pc[t] = "try" => Touched(op[t]) # {want[t]}

\* A value is in one piece unless its owner is between the two words, and then
\* the first word is ahead by that owner's operation.
WordInv == /\ \A x \in Objects :
                (\A t \in Threads : pc[t] = "second" => ~Owns(t, x))
                  => word[1][x] = word[2][x]
           /\ \A t \in Threads : pc[t] = "second" =>
                /\ part[t] = Result(op[t], word[2])
                /\ \A x \in Touched(op[t]) : word[1][x] = ValueAfter(op[t], word[2], x)

\* The inductive invariant behind the two properties above.
IndInv == TypeOK /\ OwnerInv /\ WordInv
=============================================================================
