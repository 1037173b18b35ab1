------------------------------- MODULE Barrier -------------------------------
(***************************************************************************)
(* psync::Barrier: a one-shot barrier made of a counter, a mutex and a     *)
(* condition variable.  Every statement of enter() is a step, so the       *)
(* window between the decrement and the notification, the atomic           *)
(* release-and-block of the wait, and spurious wake-ups are all visible.   *)
(***************************************************************************)
EXTENDS Integers, FiniteSets

CONSTANTS
  Threads,    \* the threads that call enter(), once each
  NThreads,   \* the constructor's argument
  WordSize,   \* size_t counts modulo this number
  NoThread    \* the mutex is free

ASSUME ThreadsAssumption  == IsFiniteSet(Threads) /\ NoThread \notin Threads
ASSUME NThreadsAssumption == /\ NThreads \in Nat \ {0}
                             /\ WordSize \in Nat
                             /\ NThreads < WordSize

VARIABLES
  nthreads,   \* nthreads_: how many threads are still missing
  mtx,        \* owner of mtx_
  pc          \* where each thread is inside enter()

vars == <<nthreads, mtx, pc>>

Location == {"outside",      \* enter() not called yet
             "locked",       \* owns mtx_, about to decrement
             "decremented",  \* has decremented, about to notify
             "test",         \* owns mtx_, about to evaluate the predicate
             "waiting",      \* blocked in cond_.wait
             "woken",        \* notified, about to take mtx_ again
             "left"}         \* enter() has returned

\* The locations at which a thread owns mtx_.
Holding == {"locked", "decremented", "test"}

\* The threads whose decrement has been executed, and those that have left.
Entered == {t \in Threads : pc[t] \notin {"outside", "locked"}}
Left    == {t \in Threads : pc[t] = "left"}
Waiting == {t \in Threads : pc[t] = "waiting"}

TypeOK == /\ nthreads \in 0 .. WordSize - 1
          /\ mtx \in Threads \cup {NoThread}
          /\ pc \in [Threads -> Location]
-----------------------------------------------------------------------------
Init == /\ nthreads = NThreads
        /\ mtx = NoThread
        /\ pc = [t \in Threads |-> "outside"]

Goto(t, l) == pc' = [pc EXCEPT ![t] = l]

\* std::unique_lock lk(mtx_)
Lock(t) == /\ pc[t] = "outside"
           /\ mtx = NoThread
           /\ mtx' = t
           /\ Goto(t, "locked")
           /\ UNCHANGED nthreads

\* nthreads_ -= 1, unsigned.
Decrement(t) == /\ pc[t] = "locked"
                /\ nthreads' = IF nthreads = 0 THEN WordSize - 1 ELSE nthreads - 1
                /\ Goto(t, "decremented")
                /\ UNCHANGED mtx

\* Mutant of NotifyAll: the notification is forgotten.
NotifyNone(t) == /\ pc[t] = "decremented"
                 /\ Goto(t, "test")
                 /\ UNCHANGED <<nthreads, mtx>>

\* cond_.notify_all(): every waiter becomes runnable and competes for mtx_.
NotifyAll(t) == /\ pc[t] = "decremented"
                /\ pc' = [u \in Threads |->
                            IF u = t THEN "test"
                            ELSE IF pc[u] = "waiting" THEN "woken"
                            ELSE pc[u]]
                /\ UNCHANGED <<nthreads, mtx>>

\* Mutant of Leave: the predicate is not evaluated again after a wake-up.
LeaveUnchecked(t) == /\ pc[t] = "test"
                     /\ mtx' = NoThread
                     /\ Goto(t, "left")
                     /\ UNCHANGED nthreads

\* The predicate holds: cond_.wait returns and lk is destroyed.
Leave(t) == /\ pc[t] = "test"
            /\ nthreads = 0
            /\ mtx' = NoThread
            /\ Goto(t, "left")
            /\ UNCHANGED nthreads

\* The predicate fails: release mtx_ and block, atomically.
Block(t) == /\ pc[t] = "test"
            /\ nthreads # 0
            /\ mtx' = NoThread
            /\ Goto(t, "waiting")
            /\ UNCHANGED nthreads

\* A woken thread re-acquires mtx_ before it evaluates the predicate again.
Reacquire(t) == /\ pc[t] = "woken"
                /\ mtx = NoThread
                /\ mtx' = t
                /\ Goto(t, "test")
                /\ UNCHANGED nthreads

\* The predicate loop exists because a wait may return without a notification.
SpuriousWakeup(t) == /\ pc[t] = "waiting"
                     /\ Goto(t, "woken")
                     /\ UNCHANGED <<nthreads, mtx>>

Step(t) == \/ Lock(t)
           \/ Decrement(t)
           \/ NotifyAll(t)
           \/ Leave(t)
           \/ Block(t)
           \/ Reacquire(t)

\* A thread whose enter() has returned goes on with its own work.
AllLeft == Left = Threads /\ UNCHANGED vars

Next == \/ \E t \in Threads : Step(t) \/ SpuriousWakeup(t)
        \/ AllLeft

Spec == Init /\ [][Next]_vars

\* Every thread keeps running.  A wait may return spuriously, but not for ever:
\* a thread that woke without end could keep mtx_ busy whenever another one
\* asks for it, and no implementation of std::condition_variable does that.
FairSpec == /\ Spec
            /\ \A t \in Threads : WF_vars(Step(t))
            /\ <>[][\A t \in Threads : ~SpuriousWakeup(t)]_vars
-----------------------------------------------------------------------------
(* No thread leaves before NThreads of them have entered, however many     *)
(* threads call enter() and however the counter wraps (enter, line 20).    *)
NobodyLeavesEarly == Left # {} => Cardinality(Entered) >= NThreads

(* No lost wake-up: once the counter has reached zero and the thread that  *)
(* brought it there has notified, no thread is blocked (lines 18-20).      *)
NoLostWakeup ==
  (nthreads = 0 /\ \A t \in Threads : pc[t] # "decremented") => Waiting = {}

(* mtx_ protects the counter: at most one thread is between taking and     *)
(* releasing it, and it is the recorded owner (lines 17-20).               *)
MutexOwner == \A t \in Threads : pc[t] \in Holding <=> mtx = t

(* The counter counts: it is the number of missing threads until it wraps. *)
CounterCounts == Cardinality(Entered) <= NThreads
                   => nthreads = NThreads - Cardinality(Entered)

\* The inductive invariant behind NobodyLeavesEarly and NoLostWakeup.
IndInv == TypeOK /\ MutexOwner /\ CounterCounts /\ NobodyLeavesEarly /\ NoLostWakeup

(* The detailed barrier is a barrier: it implements AbstractBarrier,       *)
(* safety and liveness, when exactly NThreads threads use it.              *)
Abstract == INSTANCE AbstractBarrier
              WITH Parties <- Threads, entered <- Entered, left <- Left
ImplementsBarrier == Abstract!Spec
=============================================================================
