------------------------------ MODULE AtomicOps ------------------------------
(***************************************************************************)
(* pmemobj_atomic_ops: for ever, three objects are allocated, each by an   *)
(* atomic operation that also stores its address in the root, and then     *)
(* freed in one transaction, which leaves the pointers as they are.  The   *)
(* process may die anywhere and is started again on the same pool.         *)
(***************************************************************************)
EXTENDS Naturals, FiniteSets

CONSTANTS
  Address,    \* where the pool has room for an object
  nullptr,
  MaxEnds     \* bound on the runs that have ended

VARIABLES
  heap,       \* the objects allocated in the pool
  ptr,        \* r->ptr, r->ptr2, r->ptr3
  freeing,    \* the objects the transaction has freed so far
  pc,         \* "down", "alloc" or "delete"
  k,          \* how many of the three calls of this round have been made
  ends        \* history: how many runs of the program have ended

vars == <<heap, ptr, freeing, pc, k, ends>>

Init ==
  /\ heap = {}
  /\ ptr = [i \in 1 .. 3 |-> nullptr]
  /\ freeing = {}
  /\ pc = "down" /\ k = 0
  /\ ends = 0

\* main opens the pool and goes straight into its loop: what the pointers name is not
\* looked at.
Start == pc = "down" /\ pc' = "alloc" /\ UNCHANGED <<heap, ptr, freeing, k, ends>>

\* makePersistentAtomic: pmemobj_xalloc allocates and sets the pointer at once.
Alloc ==
  /\ pc = "alloc" /\ k < 3
  /\ \E a \in Address \ heap :
       /\ heap' = heap \cup {a}
       /\ ptr' = [ptr EXCEPT ![k + 1] = a]
  /\ k' = k + 1
  /\ UNCHANGED <<freeing, pc, ends>>

\* Mutant of BeginTx: the last allocation is left out.
BeginTxEarly ==
  /\ pc = "alloc" /\ k >= 2
  /\ pc' = "delete" /\ k' = 0
  /\ UNCHANGED <<heap, ptr, freeing, ends>>

BeginTx ==
  /\ pc = "alloc" /\ k = 3
  /\ pc' = "delete" /\ k' = 0
  /\ UNCHANGED <<heap, ptr, freeing, ends>>

\* delete_persistent in the transaction; the memory is given back by the commit.
Delete ==
  /\ pc = "delete" /\ k < 3
  /\ freeing' = freeing \cup {ptr[k + 1]}
  /\ k' = k + 1
  /\ UNCHANGED <<heap, ptr, pc, ends>>

\* Mutant of Commit: the third object is not freed.
CommitTwo ==
  /\ pc = "delete" /\ k = 3
  /\ heap' = heap \ {ptr[1], ptr[2]}
  /\ freeing' = {}
  /\ pc' = "alloc" /\ k' = 0
  /\ UNCHANGED <<ptr, ends>>

Commit ==
  /\ pc = "delete" /\ k = 3
  /\ heap' = heap \ freeing
  /\ freeing' = {}
  /\ pc' = "alloc" /\ k' = 0
  /\ UNCHANGED <<ptr, ends>>

\* The process dies, or pmemobj_xalloc fails and main returns with the exception.  An
\* unfinished transaction frees nothing.
End ==
  /\ pc # "down" /\ ends < MaxEnds
  /\ ends' = ends + 1
  /\ freeing' = {}
  /\ pc' = "down" /\ k' = 0
  /\ UNCHANGED <<heap, ptr>>

Next == Start \/ Alloc \/ BeginTx \/ Delete \/ Commit \/ End

Spec == Init /\ [][Next]_vars
-----------------------------------------------------------------------------
\* The transaction frees three different objects, all of them allocated, although the
\* pointers of earlier rounds and runs stay in the root and dangle.
FreesOnlyLive ==
  pc = "delete" => /\ \A i \in 1 .. 3 : ptr[i] \in heap
                   /\ \A i, m \in 1 .. 3 : ptr[i] = ptr[m] => i = m

\* The end of a run leaks the objects of its round and no more: three of them at most.
LeakBounded == Cardinality(heap) <= 3 * (ends + 1)

=============================================================================
