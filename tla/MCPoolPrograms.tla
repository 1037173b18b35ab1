--------------------------- MODULE MCPoolPrograms ----------------------------
(***************************************************************************)
(* The programs that keep an object pool by transactions and atomic        *)
(* allocations, for TLC.  A machine runs one of them over and over on its  *)
(* pool, the process dying wherever it likes; the pools of the others stay *)
(* new.                                                                    *)
(***************************************************************************)
EXTENDS AtomicOps

CONSTANTS
  Key, Value, Nothing, N, hash,   \* SimpleKV, SimpleKVRebuild
  k3,                             \* one of the keys
  Place, Room,                    \* PersistentQueue
  Programs, nthreads, Loops, MaxRuns  \* TxCounter

VARIABLES
  started,
  kvPool, kvUndo, kvPc, kvCall, kvReply,
  rbPool, rbUndo, rbBuckets, rbI, rbPc, rbCall, rbReply,
  quPool, quUndo, quPc, quCall, quReply, quNode, quValue,
  prog, run, mpc, tpc, j, slot, counter, tundo, reg, owner, base

KVVars      == <<kvPool, kvUndo, kvPc, kvCall, kvReply>>
RebuildVars == <<rbPool, rbUndo, rbBuckets, rbI, rbPc, rbCall, rbReply>>
QueueVars   == <<quPool, quUndo, quPc, quCall, quReply, quNode, quValue>>
CounterVars == <<prog, run, mpc, tpc, j, slot, counter, tundo, reg, owner, base>>
AllVars     == <<started, vars, KVVars, RebuildVars, QueueVars, CounterVars>>

\* There is room for so many nodes, and none of them is at the null pointer.
ASSUME RoomAssumption ==
  IsFiniteSet(Place) /\ Room = Cardinality(Place) /\ nullptr \notin Place

\* The three programs, started with some threads that all have something to do.
ASSUME CounterAssumption ==
  /\ Programs \subseteq {"plain", "mutex", "local"}
  /\ {nthreads, Loops} \subseteq Nat \ {0}

\* std::hash is a function of the key.
ASSUME HashAssumption == N \in Nat \ {0} /\ hash \in [Key -> Nat]

\* With two buckets, k3 is alone in one of them.
MCHash == [key \in Key |-> IF key = k3 THEN 4 ELSE 3]

KV == INSTANCE SimpleKV
        WITH pool <- kvPool, undo <- kvUndo, pc <- kvPc, call <- kvCall, reply <- kvReply

Rebuild == INSTANCE SimpleKVRebuild
             WITH pool <- rbPool, undo <- rbUndo, buckets <- rbBuckets, i <- rbI,
                  pc <- rbPc, call <- rbCall, reply <- rbReply

Queue == INSTANCE PersistentQueue
           WITH Address <- Place, Bound <- Room, pool <- quPool, undo <- quUndo, pc <- quPc,
                call <- quCall, reply <- quReply, node <- quNode, value <- quValue

Counter == INSTANCE TxCounter WITH pc <- tpc, undo <- tundo

MCInit ==
  /\ started \in {"atomic_ops", "kv", "rebuild", "queue", "counter"}
  /\ Init /\ KV!Init /\ Rebuild!Init /\ Queue!Init
  /\ Counter!Init
  /\ started # "counter" => prog = "plain"

AtomicOpsStep == /\ started = "atomic_ops" /\ Next
                 /\ UNCHANGED <<started, KVVars, RebuildVars, QueueVars, CounterVars>>
KVStep        == /\ started = "kv" /\ KV!Next
                 /\ UNCHANGED <<started, vars, RebuildVars, QueueVars, CounterVars>>
RebuildStep   == /\ started = "rebuild" /\ Rebuild!Next
                 /\ UNCHANGED <<started, vars, KVVars, QueueVars, CounterVars>>
QueueStep     == /\ started = "queue" /\ Queue!Next
                 /\ UNCHANGED <<started, vars, KVVars, RebuildVars, CounterVars>>
CounterStep   == /\ started = "counter" /\ Counter!Next
                 /\ UNCHANGED <<started, vars, KVVars, RebuildVars, QueueVars>>

\* A bound is reached: no run is left, or no room for another object.
Bounded == /\ \/ started = "atomic_ops" /\ ends = MaxEnds /\ heap = Address
              \/ started = "counter" /\ run = MaxRuns /\ mpc = "down"
           /\ UNCHANGED AllVars

MCNext == AtomicOpsStep \/ KVStep \/ RebuildStep \/ QueueStep \/ CounterStep \/ Bounded

MCSpec == MCInit /\ [][MCNext]_AllVars
-----------------------------------------------------------------------------
(* ppm_ch11_4: a put takes effect at one instant or not at all, wherever a *)
(* run dies between growing the values, growing the bucket and committing, *)
(* and a get answers what the puts of all runs left.                       *)
ImplementsMap == KV!ImplementsMap

(* ppm_ch11_5: the same of the store whose buckets are volatile and built  *)
(* again from the two vectors by every run.                                *)
RebuildImplementsMap == Rebuild!ImplementsMap

(* ppm_ch8_7: push and pop take effect at one instant or not at all, in    *)
(* the order of a queue, over all commands, runs and deaths.               *)
ImplementsFifo == Queue!ImplementsFifo

(* ppm_ch8_7: every node in the pool a death leaves behind is linked, once *)
(* only, and the tail is the last of them.                                 *)
NodesAreTheChain == Queue!NodesAreTheChain

(* ppm_ch14 and pmem_distributed_counter: joined threads have counted all  *)
(* increments under the mutex or in entries no two live threads share, and *)
(* some of them, none twice, with neither.                                 *)
JoinedCounts == Counter!JoinedCounts

(* pmem_distributed_counter: recovery leaves the sum of the increments     *)
(* that were committed, and of no others.                                  *)
RecoveryIsExact == Counter!RecoveryIsExact
=============================================================================
