------------------------------ MODULE TxCounter ------------------------------
(***************************************************************************)
(* Three programs whose threads increment persistent counters in           *)
(* transactions: ppm_ch14_1 (one counter, no lock), ppm_ch14_2 (one        *)
(* counter, a mutex that is released before the transaction commits) and   *)
(* pmem_distributed_counter (an entry of an enumerable_thread_specific for *)
(* every live thread).  libpmemobj gives every thread an undo log of its   *)
(* own and no isolation: after a crash each unfinished transaction         *)
(* restores what it saw, in any order.                                     *)
(***************************************************************************)
EXTENDS Naturals

CONSTANTS
  Programs,  \* which of the programs: "plain", "mutex", "local"
  nthreads,  \* 10 in ppm_ch14
  Loops,     \* increments per thread of "local" (1000 in the code)
  MaxRuns    \* bound on the runs of the program on one pool

\* The threads, by their number i.  The entries of "local" are numbered too, and there are
\* no more of them than threads; the one counter of the other programs is entry 0.
Thread == 0 .. nthreads - 1
Entry  == 0 .. nthreads - 1

VARIABLES
  prog, run,
  mpc,       \* where main is: "down", "clear", "started", "joined"
  pc, j,     \* where each thread is, and its loop counter
  slot,      \* tls_entry: the entry each thread increments
  counter,   \* the counters in the pool
  undo,      \* the undo log of each thread: <<>> or <<old value>>
  reg,       \* the value each thread has read
  owner,     \* the thread that holds the mutex, as a set
  base       \* history: what the counters were when the threads started

vars == <<prog, run, mpc, pc, j, slot, counter, undo, reg, owner, base>>
threadVars == <<pc, j, slot, undo, reg, owner, counter>>

Rounds == IF prog = "local" THEN Loops ELSE 1

Zero == [e \in Entry |-> 0]

InFlight == {t \in Thread : undo[t] # <<>>}

Init ==
  /\ prog \in Programs /\ run = 0
  /\ mpc = "down"
  /\ pc = [t \in Thread |-> "unborn"] /\ j = [t \in Thread |-> 0]
  /\ slot = [t \in Thread |-> 0]
  /\ counter = Zero
  /\ undo = [t \in Thread |-> <<>>] /\ reg = [t \in Thread |-> 0]
  /\ owner = {}
  /\ base = counter
-----------------------------------------------------------------------------
(* main *)

\* Opens the pool.
Start ==
  /\ mpc = "down" /\ run < MaxRuns
  /\ run' = run + 1
  /\ mpc' = IF prog = "local" THEN "clear" ELSE "started"
  /\ base' = counter
  /\ pc' = [t \in Thread |-> "unborn"] /\ j' = [t \in Thread |-> 0]
  /\ slot' = [t \in Thread |-> 0]
  /\ UNCHANGED <<prog, undo, reg, owner, counter>>

\* r->counters.clear(): the entries of the run before are gone.  An entry that is not
\* there yet counts as 0, which is what local() makes it with.
Clear ==
  /\ mpc = "clear" /\ mpc' = "started"
  /\ counter' = Zero /\ base' = Zero
  /\ UNCHANGED <<prog, run, pc, j, slot, undo, reg, owner>>

\* workers.emplace_back, one after the other: the first threads may be through before the
\* last are there.
Spawn(t) ==
  /\ mpc = "started" /\ \A s \in Thread : pc[s] = "unborn" <=> s >= t
  /\ pc' = [pc EXCEPT ![t] = IF prog = "local" THEN "local" ELSE "begin"]
  /\ UNCHANGED <<prog, run, mpc, j, slot, undo, reg, owner, counter, base>>

Join ==
  /\ mpc = "started" /\ \A t \in Thread : pc[t] = "done"
  /\ mpc' = "joined"
  /\ UNCHANGED <<prog, run, threadVars, base>>

Close == mpc = "joined" /\ mpc' = "down" /\ UNCHANGED <<prog, run, threadVars, base>>
-----------------------------------------------------------------------------
(* The threads *)

\* A thread keeps its entry from local() until it exits.
Holds(t) == pc[t] \notin {"unborn", "local", "done"}

\* Mutant of Local: an entry that another live thread has.
LocalTaken(t) ==
  /\ pc[t] = "local"
  /\ \E e \in Entry : slot' = [slot EXCEPT ![t] = e]
  /\ pc' = [pc EXCEPT ![t] = "begin"]
  /\ UNCHANGED <<prog, run, mpc, j, undo, reg, owner, counter, base>>

\* r->counters.local(): any entry that no live thread has, be it new or left by a thread
\* that has exited.
Local(t) ==
  /\ pc[t] = "local"
  /\ \E e \in Entry : /\ \A s \in Thread : Holds(s) => slot[s] # e
                      /\ slot' = [slot EXCEPT ![t] = e]
  /\ pc' = [pc EXCEPT ![t] = "begin"]
  /\ UNCHANGED <<prog, run, mpc, j, undo, reg, owner, counter, base>>

\* Mutant of Begin: the mutex is not taken.
BeginUnlocked(t) ==
  /\ pc[t] = "begin"
  /\ pc' = [pc EXCEPT ![t] = "snapshot"]
  /\ UNCHANGED <<prog, run, mpc, j, slot, counter, undo, reg, owner, base>>

\* The transaction starts; ppm_ch14_2 waits for the mutex inside it.
Begin(t) ==
  /\ pc[t] = "begin"
  /\ prog = "mutex" => owner = {}
  /\ owner' = IF prog = "mutex" THEN {t} ELSE owner
  /\ pc' = [pc EXCEPT ![t] = "snapshot"]
  /\ UNCHANGED <<prog, run, mpc, j, slot, counter, undo, reg, base>>

\* get_rw, or p<>::operator++: the old value goes into the undo log ...
Snapshot(t) ==
  /\ pc[t] = "snapshot"
  /\ undo' = [undo EXCEPT ![t] = <<counter[slot[t]]>>]
  /\ pc' = [pc EXCEPT ![t] = "load"]
  /\ UNCHANGED <<prog, run, mpc, j, slot, counter, reg, owner, base>>

\* ... and the increment is a load and a store.
Load(t) ==
  /\ pc[t] = "load"
  /\ reg' = [reg EXCEPT ![t] = counter[slot[t]]]
  /\ pc' = [pc EXCEPT ![t] = "store"]
  /\ UNCHANGED <<prog, run, mpc, j, slot, counter, undo, owner, base>>

\* The lambda returns: unique_lock gives the mutex back.
Store(t) ==
  /\ pc[t] = "store"
  /\ counter' = [counter EXCEPT ![slot[t]] = reg[t] + 1]
  /\ owner' = owner \ {t}
  /\ pc' = [pc EXCEPT ![t] = "commit"]
  /\ UNCHANGED <<prog, run, mpc, j, slot, undo, reg, base>>

\* The log is dropped.  With its last increment a thread exits, and gives its entry back.
Commit(t) ==
  /\ pc[t] = "commit"
  /\ undo' = [undo EXCEPT ![t] = <<>>]
  /\ j' = [j EXCEPT ![t] = @ + 1]
  /\ pc' = [pc EXCEPT ![t] = IF j'[t] < Rounds THEN "begin" ELSE "done"]
  /\ UNCHANGED <<prog, run, mpc, slot, counter, reg, owner, base>>
-----------------------------------------------------------------------------
\* What recovery may leave of the counters: of several logs for one counter, the one it
\* applies last counts.
Recoveries ==
  {c \in [Entry -> {counter[e] : e \in Entry} \cup {undo[t][1] : t \in InFlight}] :
     \A e \in Entry :
       LET logs == {undo[t][1] : t \in {s \in InFlight : slot[s] = e}}
       IN  c[e] \in (IF logs = {} THEN {counter[e]} ELSE logs)}

\* The process dies; that includes an exception in a thread, which nobody catches.
Crash ==
  /\ mpc # "down"
  /\ counter' \in Recoveries
  /\ undo' = [t \in Thread |-> <<>>]
  /\ owner' = {}                     \* a pmem::obj::mutex is free again in the next run
  /\ mpc' = "down"
  /\ pc' = [t \in Thread |-> "unborn"]
  /\ UNCHANGED <<prog, run, j, slot, reg, base>>

Next ==
  \/ Start \/ Clear \/ Join \/ Close \/ Crash
  \/ \E t \in Thread : \/ Spawn(t) \/ Local(t) \/ Begin(t) \/ Snapshot(t) \/ Load(t)
                       \/ Store(t) \/ Commit(t)

Spec == Init /\ [][Next]_vars
-----------------------------------------------------------------------------
\* The sum over all entries, as main adds it up.
Total(f) ==
  LET sum[n \in 0 .. nthreads] == IF n = 0 THEN 0 ELSE sum[n - 1] + f[n - 1]
  IN  sum[nthreads]

\* What the program prints in the end: the sum, or the one counter.
Counted(c) == IF prog = "local" THEN Total(c) ELSE c[0]

\* Once main has joined the threads, the mutex and the entries of the live threads have
\* counted every increment of all threads, also where a thread went on with the entry of
\* another that had exited; without either, increments get lost, but never all of them and
\* none is counted twice.
JoinedCounts ==
  mpc = "joined" =>
    LET gained == Counted(counter) - Counted(base)
    IN  IF prog = "plain" THEN gained \in 1 .. nthreads ELSE gained = nthreads * Rounds

\* What a transaction promises once it has committed: wherever the process dies, recovery
\* takes back no committed increment.
CommitsAreKept ==
  mpc \in {"started", "joined"} =>
    \A c \in Recoveries : Counted(c) >= Counted(base) + Total(j)

\* Where no two live threads have the same counter, recovery leaves all increments that
\* were committed, and no others.
RecoveryIsExact ==
  prog = "local" /\ mpc \in {"started", "joined"} =>
    \A c \in Recoveries : Counted(c) = Counted(base) + Total(j)

=============================================================================
