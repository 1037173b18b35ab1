--------------------------- MODULE SimpleKVRebuild ---------------------------
(***************************************************************************)
(* ppm_ch11_5_simplekv_rebuild: keys and values live in the pool, each in  *)
(* a vector of its own; the buckets that index them are volatile and are   *)
(* rebuilt whenever the program starts.  It then serves get and put until  *)
(* exit, until an exception ends its loop, or until the process dies.      *)
(***************************************************************************)
EXTENDS Naturals, Sequences, FiniteSetsExt

CONSTANTS
  Key, Value, Nothing,
  N,         \* the number of buckets
  hash       \* std::hash

VARIABLES
  pool,      \* [kv: has the root's kv been made, values, keys]
  undo,      \* the undo log of the transaction, see Transaction
  buckets,   \* the volatile index
  i,         \* the loop counter of the rebuild
  pc, call, reply

vars == <<pool, undo, buckets, i, pc, call, reply>>

Tx == INSTANCE Transaction

index(key) == hash[key] % N
NoBuckets  == [b \in 0 .. N - 1 |-> <<>>]
NoCall     == [op |-> "none", key |-> Nothing, val |-> Nothing]
Calls      == [op : {"get", "exit"}, key : Key, val : {Nothing}] \cup [op : {"put"}, key : Key, val : Value]

Init ==
  /\ pool = [kv |-> FALSE, values |-> <<>>, keys |-> <<>>]
  /\ undo = <<>>
  /\ buckets = NoBuckets
  /\ i = 0
  /\ pc = "down"
  /\ call = NoCall
  /\ reply = Nothing

\* Where the key stands in its bucket; the search stops at the first such entry.
Matches(key) == {m \in DOMAIN buckets[index(key)] : buckets[index(key)][m][1] = key}

\* The second of that entry: where the value of the key is in values, from 0.
place(key) == buckets[index(key)][Min(Matches(key))][2]

Indexed(key, pos) == [buckets EXCEPT ![index(key)] = Append(@, <<key, pos>>)]
-----------------------------------------------------------------------------
(* main, up to its loop *)

Start ==
  /\ pc = "down"
  /\ pc' = IF pool.kv THEN "rebuild" ELSE "make_kv"
  /\ buckets' = NoBuckets /\ i' = 0
  /\ UNCHANGED <<pool, undo, call, reply>>

MakeKV ==
  /\ pc = "make_kv"
  /\ Tx!BeginWith([pool EXCEPT !.kv = TRUE])
  /\ pc' = "commit_kv"
  /\ UNCHANGED <<buckets, i, call, reply>>

CommitKV ==
  /\ pc = "commit_kv"
  /\ Tx!Commit
  /\ pc' = "rebuild"
  /\ UNCHANGED <<buckets, i, call, reply>>

\* Mutant of rebuild: the first pair is skipped.
rebuildFromOne ==
  /\ pc = "rebuild"
  /\ IF i + 1 < Len(pool.values)
       THEN i' = i + 1 /\ buckets' = Indexed(pool.keys[i + 2], i + 1) /\ UNCHANGED pc
       ELSE pc' = "loop" /\ UNCHANGED <<buckets, i>>
  /\ UNCHANGED <<pool, undo, call, reply>>

\* The constructor of simple_kv_runtime, one pair of the vectors at a time.
rebuild ==
  /\ pc = "rebuild"
  /\ IF i < Len(pool.values)
       THEN i' = i + 1 /\ buckets' = Indexed(pool.keys[i + 1], i) /\ UNCHANGED pc
       ELSE pc' = "loop" /\ UNCHANGED <<buckets, i>>
  /\ UNCHANGED <<pool, undo, call, reply>>

\* The program ends: by exit, by an exception that leaves the loop, or by dying.
End(answer) == pc' = "down" /\ call' = NoCall /\ reply' = answer /\ UNCHANGED <<buckets, i>>

\* The loop reads the next operation; one it does not know it answers with the usage.
Read(c) ==
  /\ pc = "loop"
  /\ call' = c
  /\ pc' = "run"
  /\ UNCHANGED <<pool, undo, buckets, i, reply>>

Exit == pc = "run" /\ call.op = "exit" /\ End("lost") /\ UNCHANGED <<pool, undo>>

Usage ==
  /\ pc = "run" /\ call.op = "exit"
  /\ pc' = "loop" /\ call' = NoCall /\ reply' = "lost"
  /\ UNCHANGED <<pool, undo, buckets, i>>
-----------------------------------------------------------------------------
(* get and put *)

Back(answer) == pc' = "loop" /\ call' = NoCall /\ reply' = answer /\ UNCHANGED i

get ==
  /\ pc = "run" /\ call.op = "get"
  /\ IF Matches(call.key) = {} THEN End(Nothing)         \* std::out_of_range leaves the loop
     ELSE Back(pool.values[place(call.key) + 1]) /\ UNCHANGED buckets
  /\ UNCHANGED <<pool, undo>>

putUpdate ==
  /\ pc = "run" /\ call.op = "put"
  /\ Matches(call.key) # {}
  /\ Tx!BeginWith([pool EXCEPT !.values[place(call.key) + 1] = call.val])
  /\ pc' = "commit_update"
  /\ UNCHANGED <<buckets, i, call, reply>>

putEmplaceValue ==
  /\ pc = "run" /\ call.op = "put"
  /\ Matches(call.key) = {}
  /\ Tx!BeginWith([pool EXCEPT !.values = Append(@, call.val)])
  /\ pc' = "emplace_key"
  /\ UNCHANGED <<buckets, i, call, reply>>

putEmplaceKey ==
  /\ pc = "emplace_key"
  /\ Tx!Write([pool EXCEPT !.keys = Append(@, call.key)])
  /\ pc' = "commit_insert"
  /\ UNCHANGED <<buckets, i, call, reply>>

putCommit ==
  /\ pc \in {"commit_update", "commit_insert"}
  /\ Tx!Commit
  /\ call' = [call EXCEPT !.op = "done"]
  /\ pc' = IF pc = "commit_update" THEN "return" ELSE "index"
  /\ UNCHANGED <<buckets, i, reply>>

\* The volatile index follows the committed vectors.
putIndex ==
  /\ pc = "index"
  /\ buckets' = Indexed(call.key, Len(pool.values) - 1)
  /\ pc' = "return"
  /\ UNCHANGED <<pool, undo, i, call, reply>>

putReturn == pc = "return" /\ Back(call.val) /\ UNCHANGED <<pool, undo, buckets>>
-----------------------------------------------------------------------------
\* An allocation in a transaction throws: rolled back, and the exception ends the loop.
TxThrows == Tx!Abort /\ End(IF call = NoCall THEN reply ELSE "lost")

\* The process dies; the next open of the pool rolls the transaction back.
Crash == pc # "down" /\ Tx!Recover /\ End(IF call = NoCall THEN reply ELSE "lost")

Next ==
  \/ Start \/ MakeKV \/ CommitKV \/ rebuild
  \/ \E c \in Calls : Read(c)
  \/ Exit \/ Usage
  \/ get \/ putUpdate \/ putEmplaceValue \/ putEmplaceKey \/ putCommit \/ putIndex \/ putReturn
  \/ TxThrows \/ Crash

Spec == Init /\ [][Next]_vars
-----------------------------------------------------------------------------
\* The map the two vectors stand for, as a crash would leave them.
Stored ==
  [k \in Key |->
     LET places == {p \in DOMAIN Tx!Durable.keys : Tx!Durable.keys[p] = k}
     IN  IF places = {} THEN Nothing
         ELSE Tx!Durable.values[Min(places)]]

Map == INSTANCE DurableMap WITH map <- Stored

\* A put takes effect at one instant or not at all, and a get answers what the puts
\* left: the volatile buckets of the running process and those rebuilt after any crash
\* lead to the values the two vectors hold.
ImplementsMap == Map!Spec

=============================================================================
