------------------------------ MODULE SimpleKV -------------------------------
(***************************************************************************)
(* ppm_ch11_4_simplekv: a hash map whose buckets and values both live in a *)
(* pool.  Every run of the program does one get or one put; the process    *)
(* may die at any point, and an allocation in a transaction may throw.     *)
(***************************************************************************)
EXTENDS Naturals, Sequences, FiniteSetsExt

CONSTANTS
  Key, Value, Nothing,
  N,         \* the number of buckets
  hash       \* std::hash, which gives the same key the same hash in every run

VARIABLES
  pool,      \* [kv: has the root's kv been made, values, buckets]
  undo,      \* the undo log of the transaction, see Transaction
  pc,        \* where the process is; "down" when there is none
  call, reply

vars == <<pool, undo, pc, call, reply>>

Tx == INSTANCE Transaction

index(key) == hash[key] % N
NoBuckets  == [b \in 0 .. N - 1 |-> <<>>]
NoCall     == [op |-> "none", key |-> Nothing, val |-> Nothing]
Calls      == [op : {"get", "exit"}, key : Key, val : {Nothing}] \cup [op : {"put"}, key : Key, val : Value]

Init ==
  /\ pool = [kv |-> FALSE, values |-> <<>>, buckets |-> NoBuckets]
  /\ undo = <<>>
  /\ pc = "down"
  /\ call = NoCall
  /\ reply = Nothing
-----------------------------------------------------------------------------
(* Searching a bucket for a key: the loop stops at the first entry that    *)
(* carries it.                                                             *)

Matches(contents, key) ==
  LET bucket == contents.buckets[index(key)]
  IN  {m \in DOMAIN bucket : bucket[m][1] = key}

\* The second of the entry: where the value of the key is in values, from 0.
place(contents, key) == contents.buckets[index(key)][Min(Matches(contents, key))][2]

Lookup(contents, key) ==
  IF Matches(contents, key) = {} THEN Nothing ELSE contents.values[place(contents, key) + 1]
-----------------------------------------------------------------------------
(* main *)

\* The process ends and the call has its answer.
End(answer) == pc' = "down" /\ call' = NoCall /\ reply' = answer

\* A run of the program; "exit" stands for a command line it does not understand.
Start(c) ==
  /\ pc = "down"
  /\ call' = c
  /\ pc' = IF pool.kv THEN "run" ELSE "make_kv"
  /\ UNCHANGED <<pool, undo, reply>>

MakeKV ==
  /\ pc = "make_kv"
  /\ Tx!BeginWith([pool EXCEPT !.kv = TRUE])
  /\ pc' = "commit_kv"
  /\ UNCHANGED <<call, reply>>

CommitKV ==
  /\ pc = "commit_kv"
  /\ Tx!Commit
  /\ pc' = "run"
  /\ UNCHANGED <<call, reply>>

Usage == pc = "run" /\ call.op = "exit" /\ End("lost") /\ UNCHANGED <<pool, undo>>
-----------------------------------------------------------------------------
(* get and put *)

get ==
  /\ pc = "run" /\ call.op = "get"
  /\ End(Lookup(pool, call.key))     \* Nothing: std::out_of_range
  /\ UNCHANGED <<pool, undo>>

putUpdate ==
  /\ pc = "run" /\ call.op = "put"
  /\ Matches(pool, call.key) # {}
  /\ Tx!BeginWith([pool EXCEPT !.values[place(pool, call.key) + 1] = call.val])
  /\ pc' = "commit_put"
  /\ UNCHANGED <<call, reply>>

\* Mutant of putEmplaceValue: a key that is already there is inserted once more.
putEmplaceAlways ==
  /\ pc = "run" /\ call.op = "put"
  /\ Tx!BeginWith([pool EXCEPT !.values = Append(@, call.val)])
  /\ pc' = "emplace_bucket"
  /\ UNCHANGED <<call, reply>>

putEmplaceValue ==
  /\ pc = "run" /\ call.op = "put"
  /\ Matches(pool, call.key) = {}
  /\ Tx!BeginWith([pool EXCEPT !.values = Append(@, call.val)])
  /\ pc' = "emplace_bucket"
  /\ UNCHANGED <<call, reply>>

putEmplaceBucket ==
  /\ pc = "emplace_bucket"
  /\ Tx!Write([pool EXCEPT !.buckets[index(call.key)] = Append(@, <<call.key, Len(pool.values) - 1>>)])
  /\ pc' = "commit_put"
  /\ UNCHANGED <<call, reply>>

putCommit ==
  /\ pc = "commit_put"
  /\ Tx!Commit
  /\ call' = [call EXCEPT !.op = "done"]
  /\ pc' = "return"
  /\ UNCHANGED reply

putReturn == pc = "return" /\ End(call.val) /\ UNCHANGED <<pool, undo>>
-----------------------------------------------------------------------------
\* An allocation throws: the transaction is rolled back, main prints what() and ends.
TxThrows == Tx!Abort /\ End("lost")

\* The process dies; the next open of the pool rolls the transaction back.
Crash == pc # "down" /\ Tx!Recover /\ End("lost")

Next ==
  \/ \E c \in Calls : Start(c)
  \/ MakeKV \/ CommitKV \/ Usage
  \/ get \/ putUpdate \/ putEmplaceValue \/ putEmplaceBucket \/ putCommit \/ putReturn
  \/ TxThrows \/ Crash

Spec == Init /\ [][Next]_vars
-----------------------------------------------------------------------------
\* The map the buckets and the values stand for, as a crash would leave them.
Stored == [k \in Key |-> Lookup(Tx!Durable, k)]

Map == INSTANCE DurableMap WITH map <- Stored

\* A put takes effect at one instant or not at all, whatever run of the program dies
\* between growing the values, growing the bucket and committing, and whatever keys
\* share a bucket; a get answers what the puts of all runs left.
ImplementsMap == Map!Spec

=============================================================================
