------------------------------- MODULE Records -------------------------------
(***************************************************************************)
(* ppm_ch12_38_out_of_order_bug: records are written and persisted one by  *)
(* one, and the counter in the header, which is incremented before each of *)
(* them, is persisted after the last.  A loss of power keeps or loses each *)
(* store that no persist covers, a name even in part.                      *)
(***************************************************************************)
EXTENDS Integers, FiniteSets

CONSTANTS
  N,         \* the number of records, 10 in the code
  MaxRuns    \* bound on the runs of the program on one pool

counter  == <<"header", 0>>
Location == {counter} \cup ({"name", "valid"} \X (0 .. N - 1))

VARIABLES
  mem,       \* what the program reads back
  media,     \* what the medium holds for sure
  i, pc, runs

vars == <<mem, media, i, pc, runs>>

Init ==
  /\ mem = [l \in Location |-> 0] /\ media = mem
  /\ i = 0 /\ pc = "down" /\ runs = 0

\* The transaction makes a new header and new records, all zero; those of an earlier run
\* are left behind.
Start ==
  /\ pc = "down" /\ runs < MaxRuns
  /\ mem' = [l \in Location |-> 0] /\ media' = mem'
  /\ i' = 0 /\ pc' = "count" /\ runs' = runs + 1

Store(l, v)  == mem' = [mem EXCEPT ![l] = v] /\ UNCHANGED <<media, i, runs>>
Persist(l)   == media' = [media EXCEPT ![l] = mem[l]] /\ UNCHANGED <<mem, runs>>
Goto(from, to) == pc = from /\ pc' = to

\* header->counter++, and rand() chooses between a record with and one without a name.
Count == Goto("count", "name") /\ Store(counter, mem[counter] + 1)

StoreName   == Goto("name", "persist_name") /\ Store(<<"name", i>>, 2)

\* Mutant of PersistName: the name is not persisted.
PersistNothing == Goto("persist_name", "valid_2") /\ UNCHANGED <<mem, media, i, runs>>

PersistName == Goto("persist_name", "valid_2") /\ Persist(<<"name", i>>) /\ UNCHANGED i

StoreValid2 == Goto("valid_2", "persist_valid") /\ Store(<<"valid", i>>, 2)
StoreValid1 == Goto("name", "persist_valid") /\ Store(<<"valid", i>>, 1)

PersistValid ==
  /\ Goto("persist_valid", IF i + 1 < N THEN "count" ELSE "persist_counter")
  /\ Persist(<<"valid", i>>)
  /\ i' = i + 1

PersistCounter == Goto("persist_counter", "close") /\ Persist(counter) /\ UNCHANGED i

Close == Goto("close", "down") /\ UNCHANGED <<mem, media, i, runs>>

Unsure == {l \in Location : mem[l] # media[l]}

\* Each store that no persist covers has reached the medium or not: of a name perhaps a
\* part (1), of the counter any of the values it has had since it was persisted.
PowerFails ==
  /\ pc # "down"
  /\ \E lost \in SUBSET (Unsure \ {counter}) :
     \E torn \in SUBSET {l \in lost : l[1] = "name"} :
     \E v \in media[counter] .. mem[counter] :
       mem' = [l \in Location |-> IF l = counter THEN v ELSE IF l \in torn THEN 1
                                 ELSE IF l \in lost THEN media[l] ELSE mem[l]]
  /\ media' = mem'
  /\ pc' = "down"
  /\ UNCHANGED <<i, runs>>

Next ==
  \/ Start \/ Count \/ StoreName \/ PersistName \/ StoreValid2 \/ StoreValid1 \/ PersistValid
  \/ PersistCounter \/ Close \/ PowerFails

Spec == Init /\ [][Next]_vars
-----------------------------------------------------------------------------
Valid == {r \in 0 .. N - 1 : media[<<"valid", r>>] # 0}

\* What a later reader finds, wherever the power failed: a record marked 2 has its whole
\* name, whatever order the medium took the stores in.
RecordsReadable ==
  pc = "down" => \A r \in Valid : media[<<"valid", r>>] = 2 => media[<<"name", r>>] = 2

\* What a reader of the header goes by: the counter promises no record that is not there.
CounterIsBacked == pc = "down" => media[counter] <= Cardinality(Valid)

=============================================================================
