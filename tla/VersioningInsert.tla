-------------------------- MODULE VersioningInsert ---------------------------
(***************************************************************************)
(* ppm_ch11_6_versioning_insert: a sorted array kept in two versions.  An  *)
(* insert builds the new version beside the consistent one, persists it    *)
(* and then turns `current' over, without any transaction.  A store is in  *)
(* the medium after the persist that covers it; before that, a loss of     *)
(* power keeps it or not, each store on its own.                           *)
(***************************************************************************)
EXTENDS Integers, SequencesExt

CONSTANTS
  slots,     \* the capacity of a version
  Inputs     \* the sequences of entries a program inserts

\* insert does not look at the capacity: a program must not insert more than slots.
ASSUME InputsAssumption == slots \in Nat /\ \A s \in Inputs : s \in Seq(Int) /\ Len(s) <= slots

\* An array is its locations: <<c, 0>> is v[c].size, <<c, n>> is v[c].entries[n - 1].
current  == <<2, 0>>
Location == ((0 .. 1) \X (0 .. slots)) \cup {current}

VARIABLES
  input,     \* what this program inserts
  done,      \* how many inserts have returned
  mem,       \* what the program reads back
  media,     \* what the medium holds for sure
  pc

vars == <<input, done, mem, media, pc>>

Init ==
  /\ input \in Inputs
  /\ done = 0
  /\ mem = [l \in Location |-> 0]   \* a new pool is zeroed
  /\ media = mem
  /\ pc = "insert"

\* std::lower_bound: the first place of version c whose entry is not less, from 1.
lower_bound(c, entry) ==
  LET size == mem[<<c, 0>>]
  IN  Min({n \in 1 .. size : mem[<<c, n>>] >= entry} \cup {size + 1})

insert_element ==
  /\ pc = "insert" /\ done < Len(input)
  /\ LET c     == mem[current]
         entry == input[done + 1]
         pos   == lower_bound(c, entry)
         size  == mem[<<c, 0>>]
         stored(n) == IF n = 0 THEN size + 1
                      ELSE IF n < pos THEN mem[<<c, n>>]
                      ELSE IF n = pos THEN entry
                      ELSE IF n <= size + 1 THEN mem[<<c, n - 1>>]
                      ELSE mem[<<1 - c, n>>]
     IN  mem' = [l \in Location |-> IF l[1] = 1 - c THEN stored(l[2]) ELSE mem[l]]
  /\ pc' = "persist_version"
  /\ UNCHANGED <<input, done, media>>

persist(range) == media' = [l \in Location |-> IF l \in range THEN mem[l] ELSE media[l]]

\* Mutant of persist_version: only the size of the new version is written back.
persist_size ==
  /\ pc = "persist_version"
  /\ persist({<<1 - mem[current], 0>>})
  /\ pc' = "flip"
  /\ UNCHANGED <<input, done, mem>>

persist_version ==
  /\ pc = "persist_version"
  /\ persist({1 - mem[current]} \X (0 .. slots))
  /\ pc' = "flip"
  /\ UNCHANGED <<input, done, mem>>

flip ==
  /\ pc = "flip"
  /\ mem' = [mem EXCEPT ![current] = 1 - @]
  /\ pc' = "persist_current"
  /\ UNCHANGED <<input, done, media>>

persist_current ==
  /\ pc = "persist_current"
  /\ persist({current})
  /\ done' = done + 1
  /\ pc' = "insert"
  /\ UNCHANGED <<input, mem>>

\* main prints the current version and closes the pool.
Close ==
  /\ pc = "insert" /\ done = Len(input)
  /\ pc' = "closed"
  /\ UNCHANGED <<input, done, mem, media>>

\* The machine stops: some of the stores not yet persisted are lost.  The program cannot
\* be run again on this pool: it creates the pool, which fails when there is one.
PowerFails ==
  /\ pc # "closed"
  /\ \E lost \in SUBSET {l \in Location : mem[l] # media[l]} :
       mem' = [l \in Location |-> IF l \in lost THEN media[l] ELSE mem[l]]
  /\ media' = mem'
  /\ pc' = "closed"
  /\ UNCHANGED <<input, done>>

Next == insert_element \/ persist_version \/ flip \/ persist_current \/ Close \/ PowerFails

Spec == Init /\ [][Next]_vars
-----------------------------------------------------------------------------
\* Whichever value of `current' the medium turns out to hold, the version it names is in
\* the medium as the program left it: why the order of the two persists is enough.
NamedVersionsPersisted ==
  \A c \in {mem[current], media[current]} : \A n \in 0 .. slots : media[<<c, n>>] = mem[<<c, n>>]

\* The array a reader of the medium sees.
Stored == [n \in 1 .. media[<<media[current], 0>>] |-> media[<<media[current], n>>]]

\* The array s holds the first n of the entries, each as often as they do, in order.
HoldsFirst(s, entries, n) ==
  /\ DOMAIN s = 1 .. n
  /\ \A m, l \in 1 .. n : m <= l => s[m] <= s[l]
  /\ \E from \in [1 .. n -> 1 .. n] :
       /\ \A m, l \in 1 .. n : from[m] = from[l] => m = l
       /\ \A m \in 1 .. n : s[m] = entries[from[m]]

\* Wherever the power fails between the copies, the size, the turning over of `current'
\* and the two persists, the medium holds in order exactly the entries whose insert had
\* returned, or these and the one being inserted: never part of a version.
WholeVersionSurvives ==
  pc = "closed" => \E n \in {done, done + 1} : n <= Len(input) /\ HoldsFirst(Stored, input, n)

=============================================================================
