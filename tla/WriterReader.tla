---------------------------- MODULE WriterReader -----------------------------
(***************************************************************************)
(* ppm_ch7_1 and ppm_ch7_2: one program writes a string into a new pool,   *)
(* its length first, and another prints it, if the length agrees with the  *)
(* string.  Power may fail while the writer runs: of what it has not yet   *)
(* persisted, each byte of the buffer and the length survive or not.       *)
(***************************************************************************)
EXTENDS Integers

CONSTANTS
  Lengths,    \* strlen(buf), 16 in the code; room is left for the terminating zero
  MaxBufLen   \* MAX_BUF_LEN, 31 in the code

VARIABLES
  strlenBuf,  \* the length of the writer's string
  wpc, rpc,   \* where the writer and the reader are
  len,        \* rootp->len, as the medium and the program see it
  chars,      \* the places of rootp->buf that are not zero
  unsure,     \* what the writer has stored and not persisted
  shown       \* how many characters the reader printed last, -1 when it printed nothing

vars == <<strlenBuf, wpc, rpc, len, chars, unsure, shown>>

Init ==
  /\ strlenBuf \in Lengths
  /\ wpc = "create" /\ rpc = "closed"
  /\ len = 0 /\ chars = {}          \* pmemobj_root zeroes the root object
  /\ unsure = {}
  /\ shown = -1

\* The first zero byte; the buffer keeps at least its last one.
strlen ==
  CHOOSE k \in 0 .. MaxBufLen - 1 :
    k \notin chars /\ \A i \in 0 .. MaxBufLen - 1 : i < k => i \in chars
-----------------------------------------------------------------------------
(* The writer *)

Create == wpc = "create" /\ wpc' = "store_len" /\ UNCHANGED <<strlenBuf, rpc, len, chars, unsure, shown>>

StoreLen ==
  /\ wpc = "store_len"
  /\ len' = strlenBuf
  /\ unsure' = {"len"}
  /\ wpc' = "persist_len"
  /\ UNCHANGED <<strlenBuf, rpc, chars, shown>>

PersistLen ==
  /\ wpc = "persist_len"
  /\ unsure' = {}
  /\ wpc' = "copy"
  /\ UNCHANGED <<strlenBuf, rpc, len, chars, shown>>

\* pmemobj_memcpy_persist copies ...
Copy ==
  /\ wpc = "copy"
  /\ chars' = 0 .. len - 1
  /\ unsure' = {"buf"}
  /\ wpc' = "persist_buf"
  /\ UNCHANGED <<strlenBuf, rpc, len, shown>>

\* ... and persists.
PersistBuf ==
  /\ wpc = "persist_buf"
  /\ unsure' = {}
  /\ wpc' = "closed"
  /\ UNCHANGED <<strlenBuf, rpc, len, chars, shown>>

\* What was not persisted is kept or lost, byte by byte.  The pool exists now, so that the
\* writer can not be run again.
PowerFails ==
  /\ wpc \notin {"create", "closed"}
  /\ len' \in IF "len" \in unsure THEN {0, len} ELSE {len}
  /\ \E lost \in SUBSET chars : (lost = {} \/ "buf" \in unsure) /\ chars' = chars \ lost
  /\ unsure' = {}
  /\ wpc' = "closed"
  /\ UNCHANGED <<strlenBuf, rpc, shown>>
-----------------------------------------------------------------------------
(* The reader; the pool is open in one process at a time *)

Open == wpc = "closed" /\ rpc = "closed" /\ rpc' = "open" /\ UNCHANGED <<strlenBuf, wpc, len, chars, unsure, shown>>

\* Mutant of Show: the length is not compared.
ShowUnchecked ==
  /\ rpc = "open"
  /\ shown' = strlen
  /\ rpc' = "closed"
  /\ UNCHANGED <<strlenBuf, wpc, len, chars, unsure>>

Show ==
  /\ rpc = "open"
  /\ shown' = IF len = strlen THEN strlen ELSE -1
  /\ rpc' = "closed"
  /\ UNCHANGED <<strlenBuf, wpc, len, chars, unsure>>

Next == Create \/ StoreLen \/ PersistLen \/ Copy \/ PersistBuf \/ PowerFails \/ Open \/ Show

Spec == Init /\ [][Next]_vars
-----------------------------------------------------------------------------
\* The reader prints the whole string, an empty line or nothing, whatever bytes of the
\* string the medium lost: a string with a hole or without its end is never shown.
ShownIsWhole == shown \in {-1, 0, strlenBuf}

=============================================================================
