----------------------------- MODULE Transaction -----------------------------
(***************************************************************************)
(* A transaction of libpmemobj, as one thread at a time uses it in the     *)
(* programs that keep their data in an object pool.  Everything they write *)
(* inside a transaction is persistent_ptr, p<> or a container of the       *)
(* library, which enter the old contents into the undo log by themselves,  *)
(* or was added to the log by TX_ADD.  An exception rolls the pool back,   *)
(* and so does the recovery that opening the pool starts with.             *)
(***************************************************************************)
EXTENDS Sequences

VARIABLES
  pool,   \* the contents of the pool
  undo    \* <<>>, or inside a transaction <<the contents it started from>>

InTx == undo # <<>>

\* The contents that survive the end of the process.
Durable == IF InTx THEN undo[1] ELSE pool

\* The start of a transaction together with its first write.
BeginWith(contents) == ~InTx /\ undo' = <<pool>> /\ pool' = contents
Write(contents)     == InTx /\ pool' = contents /\ UNCHANGED undo
Commit              == InTx /\ undo' = <<>> /\ UNCHANGED pool
Abort               == InTx /\ undo' = <<>> /\ pool' = undo[1]
Recover             == undo' = <<>> /\ pool' = Durable

=============================================================================
