---------------------------- MODULE DurableQueue -----------------------------
(***************************************************************************)
(* What the burst buffer of pmembb_list promises its clients, crashes      *)
(* included.  Writes wait in order in `pending'; the writer hands all of   *)
(* them over at once when the flusher has nothing left; the flusher offers *)
(* the batch to its callback in order, and the batch is given up as a      *)
(* whole, only after one uninterrupted pass in which every element was     *)
(* accepted.  An interrupted pass starts again from the beginning: a write *)
(* is delivered at least once, never lost and never overtaken.             *)
(***************************************************************************)
EXTENDS Naturals, Sequences

VARIABLES
  issued,    \* number of writes made so far; a write is known by its number
  pending,   \* writes not yet handed to the flusher, oldest first
  batch,     \* writes handed to the flusher, oldest first
  seen       \* how many of them the current pass has got accepted

vars == <<issued, pending, batch, seen>>

Init == issued = 0 /\ pending = <<>> /\ batch = <<>> /\ seen = 0

Write == /\ issued' = issued + 1
         /\ pending' = Append(pending, issued')
         /\ UNCHANGED <<batch, seen>>

Rotate == /\ batch = <<>>
          /\ batch' = pending
          /\ pending' = <<>>
          /\ UNCHANGED <<issued, seen>>

Accept == /\ seen < Len(batch)
          /\ seen' = seen + 1
          /\ UNCHANGED <<issued, pending, batch>>

\* The callback gave up, or the process died: the pass is forgotten.
Interrupt == /\ seen' = 0
             /\ UNCHANGED <<issued, pending, batch>>

Release == /\ seen = Len(batch)
           /\ batch' = <<>>
           /\ seen' = 0
           /\ UNCHANGED <<issued, pending>>

Next == Write \/ Rotate \/ Accept \/ Interrupt \/ Release

Spec == Init /\ [][Next]_vars
=============================================================================
