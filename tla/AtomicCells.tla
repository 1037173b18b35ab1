----------------------------- MODULE AtomicCells -----------------------------
(***************************************************************************)
(* What SynchronizedValue promises: every operation, those on two objects  *)
(* included, takes effect in one step.                                     *)
(***************************************************************************)
EXTENDS CellOps

CONSTANT Threads

VARIABLES
  cell,   \* the value of every object
  out     \* the two words of the last result each thread was given

vars == <<cell, out>>

Init == /\ cell = [x \in Objects |-> Empty]
        /\ out = [t \in Threads |-> <<Empty, Empty>>]

Operate(t, op) == /\ cell' = Effect(op, cell)
                  /\ out' = [out EXCEPT ![t] = <<Result(op, cell), Result(op, cell)>>]

Next == \E t \in Threads, op \in Operations : WellFormed(op) /\ Operate(t, op)

Spec == Init /\ [][Next]_vars
=============================================================================
