------------------------------- MODULE CellOps -------------------------------
(***************************************************************************)
(* The operations of SynchronizedValue on the guarded values, without the  *)
(* locking.  An operation is a record: its kind, its object a, the other   *)
(* object b (b = a if it has none), and the client's value.                *)
(*                                                                         *)
(*   get       get(), operator T, save and <<, the copy constructor        *)
(*   set       operator=(value), load and >>                               *)
(*   exchange  swap(value), a client that reads and writes through         *)
(*             synchronize(), uniqueSynchronize() or ->, and the move      *)
(*             constructor                                                 *)
(*   assign    operator=(SynchronizedValue const&)                         *)
(*   move      operator=(SynchronizedValue&&)                              *)
(*   swap      swap(SynchronizedValue&)                                    *)
(*   both      the free synchronize(a, b), and a client that writes both   *)
(***************************************************************************)
CONSTANTS
  Objects,   \* the SynchronizedValue objects the threads share
  Values,    \* what they may hold
  Empty,     \* a value: what there is first, and what stands for no result
  Kinds      \* the kinds of operation the threads use

ASSUME ValuesAssumption == Empty \in Values

Binary == {"assign", "move", "swap", "both"}

Operations == [kind : Kinds, a : Objects, b : Objects, value : Values]

\* An operation on one object names no other; an assignment or swap may name the
\* same object twice, the free synchronize may not (std::lock would wait for itself).
WellFormed(op) == /\ op.kind \notin Binary => op.b = op.a
                  /\ op.kind = "both" => op.b # op.a

\* The objects an operation locks.
Touched(op) == {op.a, op.b}

\* What the operation leaves in a and, if that is another object, in b, where w
\* is the value of each object before it.
AtA(op, w) == IF op.kind \in {"set", "exchange", "both"} THEN op.value
              ELSE IF op.kind \in {"assign", "move", "swap"} THEN w[op.b]
              ELSE w[op.a]

\* A moved-from object holds some value of its type: value stands for it.
AtB(op, w) == IF op.kind \in {"move", "both"} THEN op.value
              ELSE IF op.kind = "swap" THEN w[op.a]
              ELSE w[op.b]

ValueAfter(op, w, x) == IF x = op.a THEN AtA(op, w)
                        ELSE IF x = op.b THEN AtB(op, w)
                        ELSE w[x]

Effect(op, w) == [x \in Objects |-> ValueAfter(op, w, x)]

\* What the operation returns to the client, Empty if nothing.
Result(op, w) == IF op.kind \in {"get", "exchange"} THEN w[op.a] ELSE Empty
=============================================================================
