------------------------------ MODULE PhiWindow ------------------------------
(***************************************************************************)
(* phi_accrual_fd::Window: the last window_size_ intervals, their sum and  *)
(* the sum of their squares, kept up to date by differences.  A duration   *)
(* is an integer here and a double in the code: what the rounding of the   *)
(* differences adds up to is outside the model.                            *)
(***************************************************************************)
EXTENDS Integers, SequencesExt

CONSTANTS
  window_size,
  Garbage      \* what memory may hold that nobody has initialised

\* The constructors leave both sums without a value.
Constructed == [durations : {<<>>}, sum : Garbage, sum_of_squares : Garbage]

reset == [durations |-> <<>>, sum |-> 0, sum_of_squares |-> 0]

pow2(d) == d * d

(* add, in the three groups of statements a reader might come between *)

addToSum(w, d) == [w EXCEPT !.durations = Append(@, d), !.sum = @ + d]

addToSquares(w) == [w EXCEPT !.sum_of_squares = @ + pow2(Last(w.durations))]

dropOldest(w) ==
  IF Len(w.durations) <= window_size THEN w
  ELSE [durations      |-> Tail(w.durations),
        sum            |-> w.sum - Head(w.durations),
        sum_of_squares |-> w.sum_of_squares - pow2(Head(w.durations))]

add(w, d) == dropOldest(addToSquares(addToSum(w, d)))

\* What the mean and the variance are computed from: sum / n, squares / n - mean^2.
normalDistribution(w) == [n |-> Len(w.durations), sum |-> w.sum, squares |-> w.sum_of_squares]

(* What the sums should be. *)

Total(s) == LET sum[n \in 0 .. Len(s)] == IF n = 0 THEN 0 ELSE sum[n - 1] + s[n] IN sum[Len(s)]

Squares(s) == Total([n \in DOMAIN s |-> pow2(s[n])])

=============================================================================
