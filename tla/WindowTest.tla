----------------------------- MODULE WindowTest ------------------------------
(***************************************************************************)
(* TEST_CASE("Window") of phi_accrual_fd: a window is constructed and used *)
(* without reset().                                                        *)
(***************************************************************************)
EXTENDS PhiWindow

VARIABLES window, script

vars == <<window, script>>

\* SUBCASE "average" for a large window, "overextend" for one of three intervals.
Script == IF window_size = 3 THEN <<1, 1, 1, 3, 2>> ELSE <<1, 3, 2>>

Init == window \in Constructed /\ script = Script

Add == script # <<>> /\ window' = add(window, Head(script)) /\ script' = Tail(script)

Next == Add

Spec == Init /\ [][Next]_vars

\* The test's expectation: when all intervals are in, the mean is 2 seconds.
MeanIsTwo == script = <<>> => window.sum = 2 * Len(window.durations)

=============================================================================
