--------------------------- MODULE AbstractBarrier ---------------------------
(***************************************************************************)
(* What a one-shot barrier promises: every party enters once, and a party  *)
(* leaves only after all of them have entered.                             *)
(***************************************************************************)
CONSTANT Parties

VARIABLES entered, left

vars == <<entered, left>>

Init == entered = {} /\ left = {}

Enter(p) == /\ p \notin entered
            /\ entered' = entered \cup {p}
            /\ UNCHANGED left

Leave(p) == /\ entered = Parties
            /\ p \notin left
            /\ left' = left \cup {p}
            /\ UNCHANGED entered

Next == \E p \in Parties : Enter(p) \/ Leave(p)

\* The safety part, and the promise that everybody gets through.
SafetySpec == Init /\ [][Next]_vars

Spec == /\ SafetySpec
        /\ \A p \in Parties : WF_vars(Enter(p)) /\ WF_vars(Leave(p))
=============================================================================
