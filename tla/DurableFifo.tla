----------------------------- MODULE DurableFifo -----------------------------
(***************************************************************************)
(* What a persistent queue promises one client: push and pop take effect   *)
(* at one instant or not at all, pop answers the oldest element, and no    *)
(* crash changes the queue.                                                *)
(***************************************************************************)
EXTENDS Sequences

CONSTANT Value

VARIABLES elems, call, reply

vars == <<elems, call, reply>>

Calls == {<<"pop">>, <<"show">>, <<"exit">>} \cup {<<"push", v>> : v \in Value}

Init == elems = <<>> /\ call = <<"none">> /\ reply = <<>>

Invoke(c) == call = <<"none">> /\ call' = c /\ UNCHANGED <<elems, reply>>

Push == /\ call[1] = "push"
        /\ elems' = Append(elems, call[2])
        /\ call' = <<"done", <<>> >>
        /\ UNCHANGED reply

Pop == /\ call[1] = "pop" /\ elems # <<>>
       /\ elems' = Tail(elems)
       /\ call' = <<"done", <<Head(elems)>> >>
       /\ UNCHANGED reply

Return == call[1] = "done" /\ reply' = call[2] /\ call' = <<"none">> /\ UNCHANGED elems

Show == call[1] = "show" /\ reply' = elems /\ call' = <<"none">> /\ UNCHANGED elems

\* The call ends without an answer, its effect done or not.
Lost == call # <<"none">> /\ reply' = <<"lost">> /\ call' = <<"none">> /\ UNCHANGED elems

\* std::out_of_range, for an empty queue only.
Empty == call[1] = "pop" /\ elems = <<>> /\ reply' = <<"empty">> /\ call' = <<"none">> /\ UNCHANGED elems

Next == (\E c \in Calls : Invoke(c)) \/ Push \/ Pop \/ Return \/ Show \/ Lost \/ Empty

Spec == Init /\ [][Next]_vars

=============================================================================
