----------------------------- MODULE DurableMap ------------------------------
(***************************************************************************)
(* What a persistent key-value store promises: a put takes effect at one   *)
(* instant or not at all, a get answers with what the puts left, and       *)
(* nothing else, a crash included, changes the map.                        *)
(***************************************************************************)
CONSTANTS Key, Value, Nothing

VARIABLES
  map,     \* what the store holds
  call,    \* the call under way: its operation, key and value
  reply    \* what the last call that ended came back with

vars == <<map, call, reply>>

NoCall == [op |-> "none", key |-> Nothing, val |-> Nothing]
Calls  == [op : {"get", "exit"}, key : Key, val : {Nothing}] \cup [op : {"put"}, key : Key, val : Value]

Init == map = [k \in Key |-> Nothing] /\ call = NoCall /\ reply = Nothing

Invoke(c) == call = NoCall /\ call' = c /\ UNCHANGED <<map, reply>>

Get == /\ call.op = "get"
       /\ reply' = map[call.key]
       /\ call' = NoCall
       /\ UNCHANGED map

Put == /\ call.op = "put"
       /\ map' = [map EXCEPT ![call.key] = call.val]
       /\ call' = [call EXCEPT !.op = "done"]
       /\ UNCHANGED reply

Return == call.op = "done" /\ reply' = call.val /\ call' = NoCall /\ UNCHANGED map

\* The call ends without an answer: a crash, an exception or the end of the program.
Lost == call # NoCall /\ reply' = "lost" /\ call' = NoCall /\ UNCHANGED map

Next == (\E c \in Calls : Invoke(c)) \/ Get \/ Put \/ Return \/ Lost

Spec == Init /\ [][Next]_vars

=============================================================================
