--------------------------- MODULE PersistentQueue ---------------------------
(***************************************************************************)
(* ppm_ch8_7_persistent_queue: a linked queue in an object pool.  push and *)
(* pop are one transaction each, of several writes; main reads commands    *)
(* until exit, until pop throws on the empty queue, or until it dies.      *)
(***************************************************************************)
EXTENDS Naturals, Sequences, FiniteSetsExt

CONSTANTS
  Value,
  Address,   \* where nodes can be allocated, as many as the pool has room for
  nullptr,
  Bound      \* the number of addresses

VARIABLES
  pool,      \* [head, tail, node: a partial function from addresses to [value, next]]
  undo,      \* the undo log of the transaction, see Transaction
  pc,        \* where the process is; "down" when there is none
  call,      \* the command under way, as in DurableFifo
  reply,     \* what the last command printed
  node,      \* the local variable: node in push, head_ptr in pop
  value      \* the local variable of pop

vars == <<pool, undo, pc, call, reply, node, value>>

Tx == INSTANCE Transaction

Allocated == DOMAIN pool.node

Calls == {<<"pop">>, <<"show">>, <<"exit">>} \cup {<<"push", v>> : v \in Value}

Init ==
  /\ pool = [head |-> nullptr, tail |-> nullptr, node |-> <<>>]
  /\ undo = <<>>
  /\ pc = "down"
  /\ call = <<"none">>
  /\ reply = <<>>
  /\ node = nullptr
  /\ value = <<>>

\* The pointer of the loop of show after n rounds; the loop ends where it is null.
Walk(contents) ==
  LET at[n \in 0 .. Bound] ==
        IF n = 0 THEN contents.head
        ELSE IF at[n - 1] = nullptr THEN nullptr ELSE contents.node[at[n - 1]].next
  IN  at

\* The nodes it comes by.
Chain(contents) ==
  LET at     == Walk(contents)
      rounds == Min({n \in 0 .. Bound : at[n] = nullptr} \cup {Bound})
  IN  [n \in 1 .. rounds |-> at[n - 1]]

Elements(contents) == LET c == Chain(contents) IN [n \in DOMAIN c |-> contents.node[c[n]].value]
-----------------------------------------------------------------------------
(* main: one round of its loop per command *)

\* The pool opens.  If it does not, main prints that, goes on, and dies of pool.root(), which
\* throws on a pool that is not open: nothing has changed.
Open == pc = "down" /\ pc' = "loop" /\ UNCHANGED <<pool, undo, call, reply, node, value>>

ReadCommand(c) ==
  /\ pc = "loop"
  /\ call' = c
  /\ pc' = c[1]
  /\ UNCHANGED <<pool, undo, reply, node, value>>

End(answer) == pc' = "down" /\ call' = <<"none">> /\ reply' = answer /\ node' = nullptr /\ value' = <<>>

Return(answer) == pc' = "loop" /\ call' = <<"none">> /\ reply' = answer /\ node' = nullptr /\ value' = <<>>

\* exit, and any command it does not know
Exit == pc = "exit" /\ End(<<"lost">>) /\ UNCHANGED <<pool, undo>>

show == pc = "show" /\ Return(Elements(pool)) /\ UNCHANGED <<pool, undo>>
-----------------------------------------------------------------------------
(* push *)

\* make_persistent: a node at an address that is free.
NodesWith(a, v) ==
  [b \in Allocated \cup {a} |-> IF b = a THEN [value |-> v, next |-> nullptr] ELSE pool.node[b]]

pushNode ==
  /\ pc = "push"
  /\ \E a \in Address \ Allocated :
       /\ Tx!BeginWith([pool EXCEPT !.node = NodesWith(a, call[2])])
       /\ node' = a
  /\ pc' = "push_link"
  /\ UNCHANGED <<call, reply, value>>

\* Mutant of pushLink: the tail is not moved to the new last node.
pushLinkKeepTail ==
  /\ pc = "push_link"
  /\ Tx!Write(IF pool.head = nullptr
                THEN [pool EXCEPT !.head = node, !.tail = node]
                ELSE [pool EXCEPT !.node[pool.tail].next = node])
  /\ pc' = "commit"
  /\ UNCHANGED <<call, reply, node, value>>

pushLink ==
  /\ pc = "push_link"
  /\ Tx!Write(IF pool.head = nullptr
                THEN [pool EXCEPT !.head = node, !.tail = node]
                ELSE [pool EXCEPT !.node[pool.tail].next = node, !.tail = node])
  /\ pc' = "commit"
  /\ UNCHANGED <<call, reply, node, value>>
-----------------------------------------------------------------------------
(* pop *)

popHead ==
  /\ pc = "pop" /\ pool.head # nullptr
  /\ node' = pool.head /\ value' = <<pool.node[pool.head].value>>
  /\ Tx!BeginWith([pool EXCEPT !.head = pool.node[pool.head].next])
  /\ pc' = "pop_delete"
  /\ UNCHANGED <<call, reply>>

\* Mutant of popDelete: the node is unlinked and never freed.
popDeleteNot ==
  /\ pc = "pop_delete"
  /\ Tx!Write(pool)
  /\ pc' = "pop_tail"
  /\ UNCHANGED <<call, reply, node, value>>

\* delete_persistent; its value is in the local variable by now.
popDelete ==
  /\ pc = "pop_delete"
  /\ Tx!Write([pool EXCEPT !.node = Restrict(@, Allocated \ {node})])
  /\ pc' = "pop_tail"
  /\ UNCHANGED <<call, reply, node, value>>

popTail ==
  /\ pc = "pop_tail"
  /\ Tx!Write(IF pool.head = nullptr THEN [pool EXCEPT !.tail = nullptr] ELSE pool)
  /\ pc' = "commit"
  /\ UNCHANGED <<call, reply, node, value>>

\* std::out_of_range on the empty queue: nobody catches it and the program ends.
popEmpty ==
  /\ pc = "pop" /\ pool.head = nullptr
  /\ End(<<"empty">>)
  /\ UNCHANGED <<pool, undo>>
-----------------------------------------------------------------------------
commit ==
  /\ pc = "commit"
  /\ Tx!Commit
  /\ call' = <<"done", value>>
  /\ pc' = "return"
  /\ UNCHANGED <<reply, node, value>>

Answer == pc = "return" /\ Return(call[2]) /\ UNCHANGED <<pool, undo>>

\* No room for a node: transaction_alloc_error, uncaught like every other exception.
TxThrows == pc = "push" /\ End(<<"lost">>) /\ UNCHANGED <<pool, undo>>

\* The process dies; the next open of the pool rolls the transaction back.
Crash ==
  /\ pc # "down"
  /\ Tx!Recover
  /\ End(IF call = <<"none">> THEN reply ELSE <<"lost">>)

Next ==
  \/ Open \/ (\E c \in Calls : ReadCommand(c)) \/ Exit \/ show
  \/ pushNode \/ pushLink \/ popHead \/ popDelete \/ popTail \/ popEmpty \/ commit \/ Answer
  \/ TxThrows \/ Crash

Spec == Init /\ [][Next]_vars
-----------------------------------------------------------------------------
Fifo == INSTANCE DurableFifo WITH elems <- Elements(Tx!Durable)

\* push and pop take effect at one instant or not at all, in the order of a queue, over
\* any number of commands, runs and deaths of the process.
ImplementsFifo == Fifo!Spec

\* Whatever the process leaves behind, every node allocated in the pool is linked, once,
\* and the tail is the last of them: no crash between allocating, linking, unlinking and
\* freeing leaks a node or leaves one linked that was freed.
NodesAreTheChain ==
  LET kept == Tx!Durable
      c    == Chain(kept)
  IN  /\ Range(c) = DOMAIN kept.node
      /\ \A m, n \in DOMAIN c : c[m] = c[n] => m = n
      /\ kept.tail = IF c = <<>> THEN nullptr ELSE c[Len(c)]

=============================================================================
