------------------------------ MODULE Accounts -------------------------------
(***************************************************************************)
(* ppm_ch7_6 and ppm_ch7_7: two accounts are created, each an account and  *)
(* the string of its name, reserved in memory, filled and then published   *)
(* together; and money moves from the first to the second, by two actions  *)
(* published at once (7_6) or in a transaction (7_7).  Power may fail at   *)
(* any point: a store that is not persisted survives or not.               *)
(***************************************************************************)
EXTENDS Integers, FiniteSets

CONSTANTS
  Programs,   \* "publish" (7_6), "tx" (7_7)
  Prices      \* the amounts moved, from 0 .. 100; 42 in the code

deposit == <<100, 50>>

\* The objects: the string and the account of customers 1 and 2.
Object == {"str", "acc"} \X (1 .. 2)

VARIABLES
  prog, price,
  pc, n,      \* where main is, and the customer whose account it creates
  act,        \* the objects reserved, in memory only
  heap,       \* the objects allocated in the pool
  flushed,    \* the objects whose contents are on the way to the medium
  stable,     \* the objects whose contents have reached it
  balance,    \* the balances as the program reads them
  kept,       \* the balances the medium holds for sure
  undo        \* the undo log of 7_7: a set of <<account, old balance>>

vars == <<prog, price, pc, n, act, heap, flushed, stable, balance, kept, undo>>

Init ==
  /\ prog \in Programs /\ price \in Prices
  /\ pc = "reserve_name" /\ n = 1
  /\ act = {} /\ heap = {} /\ flushed = {} /\ stable = {}
  /\ balance = <<0, 0>> /\ kept = <<0, 0>>
  /\ undo = {}
-----------------------------------------------------------------------------
(* new_account *)

\* pmemobj_reserve and pmemobj_memcpy with NODRAIN.
ReserveName ==
  /\ pc = "reserve_name"
  /\ act' = act \cup {<<"str", n>>}
  /\ flushed' = flushed \cup {<<"str", n>>}
  /\ pc' = "reserve_account"
  /\ UNCHANGED <<prog, price, n, heap, stable, balance, kept, undo>>

ReserveAccount ==
  /\ pc = "reserve_account"
  /\ act' = act \cup {<<"acc", n>>}
  /\ balance' = [balance EXCEPT ![n] = deposit[n]]
  /\ pc' = "persist"
  /\ UNCHANGED <<prog, price, n, heap, flushed, stable, kept, undo>>

\* pmemobj_persist drains: everything flushed before is in the medium too.
Persist ==
  /\ pc = "persist"
  /\ stable' = stable \cup flushed \cup {<<"acc", n>>}
  /\ flushed' = {}
  /\ kept' = [kept EXCEPT ![n] = balance[n]]
  /\ pc' = "publish"
  /\ UNCHANGED <<prog, price, n, act, heap, balance, undo>>

\* pmemobj_publish: both reservations become allocations at once.
Publish ==
  /\ pc = "publish"
  /\ heap' = heap \cup act
  /\ act' = {}
  /\ IF n = 1 THEN n' = 2 /\ pc' = "reserve_name"
              ELSE n' = n /\ pc' = IF prog = "tx" THEN "tx_add" ELSE "set_values"
  /\ UNCHANGED <<prog, price, flushed, stable, balance, kept, undo>>
-----------------------------------------------------------------------------
(* The transfer *)

Moved == <<balance[1] - price, balance[2] + price>>

\* 7_6: two pmemobj_set_value, published at once.
SetValues ==
  /\ pc = "set_values"
  /\ balance' = Moved /\ kept' = Moved
  /\ pc' = "close"
  /\ UNCHANGED <<prog, price, n, act, heap, flushed, stable, undo>>

\* Mutant of TxAdd: only one balance goes into the undo log.
TxAddOne ==
  /\ pc = "tx_add"
  /\ undo' = {<<1, balance[1]>>}
  /\ pc' = "debit"
  /\ UNCHANGED <<prog, price, n, act, heap, flushed, stable, balance, kept>>

\* 7_7: TX_ADD_DIRECT of both balances, ...
TxAdd ==
  /\ pc = "tx_add"
  /\ undo' = {<<a, balance[a]>> : a \in 1 .. 2}
  /\ pc' = "debit"
  /\ UNCHANGED <<prog, price, n, act, heap, flushed, stable, balance, kept>>

\* ... two stores, ...
Debit ==
  /\ pc = "debit"
  /\ balance' = [balance EXCEPT ![1] = @ - price]
  /\ pc' = "credit"
  /\ UNCHANGED <<prog, price, n, act, heap, flushed, stable, kept, undo>>

Credit ==
  /\ pc = "credit"
  /\ balance' = [balance EXCEPT ![2] = @ + price]
  /\ pc' = "commit"
  /\ UNCHANGED <<prog, price, n, act, heap, flushed, stable, kept, undo>>

\* ... and the commit persists what was added and drops the log.
TxCommit ==
  /\ pc = "commit"
  /\ kept' = balance
  /\ undo' = {}
  /\ pc' = "close"
  /\ UNCHANGED <<prog, price, n, act, heap, flushed, stable, balance>>

Close ==
  /\ pc = "close"
  /\ pc' = "down"
  /\ UNCHANGED <<prog, price, n, act, heap, flushed, stable, balance, kept, undo>>
-----------------------------------------------------------------------------
\* No room: die().  The reservations were in memory only.
Die ==
  /\ pc \in {"reserve_name", "reserve_account"}
  /\ pc' = "down"
  /\ act' = {}
  /\ UNCHANGED <<prog, price, n, heap, flushed, stable, balance, kept, undo>>

\* The machine stops.  Opening the pool applies the undo log; main itself cannot run again
\* on the pool, because it creates it.
PowerFails ==
  /\ pc # "down"
  /\ \E reached \in SUBSET flushed : stable' = stable \cup reached
  /\ \E lost \in SUBSET (1 .. 2) :
       balance' = [a \in 1 .. 2 |->
                     IF \E u \in undo : u[1] = a THEN (CHOOSE u \in undo : u[1] = a)[2]
                     ELSE IF a \in lost THEN kept[a] ELSE balance[a]]
  /\ kept' = balance'
  /\ act' = {} /\ flushed' = {} /\ undo' = {}
  /\ pc' = "down"
  /\ UNCHANGED <<prog, price, n, heap>>

Next ==
  \/ ReserveName \/ ReserveAccount \/ Persist \/ Publish
  \/ (prog = "publish" /\ SetValues)
  \/ (prog = "tx" /\ (TxAdd \/ Debit \/ Credit \/ TxCommit))
  \/ Close \/ Die \/ PowerFails

Spec == Init /\ [][Next]_vars
-----------------------------------------------------------------------------
\* Wherever it ends, the pool holds whole accounts: an account and its name are allocated
\* together and their contents are in the medium, and no money was made or lost between
\* the two customers.
PoolIsConsistent ==
  pc = "down" =>
    /\ heap \subseteq stable
    /\ \A c \in 1 .. 2 : <<"acc", c>> \in heap <=> <<"str", c>> \in heap
    /\ heap = Object => balance \in {deposit, <<deposit[1] - price, deposit[2] + price>>}
    /\ <<"acc", 1>> \in heap /\ heap # Object => balance[1] = deposit[1]

=============================================================================
