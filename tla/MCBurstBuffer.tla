---------------------------- MODULE MCBurstBuffer ----------------------------
(***************************************************************************)
(* The burst buffer for TLC: room for the sentinel and four writes, with a *)
(* callback that may give up at any node and clients that may call any     *)
(* operation at any time.  Heap blocks are interchangeable.                *)
(***************************************************************************)
EXTENDS BurstBuffer, TLC

Perms == Permutations(Nodes)
=============================================================================
