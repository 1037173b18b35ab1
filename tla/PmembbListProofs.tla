-------------------------- MODULE PmembbListProofs ---------------------------
(***************************************************************************)
(* Proofs about pmembb_list's main(), for every number of rounds.          *)
(***************************************************************************)
EXTENDS PmembbList, BurstBufferProofs

(* main() only uses the operations of the burst buffer, so that everything *)
(* proved of any client holds of the program.                              *)
THEOREM MainUsesBurstBuffer == MainSpec => Spec
<1>1. MainInit => Init
  BY DEF MainInit
<1>2. [MainNext]_mainVars => [Next]_vars
  BY DEF MainNext, mainVars, Start, WriterThread, FlusherThread, JoinAndClose, Die,
     Next, Writer, Flusher
<1> QED
  BY <1>1, <1>2, PTL DEF MainSpec, Spec

(* The program never loses a write, whenever it is killed and however      *)
(* often it is run again on the same pool.                                 *)
THEOREM MainDurability == MainSpec => []NoWriteLost
BY MainUsesBurstBuffer, BurstBufferDurability, PTL

(* The program's writes go through a durable queue: its runs, taken        *)
(* together, are one behaviour of module DurableQueue.                     *)
THEOREM MainIsAQueue == MainSpec => ImplementsDurableQueue
BY MainUsesBurstBuffer, BurstBufferIsAQueue, PTL

\* Why LeftoverFlushed holds: a run starts with no round done, and a round
\* ends only by committing the release of everything handed over so far.
LeftoverInv == /\ leftover \in Nat /\ fround \in Nat
               /\ leftover <= enqueued
               /\ phase # "running" => fround = 0
               /\ LeftoverFlushed

(* Whatever an earlier run left with the flusher is released by the end of *)
(* the first flushAll of the next one.                                     *)
THEOREM MainLeftoverFlushed == MainSpec => []LeftoverFlushed
<1>1. MainInit => LeftoverInv
  BY DEF MainInit, Init, LeftoverInv, LeftoverFlushed
<1>2. IndInv /\ LeftoverInv /\ [MainNext]_mainVars => LeftoverInv'
  <2> SUFFICES ASSUME IndInv, LeftoverInv, [MainNext]_mainVars
               PROVE  LeftoverInv'
    OBVIOUS
  <2> USE DEF LeftoverInv, LeftoverFlushed, hist, WriterAt, FlusherAt
  <2>0. /\ enqueued \in Nat /\ written \in Nat /\ released \in Nat
        /\ enqueued <= written /\ released <= enqueued
    BY DEF IndInv, TypeOK, NumbersInv
  <2>1. CASE Start
    <3>1. fround = 0 /\ fround' = 0 /\ leftover' = enqueued /\ UNCHANGED <<enqueued, released>>
      BY <2>1 DEF Start, Setup, Open, CreateSentinel, SentinelFails, FindSentinel, WalkTail
    <3> QED
      BY <2>0, <3>1
  <2>2. CASE WriterThread
    <3>1. /\ UNCHANGED <<fround, leftover, phase, released>>
          /\ enqueued' = enqueued \/ enqueued' = written
      BY <2>2 DEF WriterThread, loop, PwriteReturns, EnqueueReturns, PwriteAlloc,
         PwriteAdvance, PwriteFails, EnqueueLock, EnqueueBusy, EnqueueMove, EnqueueCut,
         EnqueueCommit, EnqueueReset, vars, local
    <3> QED
      BY <2>0, <3>1
  <2>3. CASE FlusherThread
    <3>1. CASE FlushCommit /\ fround' = fround + 1 /\ UNCHANGED <<wround, wcall, leftover>>
      BY <2>0, <3>1 DEF FlushCommit
    <3>2. CASE UNCHANGED loop /\ (FlushLock \/ FlushAccept \/ FlushScanned \/ FlushDelete \/ FlushClear)
      BY <3>2 DEF loop, FlushLock, FlushAccept, FlushScanned, FlushDelete, FlushClear
    <3> QED
      BY <2>3, <3>1, <3>2 DEF FlusherThread
  <2>4. CASE JoinAndClose \/ Die
    BY <2>4 DEF JoinAndClose, Close, Die, Crash, ProcessEnds
  <2>5. CASE UNCHANGED mainVars
    BY <2>5 DEF mainVars, vars, local, loop
  <2> QED
    BY <2>1, <2>2, <2>3, <2>4, <2>5 DEF MainNext
<1>3. LeftoverInv => LeftoverFlushed
  BY DEF LeftoverInv
<1> QED
  BY <1>1, <1>2, <1>3, MainUsesBurstBuffer, BurstBufferInvariant, PTL DEF MainSpec
=============================================================================
