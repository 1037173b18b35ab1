----------------------------- MODULE PmembbList ------------------------------
(***************************************************************************)
(* pmembb_list's main(): one writer thread and one flusher thread drive    *)
(* the burst buffer for a fixed number of rounds, are joined, and the pool *)
(* is closed; the program may then be run again on the same pool.  The     *)
(* flush callback of main() always returns false.                          *)
(***************************************************************************)
EXTENDS BurstBuffer

CONSTANT Rounds   \* iterations of each thread's loop (1000 in the code)

ASSUME RoundsAssumption == Rounds \in Nat \ {0}

VARIABLES
  wround,    \* i of the writer's loop
  wcall,     \* the call the writer is at: first pwrite, second pwrite, enqueue
  fround,    \* i of the flusher's loop
  leftover   \* history: the writes handed to the flusher before this run

loop == <<wround, wcall, fround, leftover>>
mainVars == <<vars, loop>>

MainInit == Init /\ wround = 0 /\ wcall = 0 /\ fround = 0 /\ leftover = 0

Start == /\ Setup
         /\ leftover' = enqueued
         /\ UNCHANGED <<wround, wcall, fround>>
-----------------------------------------------------------------------------
(* The writer's loop body: two pwrites, whose results are ignored, and one *)
(* tryEnqueueFlush, whose result is ignored too.                           *)

WriterRunning == wround < Rounds

PwriteReturns == wcall' = wcall + 1 /\ UNCHANGED <<wround, fround, leftover>>

EnqueueReturns == /\ wcall' = 0
                  /\ wround' = wround + 1
                  /\ UNCHANGED <<fround, leftover>>

WriterThread ==
  /\ WriterRunning
  /\ \/ wcall < 2  /\ (\E n \in Nodes : PwriteAlloc(n)) /\ UNCHANGED loop
     \/ wcall < 2  /\ PwriteAdvance /\ PwriteReturns
     \/ wcall < 2  /\ PwriteFails /\ PwriteReturns
     \/ wcall = 2  /\ EnqueueLock /\ UNCHANGED loop
     \/ EnqueueBusy /\ EnqueueReturns
     \/ EnqueueMove /\ UNCHANGED loop
     \/ EnqueueCut /\ UNCHANGED loop
     \/ EnqueueCommit /\ UNCHANGED loop
     \/ EnqueueReset /\ EnqueueReturns

\* Mutant of FlusherThread: flushAll gives up when flush_mutex_ is taken.
FlusherThreadTryLock ==
  /\ fround < Rounds
  /\ \/ FlushLock /\ UNCHANGED loop
     \/ /\ FlusherAt("idle") /\ mtx # "free"
        /\ fround' = fround + 1 /\ UNCHANGED <<vars, wround, wcall, leftover>>
     \/ FlushAccept /\ UNCHANGED loop
     \/ FlushScanned /\ UNCHANGED loop
     \/ FlushDelete /\ UNCHANGED loop
     \/ FlushClear /\ UNCHANGED loop
     \/ FlushCommit /\ fround' = fround + 1 /\ UNCHANGED <<wround, wcall, leftover>>

(* The flusher's loop body: one flushAll. *)
FlusherThread ==
  /\ fround < Rounds
  /\ \/ FlushLock /\ UNCHANGED loop
     \/ FlushAccept /\ UNCHANGED loop
     \/ FlushScanned /\ UNCHANGED loop
     \/ FlushDelete /\ UNCHANGED loop
     \/ FlushClear /\ UNCHANGED loop
     \/ FlushCommit /\ fround' = fround + 1 /\ UNCHANGED <<wround, wcall, leftover>>

\* writer_thread.join(), flusher_thread.join(), pop.close()
JoinAndClose ==
  /\ wround = Rounds /\ fround = Rounds
  /\ Close
  /\ wround' = 0 /\ wcall' = 0 /\ fround' = 0 /\ UNCHANGED leftover

Die == /\ Crash
       /\ wround' = 0 /\ wcall' = 0 /\ fround' = 0 /\ UNCHANGED leftover

MainNext == Start \/ WriterThread \/ FlusherThread \/ JoinAndClose \/ Die

MainSpec == MainInit /\ [][MainNext]_mainVars

\* The operating system runs every thread of the process; nobody is obliged to
\* run the program again.  Each thread asks for flush_mutex_ a bounded number
\* of times, so weak fairness is enough for both to get it.
MainFairSpec == /\ MainSpec
                /\ WF_mainVars(phase # "down" /\ Start)
                /\ WF_mainVars(WriterThread)
                /\ WF_mainVars(FlusherThread)
                /\ WF_mainVars(JoinAndClose)
-----------------------------------------------------------------------------
(* A batch left behind by an earlier run (the flusher had used up its      *)
(* rounds, or the process died) is released by the flusher's first         *)
(* flushAll of the next complete run.                                      *)
LeftoverFlushed == fround > 0 => released >= leftover

(* Once started the program ends: neither thread waits for ever for        *)
(* flush_mutex_, and both joins return.                                    *)
Terminates == phase = "running" ~> phase = "down"

(* A batch handed over while the flusher still has a flushAll to begin is  *)
(* flushed in this run, unless the process dies.                           *)
BatchFlushed ==
  \A c \in 0 .. MaxCrashes :
    (crashes = c /\ FlusherAt("idle") /\ fround < Rounds /\ flushing # NULL)
      ~> (flushing = NULL \/ crashes > c)
=============================================================================
