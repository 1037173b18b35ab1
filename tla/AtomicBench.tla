----------------------------- MODULE AtomicBench -----------------------------
(***************************************************************************)
(* atomic_bench: the threads of psync's three barriers share one atomic    *)
(* counter.  Main is party 0, the workers are parties 1 .. nthreads; a     *)
(* barrier is its promise, AbstractBarrier.                                *)
(***************************************************************************)
EXTENDS Naturals

CONSTANTS
  Args,         \* the command lines: [nthreads, total]
  MaxThreads    \* the most threads of any of them

VARIABLES
  args,
  pc,           \* where each party is
  missing,      \* how many parties each barrier still waits for
  j,            \* the loop counter of each worker
  counter,      \* the std::atomic
  timer         \* elapsed_time

vars == <<args, pc, missing, j, counter, timer>>

Parties  == 0 .. args.nthreads
Workers  == 1 .. args.nthreads
Barriers == {"ready", "timer", "finish"}

count_per_thread == args.total \div args.nthreads

Init ==
  /\ args \in Args
  /\ pc = [p \in Parties |-> IF p = 0 THEN "check" ELSE "unborn"]
  /\ missing = [b \in Barriers |-> args.nthreads + 1]
  /\ j = [w \in Workers |-> 0]
  /\ counter = 0
  /\ timer = "unset"

Goto(p, from, to) == pc[p] = from /\ pc' = [pc EXCEPT ![p] = to]
-----------------------------------------------------------------------------
(* main *)

\* Mutant of Check: an uneven share is accepted.
CheckNonzero ==
  /\ Goto(0, "check", IF args.nthreads = 0 THEN "crashed" ELSE "spawn")
  /\ UNCHANGED <<args, missing, j, counter, timer>>

\* total_count % nthreads, which traps when nthreads is 0.
Check ==
  /\ Goto(0, "check", IF args.nthreads = 0 THEN "crashed"
                      ELSE IF args.total % args.nthreads # 0 THEN "rejected" ELSE "spawn")
  /\ UNCHANGED <<args, missing, j, counter, timer>>

Spawn(w) ==
  /\ pc[0] = "spawn"
  /\ \A v \in Workers : pc[v] = "unborn" <=> v >= w
  /\ pc' = [pc EXCEPT ![w] = "ready", ![0] = IF w = args.nthreads THEN "ready" ELSE @]
  /\ UNCHANGED <<args, missing, j, counter, timer>>

\* The constructor of std::thread throws: main prints the exception if that was the first
\* thread, and is terminated by the destructor of the others if not.
SpawnFails == Goto(0, "spawn", "aborted") /\ UNCHANGED <<args, missing, j, counter, timer>>

\* What each party does when it has passed a barrier.
AfterBarrier(p, b) ==
  CASE b = "ready"  -> IF p = 0 THEN "start_timer" ELSE "timer"
    [] b = "timer"  -> IF p = 0 THEN "finish" ELSE "count"
    [] b = "finish" -> IF p = 0 THEN "freeze" ELSE "done"

StartTimer ==
  /\ Goto(0, "start_timer", "timer")
  /\ timer' = "running"
  /\ UNCHANGED <<args, missing, j, counter>>

Freeze == Goto(0, "freeze", "join") /\ timer' = "frozen" /\ UNCHANGED <<args, missing, j, counter>>

Join ==
  /\ Goto(0, "join", "compare")
  /\ \A w \in Workers : pc[w] = "done"
  /\ UNCHANGED <<args, missing, j, counter, timer>>

\* if (counter != total_count) throw; otherwise the report.
Compare ==
  /\ Goto(0, "compare", IF counter # args.total THEN "threw" ELSE "reported")
  /\ UNCHANGED <<args, missing, j, counter, timer>>
-----------------------------------------------------------------------------
(* Barrier::enter, for main and for the workers *)

Inside == [ready |-> "in_ready", timer |-> "in_timer", finish |-> "in_finish"]

Enter(p, b) ==
  /\ Goto(p, b, Inside[b])
  /\ missing' = [missing EXCEPT ![b] = @ - 1]
  /\ UNCHANGED <<args, j, counter, timer>>

Leave(p, b) ==
  /\ missing[b] = 0
  /\ Goto(p, Inside[b], AfterBarrier(p, b))
  /\ UNCHANGED <<args, missing, j, counter, timer>>

\* counter++, count_per_thread times
Count(w) ==
  /\ pc[w] = "count"
  /\ IF j[w] < count_per_thread
       THEN j' = [j EXCEPT ![w] = @ + 1] /\ counter' = counter + 1 /\ UNCHANGED pc
       ELSE pc' = [pc EXCEPT ![w] = "finish"] /\ UNCHANGED <<j, counter>>
  /\ UNCHANGED <<args, missing, timer>>

MainStep ==
  \/ Check \/ (\E w \in Workers : Spawn(w)) \/ SpawnFails
  \/ StartTimer \/ Freeze \/ Join \/ Compare
  \/ \E b \in Barriers : Enter(0, b) \/ Leave(0, b)

\* A worker runs as long as the process does.
WorkerStep(w) ==
  /\ pc[0] # "aborted"
  /\ Count(w) \/ \E b \in Barriers : Enter(w, b) \/ Leave(w, b)

Next == MainStep \/ \E w \in Workers : WorkerStep(w)

\* Every thread is scheduled again and again.
Fairness == WF_vars(MainStep) /\ \A w \in 1 .. MaxThreads : WF_vars(w \in Workers /\ WorkerStep(w))

Spec == Init /\ [][Next]_vars /\ Fairness
-----------------------------------------------------------------------------
\* A command line the check accepts ends in a report, unless a thread cannot be created: no
\* barrier holds a party for ever, and the counter is the total asked for, so that main
\* never throws over it.
EndsInReport ==
  pc[0] = "spawn" ~> pc[0] = "aborted" \/ (pc[0] = "reported" /\ counter = args.total)

=============================================================================
