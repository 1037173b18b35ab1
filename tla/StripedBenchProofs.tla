------------------------- MODULE StripedBenchProofs --------------------------
(***************************************************************************)
(* The benchmark harness for all command lines: any number of workers,     *)
(* any sizes that pass the check and any order of the offsets.             *)
(*                                                                         *)
(* The inductive invariant comes in layers, each proved from the ones      *)
(* before it: types and the argument check; what the barriers and the      *)
(* join have synchronised; the flags; the loop counters; and the blocks    *)
(* that are still to be accessed and those that have been.                 *)
(*                                                                         *)
(* At the end, prettyTo for every base and every width of the type.        *)
(***************************************************************************)
EXTENDS MCBenchmarks, FiniteSetTheorems, TLAPS

Offsets == 0 .. blocks_in_strip_unit - 1

MainLoc == {"check", "rejected", "open", "opened", "spawn", "enter_ready", "in_ready",
            "start", "enter_timer", "in_timer", "enter_finish", "in_finish", "freeze",
            "join", "report", "exit", "aborted"}

Loop == {"io", "test", "stripe_end"}

WorkerLoc == {"unborn", "enter_ready", "in_ready", "enter_timer", "in_timer",
              "enter_finish", "in_finish", "done"} \cup Loop

TypeOK ==
  /\ args \in Args
  /\ order \in Bijection(Offsets, Offsets)
  /\ mpc \in MainLoc /\ wpc \in [Workers -> WorkerLoc]
  /\ missing \in [Barriers -> Int]
  /\ timer \in {"unset", "running", "frozen"}
  /\ stripe \in [Workers -> Nat] /\ j \in [Workers -> Nat]
  /\ ret \in {0, 1} /\ own \in [Workers -> {0, 1}]
  /\ fail \in BOOLEAN /\ failed \in BOOLEAN
  /\ report \in {"none", "failure", "success"}

Unspawned == {"check", "rejected", "open", "opened"}

\* What the argument check and the size of the pool have established before a worker is
\* created.
Checked ==
  /\ mpc \in Unspawned => \A w \in Workers : wpc[w] = "unborn"
  /\ mpc \notin {"check", "rejected"} => ValidArgs
  /\ mpc \notin Unspawned => PoolFits
-----------------------------------------------------------------------------
(* Types and the argument check *)

LEMMA ArgsTypes ==
  ASSUME args \in Args
  PROVE  /\ args.total \in Nat /\ args.nelements \in Nat
         /\ args.stripe \in Nat \ {0} /\ args.block \in Nat \ {0}
         /\ args.nthreads \in Nat \ {0}
  BY ArgsAssumption

\* Nothing changes the arguments.
LEMMA ArgsUnchanged ==
  ASSUME [Next]_vars
  PROVE  /\ args' = args
         /\ Workers' = Workers /\ Offsets' = Offsets /\ Program' = Program
         /\ HasFinishBarrier' = HasFinishBarrier
  <1>1. args' = args
    BY DEF Next, MainStep, WorkerStep, Done, vars, Reject, Accept, OpenPool, OpenFails,
           PoolTooSmall, Prepare, Spawn, SpawnFails, MainEnter, MainLeave, StartTimer, Freeze, Join,
           Report, WorkerEnter, WorkerLeave, Succeed, Fail, Throw, Store, Test, StripeEnd
  <1> QED  BY <1>1 DEF Workers, Offsets, Program, HasFinishBarrier, blocks_in_strip_unit,
                       strip_unit_size

LEMMA IdentityIsBijection ==
  ASSUME NEW S
  PROVE  [k \in S |-> k] \in Bijection(S, S)
  BY DEF Bijection, Injection, Surjection, IsInjective

LEMMA InitType == Init => TypeOK
  <1> SUFFICES ASSUME Init PROVE TypeOK  OBVIOUS
  <1> USE DEF Init
  <1>1. order \in Bijection(Offsets, Offsets)  BY IdentityIsBijection DEF Offsets
  <1>2. Parties \in Int  BY ArgsTypes DEF Parties
  <1> QED  BY <1>1, <1>2 DEF TypeOK, MainLoc, WorkerLoc

LEMMA NextType == TypeOK /\ [Next]_vars => TypeOK'
  <1> SUFFICES ASSUME TypeOK, [Next]_vars PROVE TypeOK'  OBVIOUS
  <1> USE ArgsUnchanged DEF TypeOK
  <1>1. CASE UNCHANGED vars
    BY <1>1 DEF vars, threadVars, loopVars, resultVars
  <1>2. CASE Reject \/ Accept \/ OpenPool \/ OpenFails \/ PoolTooSmall
    BY <1>2 DEF Reject, Accept, OpenPool, OpenFails, PoolTooSmall, MainGoto, MainLoc,
                loopVars, resultVars
  <1>3. CASE Prepare
    <2>1. DOMAIN order = Offsets  BY DEF Bijection, Injection
    <2> QED  BY <1>3, <2>1 DEF Prepare, MainGoto, MainLoc, loopVars, resultVars
  <1>4. ASSUME NEW w \in Workers, Spawn(w) PROVE TypeOK'
    BY <1>4 DEF Spawn, MainLoc, WorkerLoc, loopVars, resultVars
  <1>4a. CASE SpawnFails
    BY <1>4a DEF SpawnFails, MainGoto, MainLoc, loopVars, resultVars
  <1>5. ASSUME NEW b \in Barriers, NEW from, NEW to \in MainLoc,
               MainEnter(b, from, to) \/ MainLeave(b, from, to)
        PROVE  TypeOK'
    BY <1>5 DEF MainEnter, MainLeave, MainGoto, loopVars, resultVars
  <1>6. CASE StartTimer \/ Freeze \/ Join \/ Report
    BY <1>6 DEF StartTimer, Freeze, Join, Report, MainGoto, MainLoc, AfterFreeze, AfterJoin,
                loopVars, resultVars
  <1>7. ASSUME NEW w \in Workers, NEW b \in Barriers, NEW from, NEW to \in WorkerLoc,
               WorkerEnter(w, b, from, to) \/ WorkerLeave(w, b, from, to)
        PROVE  TypeOK'
    BY <1>7 DEF WorkerEnter, WorkerLeave, WorkerGoto, loopVars, resultVars
  <1>8a. ASSUME NEW w \in Workers, Succeed(w) PROVE TypeOK'
    BY <1>8a DEF Succeed, Advance, WorkerGoto, WorkerLoc, Loop, loopVars, resultVars
  <1>8b. ASSUME NEW w \in Workers, Fail(w) PROVE TypeOK'
    BY <1>8b DEF Fail, Break, WorkerGoto, WorkerLoc, Loop, loopVars, resultVars
  <1>9. ASSUME NEW w \in Workers, Throw(w) PROVE TypeOK'
    BY <1>9 DEF Throw, MainLoc, loopVars, resultVars
  <1>10. ASSUME NEW w \in Workers, Store(w) PROVE TypeOK'
    BY <1>10 DEF Store, WorkerGoto, WorkerLoc, Loop, loopVars, resultVars
  <1>11. ASSUME NEW w \in Workers, Test(w) PROVE TypeOK'
    <2>1. CASE Advance(w, "test") /\ UNCHANGED fail
      BY <1>11, <2>1 DEF Test, Advance, WorkerGoto, WorkerLoc, Loop, loopVars, resultVars
    <2>2. CASE Break(w, "test")
      BY <1>11, <2>2 DEF Test, Break, WorkerGoto, WorkerLoc, Loop, loopVars, resultVars
    <2> QED  BY <1>11, <2>1, <2>2 DEF Test
  <1>12. ASSUME NEW w \in Workers, StripeEnd(w) PROVE TypeOK'
    BY <1>12 DEF StripeEnd, WorkerGoto, WorkerLoc, Loop, NextStripe, AfterLoop, loopVars, resultVars
  <1>13. AfterTimerBarrier \in MainLoc /\ NextStripe(0) \in WorkerLoc
    BY DEF AfterTimerBarrier, MainLoc, NextStripe, AfterLoop, WorkerLoc, Loop
  <1> QED
    BY <1>1, <1>2, <1>3, <1>4, <1>4a, <1>5, <1>6, <1>7, <1>8a, <1>8b, <1>9, <1>10, <1>11, <1>12, <1>13
    DEF Next, MainStep, WorkerStep, Done, Barriers, MainLoc, WorkerLoc

LEMMA NextChecked == TypeOK /\ Checked /\ [Next]_vars => Checked'
  <1> SUFFICES ASSUME TypeOK, Checked, [Next]_vars PROVE Checked'  OBVIOUS
  <1>1. (ValidArgs' <=> ValidArgs) /\ (PoolFits' <=> PoolFits)
    BY ArgsUnchanged DEF ValidArgs, PoolFits, Program, strip_unit_size, nobjects
  <1> USE ArgsUnchanged DEF Checked, Unspawned, TypeOK
  <1>2. CASE UNCHANGED <<mpc, wpc>>  BY <1>1, <1>2
  <1>3. CASE Reject \/ Accept \/ OpenPool \/ OpenFails \/ PoolTooSmall \/ Prepare
    BY <1>1, <1>3 DEF Reject, Accept, OpenPool, OpenFails, PoolTooSmall, Prepare, MainGoto
  <1>4. ASSUME NEW w \in Workers, Spawn(w) PROVE Checked'
    BY <1>1, <1>4 DEF Spawn
  <1>6. CASE mpc \in Unspawned /\ \E w \in Workers : wpc[w] # "unborn"
    BY <1>6
  <1>7. ASSUME NEW w \in Workers, WorkerStep(w), mpc' = mpc \/ mpc' = "aborted"
        PROVE  \/ UNCHANGED <<mpc, wpc>>
               \/ wpc[w] # "unborn"
    BY <1>7 DEF WorkerStep, WorkerEnter, WorkerLeave, Succeed, Fail, Throw, Store, Test,
                StripeEnd, Advance, Break, WorkerGoto
  <1>8. ASSUME NEW w \in Workers, WorkerStep(w) PROVE mpc' = mpc \/ mpc' = "aborted"
    BY <1>8 DEF WorkerStep, WorkerEnter, WorkerLeave, Succeed, Fail, Throw, Store, Test,
                StripeEnd
  <1>9. CASE mpc \notin Unspawned
    <2>1. mpc' \notin Unspawned
      BY <1>8, <1>9
      DEF Next, MainStep, Done, vars, threadVars, Reject, Accept, OpenPool, OpenFails,
          PoolTooSmall, Prepare, Spawn, SpawnFails, MainEnter, MainLeave, MainGoto, StartTimer, Freeze,
          Join, Report, AfterFreeze, AfterJoin, AfterTimerBarrier
    <2> QED  BY <1>1, <1>9, <2>1
  <1> QED
    BY <1>2, <1>3, <1>4, <1>6, <1>7, <1>8, <1>9
    DEF Next, MainStep, Done, vars, threadVars, SpawnFails, MainEnter, MainLeave, MainGoto,
        StartTimer, Freeze, Join, Report, Unspawned
-----------------------------------------------------------------------------
(* The barriers, the join and the timer *)

\* Who has still to arrive at barrier b.  Program "blk" has no barrier "finish".
WorkerBefore(b) ==
  {"unborn", "enter_ready"}
    \cup (IF b = "ready" THEN {} ELSE {"in_ready", "enter_timer"})
    \cup (IF b = "finish" THEN Loop \cup {"in_timer", "enter_finish"} ELSE {})

MainBefore(b) ==
  {"check", "rejected", "open", "opened", "spawn", "enter_ready"}
    \cup (IF b = "ready" THEN {} ELSE {"in_ready", "start", "enter_timer"})
    \cup (IF b = "finish" THEN {"in_timer", "enter_finish"} ELSE {})

Waiting(b) == {w \in Workers : wpc[w] \in WorkerBefore(b)}

\* A barrier counts those who are still to come ...
BarrierCounts ==
  mpc # "aborted" =>
    \A b \in Barriers : (b = "finish" => HasFinishBarrier) =>
      missing[b] = Cardinality(Waiting(b)) + (IF mpc \in MainBefore(b) THEN 1 ELSE 0)

\* ... and nobody is past it before all have come.
BarrierSeparates ==
  /\ mpc \notin MainBefore("ready") \cup {"in_ready", "aborted"} => Waiting("ready") = {}
  /\ \A w \in Workers : wpc[w] \notin WorkerBefore("timer") \cup {"in_timer"}
                           => mpc \notin MainBefore("timer")
  /\ HasFinishBarrier /\ mpc \in {"freeze", "join", "report", "exit"} => Waiting("finish") = {}

\* The join waits for the end of every worker; program "blk" has nothing else to wait for.
JoinWaits ==
  /\ mpc \in {"report", "exit"} \/ (~HasFinishBarrier /\ mpc = "freeze")
       => \A w \in Workers : wpc[w] = "done"
  /\ mpc \in {"enter_finish", "in_finish"} => HasFinishBarrier
  /\ \A w \in Workers : wpc[w] \in {"enter_finish", "in_finish"} => HasFinishBarrier

\* The timer follows main.
TimerFollowsMain ==
  /\ mpc \in MainBefore("timer") \ {"enter_timer"} => timer = "unset"
  /\ mpc \in {"enter_timer", "in_timer", "enter_finish", "in_finish", "freeze"}
       => timer = "running"
  /\ ~HasFinishBarrier /\ mpc = "join" => timer = "running"

SyncInv ==
  /\ BarrierCounts /\ BarrierSeparates /\ JoinWaits /\ TimerFollowsMain
  /\ TimerBracketsIO


LEMMA WaitingFinite ==
  ASSUME TypeOK, NEW b
  PROVE  /\ IsFiniteSet(Waiting(b)) /\ Cardinality(Waiting(b)) \in Nat
         /\ Cardinality(Waiting(b)) = 0 <=> Waiting(b) = {}
  <1>1. IsFiniteSet(Workers)  BY ArgsTypes, FS_Interval DEF Workers, TypeOK
  <1>2. Waiting(b) \in SUBSET Workers  BY DEF Waiting
  <1>3. IsFiniteSet(Waiting(b))  BY <1>1, <1>2, FS_Subset
  <1> QED  BY <1>3, FS_CardinalityType, FS_EmptySet

\* How a step of worker w changes who is awaited at b.
LEMMA WaitingMove ==
  ASSUME TypeOK, [Next]_vars, NEW w \in Workers, NEW to, wpc' = [wpc EXCEPT ![w] = to], NEW b
  PROVE  /\ (wpc[w] \in WorkerBefore(b) <=> to \in WorkerBefore(b)) => Waiting(b)' = Waiting(b)
         /\ wpc[w] \in WorkerBefore(b) /\ to \notin WorkerBefore(b) =>
              /\ Waiting(b)' = Waiting(b) \ {w}
              /\ Cardinality(Waiting(b)') = Cardinality(Waiting(b)) - 1
  <1>1. Workers' = Workers  BY ArgsUnchanged
  <1>2. wpc \in [Workers -> WorkerLoc]  BY DEF TypeOK
  <1>3. WorkerBefore(b)' = WorkerBefore(b)  BY DEF WorkerBefore, Loop
  <1>4. ASSUME wpc[w] \in WorkerBefore(b) <=> to \in WorkerBefore(b)
        PROVE  Waiting(b)' = Waiting(b)
    BY <1>1, <1>2, <1>3, <1>4 DEF Waiting
  <1>5. ASSUME wpc[w] \in WorkerBefore(b), to \notin WorkerBefore(b)
        PROVE  Waiting(b)' = Waiting(b) \ {w} /\ w \in Waiting(b)
    BY <1>1, <1>2, <1>3, <1>5 DEF Waiting
  <1> QED  BY <1>4, <1>5, WaitingFinite, FS_RemoveElement

LEMMA InitSync == Init => SyncInv
  <1> SUFFICES ASSUME Init PROVE SyncInv  OBVIOUS
  <1> USE DEF Init
  <1>1. TypeOK  BY InitType
  <1>2. \A b \in Barriers : Waiting(b) = Workers
    BY DEF Waiting, WorkerBefore
  <1>3. Cardinality(Workers) = args.nthreads
    BY <1>1, ArgsTypes, FS_Interval DEF Workers, TypeOK
  <1>4. BarrierCounts
    BY <1>2, <1>3 DEF BarrierCounts, MainBefore, Parties
  <1>5. BarrierSeparates /\ JoinWaits /\ TimerFollowsMain
    BY DEF BarrierSeparates, JoinWaits, TimerFollowsMain, MainBefore, WorkerBefore
  <1>6. TimerBracketsIO  BY DEF TimerBracketsIO
  <1> QED  BY <1>4, <1>5, <1>6 DEF SyncInv

\* A step of main that is not an arrival leaves the barriers as they are.
LEMMA MainMoveCounts ==
  ASSUME TypeOK, SyncInv, [Next]_vars, mpc # "aborted", UNCHANGED <<wpc, missing>>,
         \A b \in Barriers : (b = "finish" => HasFinishBarrier)
                                => (mpc \in MainBefore(b) <=> mpc' \in MainBefore(b))
  PROVE  BarrierCounts' /\ \A b \in Barriers : Waiting(b)' = Waiting(b)
  <1>1. \A b \in Barriers : Waiting(b)' = Waiting(b)
    BY ArgsUnchanged DEF Waiting, WorkerBefore, Loop
  <1>2. \A b \in Barriers : MainBefore(b)' = MainBefore(b)  BY DEF MainBefore
  <1> QED  BY <1>1, <1>2, ArgsUnchanged DEF SyncInv, BarrierCounts, Barriers

\* The first steps of main, up to the spawn, reach no barrier.
LEMMA PrepareSync ==
  ASSUME TypeOK, Checked, SyncInv, [Next]_vars,
         Reject \/ Accept \/ OpenPool \/ OpenFails \/ PoolTooSmall \/ Prepare
  PROVE  SyncInv'
  <1>1. /\ mpc \in Unspawned /\ mpc' \in Unspawned \cup {"spawn"}
        /\ UNCHANGED <<wpc, missing, timer>>
    BY DEF Reject, Accept, OpenPool, OpenFails, PoolTooSmall, Prepare, MainGoto, Unspawned
  <1>2. BarrierCounts' /\ \A b \in Barriers : Waiting(b)' = Waiting(b)
    BY <1>1, MainMoveCounts DEF MainBefore, Unspawned
  <1>3. \A w \in Workers : wpc[w] = "unborn"  BY <1>1 DEF Checked
  <1> QED
    BY <1>1, <1>2, <1>3, ArgsUnchanged
    DEF SyncInv, BarrierSeparates, JoinWaits, TimerFollowsMain, TimerBracketsIO, MainBefore,
        WorkerBefore, Barriers, Unspawned

LEMMA SpawnSync ==
  ASSUME TypeOK, SyncInv, [Next]_vars, NEW w \in Workers, Spawn(w)
  PROVE  SyncInv'
  <1>1. /\ mpc = "spawn" /\ mpc' \in {"spawn", "enter_ready"}
        /\ wpc[w] = "unborn" /\ wpc' = [wpc EXCEPT ![w] = "enter_ready"]
        /\ UNCHANGED <<missing, timer>>
    BY ArgsTypes DEF Spawn, Workers, TypeOK
  <1>2. \A b \in Barriers : Waiting(b)' = Waiting(b)
    BY <1>1, WaitingMove DEF WorkerBefore
  <1>3. BarrierCounts'
    BY <1>1, <1>2, ArgsUnchanged DEF SyncInv, BarrierCounts, MainBefore, Barriers
  <1> QED
    BY <1>1, <1>2, <1>3, ArgsUnchanged
    DEF SyncInv, BarrierSeparates, JoinWaits, TimerFollowsMain, TimerBracketsIO, MainBefore,
        WorkerBefore, Barriers, TypeOK

\* Main arrives at a barrier.
LEMMA MainEnterSync ==
  ASSUME TypeOK, SyncInv, [Next]_vars,
         \/ MainEnter("ready", "enter_ready", "in_ready")
         \/ MainEnter("timer", "enter_timer", "in_timer")
         \/ MainEnter("finish", "enter_finish", "in_finish")
  PROVE  SyncInv'
  <1>1. UNCHANGED <<wpc, timer>> /\ mpc' = mpc' /\ mpc # "aborted" /\ mpc' # "aborted"
    BY DEF MainEnter, MainGoto
  <1>2. \A b \in Barriers : Waiting(b)' = Waiting(b)
    BY <1>1, ArgsUnchanged DEF Waiting, WorkerBefore, Loop
  <1>3. \A b \in Barriers : Cardinality(Waiting(b)) \in Nat  BY WaitingFinite
  <1>4. BarrierCounts'
    BY <1>1, <1>2, <1>3, ArgsUnchanged
    DEF SyncInv, BarrierCounts, MainBefore, Barriers, MainEnter, MainGoto, TypeOK
  <1> QED
    BY <1>1, <1>2, <1>4, ArgsUnchanged
    DEF SyncInv, BarrierSeparates, JoinWaits, TimerFollowsMain, TimerBracketsIO, MainBefore,
        WorkerBefore, Barriers, MainEnter, MainGoto

\* Main passes a barrier: nobody is awaited there any more.
LEMMA MainLeaveSync ==
  ASSUME TypeOK, SyncInv, [Next]_vars, NEW b \in Barriers,
         \/ b = "ready" /\ MainLeave("ready", "in_ready", "start")
         \/ b = "timer" /\ MainLeave("timer", "in_timer", AfterTimerBarrier)
         \/ b = "finish" /\ HasFinishBarrier /\ MainLeave("finish", "in_finish", "freeze")
  PROVE  SyncInv'
  <1>1. /\ UNCHANGED <<wpc, missing, timer>> /\ mpc \notin MainBefore(b) \cup {"aborted"}
        /\ missing[b] = 0
    BY DEF MainLeave, MainGoto, MainBefore
  <1>2. BarrierCounts' /\ \A c \in Barriers : Waiting(c)' = Waiting(c)
    BY <1>1, MainMoveCounts DEF MainLeave, MainGoto, MainBefore, AfterTimerBarrier, Barriers
  <1>3. Waiting(b) = {}
    BY <1>1, WaitingFinite DEF SyncInv, BarrierCounts, Barriers
  <1>4. BarrierSeparates'
    BY <1>1, <1>2, <1>3, ArgsUnchanged
    DEF SyncInv, BarrierSeparates, MainBefore, WorkerBefore, Barriers, MainLeave, MainGoto,
        AfterTimerBarrier
  <1> QED
    BY <1>1, <1>2, <1>4, ArgsUnchanged
    DEF SyncInv, JoinWaits, TimerFollowsMain, TimerBracketsIO, MainBefore, MainLeave, MainGoto,
        AfterTimerBarrier

\* The timer starts, stops, and the workers are joined.
LEMMA TimerSync ==
  ASSUME TypeOK, SyncInv, [Next]_vars, StartTimer \/ Freeze \/ Join \/ Report
  PROVE  SyncInv'
  <1>1. UNCHANGED <<wpc, missing>> /\ mpc # "aborted"
    BY DEF StartTimer, Freeze, Join, Report, MainGoto
  <1>2. BarrierCounts' /\ \A b \in Barriers : Waiting(b)' = Waiting(b)
    BY <1>1, MainMoveCounts
    DEF StartTimer, Freeze, Join, Report, MainGoto, AfterFreeze, AfterJoin, MainBefore, Barriers
  <1>3. BarrierSeparates'
    BY <1>1, <1>2, ArgsUnchanged
    DEF SyncInv, BarrierSeparates, MainBefore, WorkerBefore, Barriers, StartTimer, Freeze, Join,
        Report, MainGoto, AfterFreeze, AfterJoin
  <1>4. JoinWaits'
    BY <1>1, ArgsUnchanged
    DEF SyncInv, JoinWaits, StartTimer, Freeze, Join, Report, MainGoto, AfterFreeze, AfterJoin
  <1>5. TimerFollowsMain'
    BY ArgsUnchanged
    DEF SyncInv, TimerFollowsMain, MainBefore, StartTimer, Freeze, Join, Report, MainGoto,
        AfterFreeze, AfterJoin
  <1>6. TimerBracketsIO'
    <2>1. CASE StartTimer
      BY <1>1, <2>1, ArgsUnchanged
      DEF SyncInv, TimerBracketsIO, BarrierSeparates, Waiting, MainBefore, WorkerBefore,
          StartTimer, MainGoto
    <2>2. CASE Freeze
      <3>1. \A w \in Workers : wpc[w] \notin Loop
        BY <2>2 DEF SyncInv, BarrierSeparates, JoinWaits, Waiting, WorkerBefore, Freeze, MainGoto, Loop
      <3>2. timer = "running"  BY <2>2 DEF SyncInv, TimerFollowsMain, Freeze, MainGoto
      <3> QED  BY <1>1, <2>2, <3>1, <3>2, ArgsUnchanged DEF SyncInv, TimerBracketsIO, Freeze, Loop
    <2>3. CASE Join \/ Report
      BY <1>1, <2>3, ArgsUnchanged DEF SyncInv, TimerBracketsIO, Join, Report
    <2> QED  BY <2>1, <2>2, <2>3
  <1> QED  BY <1>2, <1>3, <1>4, <1>5, <1>6 DEF SyncInv

\* Worker w arrives at a barrier.
LEMMA WorkerEnterSync ==
  ASSUME TypeOK, SyncInv, [Next]_vars, NEW w \in Workers, NEW b \in Barriers, NEW from, NEW to,
         WorkerEnter(w, b, from, to),
         \/ b = "ready" /\ from = "enter_ready" /\ to = "in_ready"
         \/ b = "timer" /\ from = "enter_timer" /\ to = "in_timer"
         \/ b = "finish" /\ from = "enter_finish" /\ to = "in_finish"
  PROVE  SyncInv'
  <1>1. /\ wpc[w] = from /\ wpc' = [wpc EXCEPT ![w] = to]
        /\ missing' = [missing EXCEPT ![b] = @ - 1]
        /\ UNCHANGED <<mpc, timer>> /\ mpc \notin {"exit", "rejected", "aborted"}
    BY DEF WorkerEnter, WorkerGoto, Ended
  <1>2. Cardinality(Waiting(b)') = Cardinality(Waiting(b)) - 1 /\ Waiting(b)' = Waiting(b) \ {w}
    BY <1>1, WaitingMove DEF WorkerBefore, Loop
  <1>3. ASSUME NEW c \in Barriers, c # b PROVE Waiting(c)' = Waiting(c)
    BY <1>1, <1>3, WaitingMove, ZenonT(30) DEF WorkerBefore, Loop, Barriers
  <1>4. \A c \in Barriers : Cardinality(Waiting(c)) \in Nat  BY WaitingFinite
  <1>5. \A c \in Barriers : MainBefore(c)' = MainBefore(c)  BY DEF MainBefore
  <1>6. BarrierCounts'
    <2> SUFFICES ASSUME NEW c \in Barriers, c = "finish" => HasFinishBarrier
                 PROVE  missing'[c] = Cardinality(Waiting(c)')
                                        + (IF mpc \in MainBefore(c) THEN 1 ELSE 0)
      BY <1>1, <1>5, ArgsUnchanged DEF BarrierCounts, Barriers
    <2>1. missing[c] = Cardinality(Waiting(c)) + (IF mpc \in MainBefore(c) THEN 1 ELSE 0)
      BY <1>1 DEF SyncInv, BarrierCounts
    <2>2. CASE c = b
      <3>1. missing[b] \in Int /\ missing'[b] = missing[b] - 1  BY <1>1 DEF TypeOK
      <3>2. mpc \in MainBefore(b) \/ mpc \notin MainBefore(b)  OBVIOUS
      <3> QED  BY <1>2, <1>4, <2>1, <2>2, <3>1, <3>2
    <2>3. CASE c # b
      <3>1. missing'[c] = missing[c]  BY <1>1, <2>3 DEF TypeOK
      <3> QED  BY <1>3, <2>1, <2>3, <3>1
    <2> QED  BY <2>2, <2>3
  <1>7. BarrierSeparates'
    <2>1. \A c \in Barriers : Waiting(c)' \subseteq Waiting(c)  BY <1>2, <1>3
    <2>2. \A v \in Workers : wpc'[v] \notin WorkerBefore("timer") \cup {"in_timer"}
                               => wpc[v] \notin WorkerBefore("timer") \cup {"in_timer"}
      BY <1>1 DEF TypeOK, WorkerBefore, Loop
    <2> QED
      BY <1>1, <1>5, <2>1, <2>2, ArgsUnchanged DEF SyncInv, BarrierSeparates, Barriers, WorkerBefore
  <1>8. JoinWaits'
    BY <1>1, ArgsUnchanged DEF SyncInv, JoinWaits, TypeOK
  <1>9. TimerFollowsMain' /\ TimerBracketsIO'
    BY <1>1, <1>5, ArgsUnchanged DEF SyncInv, TimerFollowsMain, TimerBracketsIO, TypeOK, Barriers
  <1> QED  BY <1>6, <1>7, <1>8, <1>9 DEF SyncInv

\* Worker w passes a barrier, or takes a step in its loops or out of them.
LEMMA WorkerMoveSync ==
  ASSUME TypeOK, SyncInv, [Next]_vars, NEW w \in Workers, NEW to,
         wpc' = [wpc EXCEPT ![w] = to], UNCHANGED <<mpc, missing, timer>>,
         mpc \notin {"exit", "rejected", "aborted"},
         \/ wpc[w] = "in_ready" /\ to = "enter_timer"
         \/ wpc[w] = "in_timer" /\ to \in {"io", AfterLoop} /\ missing["timer"] = 0
         \/ wpc[w] \in Loop /\ to \in Loop \cup {AfterLoop}
         \/ wpc[w] = "in_finish" /\ to = "done"
  PROVE  SyncInv'
  <1>1. \A b \in Barriers : (b = "finish" => HasFinishBarrier) => Waiting(b)' = Waiting(b)
    <2> SUFFICES ASSUME NEW b \in Barriers, b = "finish" => HasFinishBarrier
                 PROVE  Waiting(b)' = Waiting(b)
      OBVIOUS
    <2>1. wpc[w] \in WorkerBefore(b) <=> to \in WorkerBefore(b)
      BY DEF WorkerBefore, Loop, AfterLoop, Barriers
    <2> QED  BY <2>1, WaitingMove
  <1>2. \A b \in Barriers : MainBefore(b)' = MainBefore(b)  BY DEF MainBefore
  <1>3. BarrierCounts'
    BY <1>1, <1>2, ArgsUnchanged DEF SyncInv, BarrierCounts, Barriers
  <1>4. to \notin WorkerBefore("timer") \cup {"in_timer"} => mpc \notin MainBefore("timer")
    <2>1. CASE wpc[w] = "in_timer"
      <3>1. Cardinality(Waiting("timer")) \in Nat  BY WaitingFinite
      <3>2. missing["timer"] = Cardinality(Waiting("timer"))
                                 + (IF mpc \in MainBefore("timer") THEN 1 ELSE 0)
        BY DEF SyncInv, BarrierCounts, Barriers
      <3>3. missing["timer"] = 0  BY <2>1 DEF Loop
      <3> QED  BY <3>1, <3>2, <3>3
    <2>2. CASE wpc[w] # "in_timer"
      BY <2>2 DEF SyncInv, BarrierSeparates, WorkerBefore, Loop
    <2> QED  BY <2>1, <2>2
  <1>5. BarrierSeparates'
    BY <1>1, <1>2, <1>4, ArgsUnchanged
    DEF SyncInv, BarrierSeparates, WorkerBefore, Barriers, TypeOK
  <1>6. JoinWaits'
    BY ArgsUnchanged DEF SyncInv, JoinWaits, TypeOK, AfterLoop, Loop
  <1>7. TimerFollowsMain'
    BY <1>2, ArgsUnchanged DEF SyncInv, TimerFollowsMain, Barriers
  <1>8. TimerBracketsIO'
    <2>1. to \in Loop => timer = "running"
      <3>1. CASE wpc[w] \in Loop  BY <3>1 DEF SyncInv, TimerBracketsIO, Loop
      <3>2. CASE wpc[w] = "in_timer" /\ to = "io"
        <4>1. mpc \notin MainBefore("timer")  BY <1>4, <3>2 DEF WorkerBefore
        <4>2. HasFinishBarrier => mpc \notin {"freeze", "join", "report"}
          BY <3>2 DEF SyncInv, BarrierSeparates, Waiting, WorkerBefore
        <4>3. ~HasFinishBarrier => mpc \notin {"freeze", "report", "enter_finish", "in_finish"}
          BY <3>2 DEF SyncInv, JoinWaits
        <4>4. mpc \in MainLoc  BY DEF TypeOK
        <4> QED
          BY <4>1, <4>2, <4>3, <4>4 DEF SyncInv, TimerFollowsMain, MainBefore, MainLoc
      <3> QED  BY <3>1, <3>2 DEF Loop, AfterLoop
    <2> QED
      BY <2>1, ArgsUnchanged DEF SyncInv, TimerBracketsIO, TypeOK, Loop, AfterLoop
  <1> QED  BY <1>3, <1>5, <1>6, <1>7, <1>8 DEF SyncInv

\* Where the steps in the loops lead.
LEMMA LoopMoves ==
  ASSUME NEW w \in Workers,
         Succeed(w) \/ Fail(w) \/ Store(w) \/ Test(w) \/ StripeEnd(w)
  PROVE  /\ UNCHANGED <<mpc, missing, timer>> /\ mpc \notin {"exit", "rejected", "aborted"}
         /\ wpc[w] \in Loop
         /\ \E to \in Loop \cup {AfterLoop} : wpc' = [wpc EXCEPT ![w] = to]
  <1>1. CASE Succeed(w)  BY <1>1 DEF Succeed, Advance, WorkerGoto, Ended, Loop
  <1>2. CASE Fail(w)  BY <1>2 DEF Fail, Break, WorkerGoto, Ended, Loop
  <1>3. CASE Store(w)  BY <1>3 DEF Store, WorkerGoto, Ended, Loop
  <1>4. CASE Test(w)  BY <1>4 DEF Test, Advance, Break, WorkerGoto, Ended, Loop
  <1>5. CASE StripeEnd(w)
    BY <1>5 DEF StripeEnd, WorkerGoto, NextStripe, Ended, Loop
  <1> QED  BY <1>1, <1>2, <1>3, <1>4, <1>5

LEMMA WorkerSync ==
  ASSUME TypeOK, SyncInv, [Next]_vars, NEW w \in Workers, WorkerStep(w)
  PROVE  SyncInv'
  <1>1. CASE \/ WorkerEnter(w, "ready", "enter_ready", "in_ready")
             \/ WorkerEnter(w, "timer", "enter_timer", "in_timer")
             \/ WorkerEnter(w, "finish", "enter_finish", "in_finish")
    BY <1>1, WorkerEnterSync DEF Barriers
  <1>2. CASE WorkerLeave(w, "ready", "in_ready", "enter_timer")
    BY <1>2, WorkerMoveSync DEF WorkerLeave, WorkerGoto, Ended
  <1>3. CASE WorkerLeave(w, "timer", "in_timer", NextStripe(0))
    BY <1>3, WorkerMoveSync DEF WorkerLeave, WorkerGoto, Ended, NextStripe
  <1>4. CASE WorkerLeave(w, "finish", "in_finish", "done")
    BY <1>4, WorkerMoveSync DEF WorkerLeave, WorkerGoto, Ended
  <1>5. CASE Succeed(w) \/ Fail(w) \/ Store(w) \/ Test(w) \/ StripeEnd(w)
    <2>1. PICK to \in Loop \cup {AfterLoop} : wpc' = [wpc EXCEPT ![w] = to]
      BY <1>5, LoopMoves
    <2> QED  BY <1>5, <2>1, LoopMoves, WorkerMoveSync
  <1>6. CASE Throw(w)
    BY <1>6, ArgsUnchanged
    DEF Throw, SyncInv, BarrierCounts, BarrierSeparates, JoinWaits, TimerFollowsMain,
        TimerBracketsIO, MainBefore, WorkerBefore, Loop
  <1> QED  BY <1>1, <1>2, <1>3, <1>4, <1>5, <1>6 DEF WorkerStep

LEMMA NextSync == TypeOK /\ Checked /\ SyncInv /\ [Next]_vars => SyncInv'
  <1> SUFFICES ASSUME TypeOK, Checked, SyncInv, [Next]_vars PROVE SyncInv'  OBVIOUS
  <1>1. CASE UNCHANGED vars
    BY <1>1
    DEF vars, threadVars, SyncInv, BarrierCounts, BarrierSeparates, JoinWaits, TimerFollowsMain,
        TimerBracketsIO, Waiting, Workers, HasFinishBarrier, Program, MainBefore, WorkerBefore, Loop
  <1>2. CASE MainStep
    <2>1. CASE MainLeave("finish", "in_finish", "freeze")
      <3>1. HasFinishBarrier  BY <2>1 DEF SyncInv, JoinWaits, MainLeave, MainGoto
      <3> QED  BY <2>1, <3>1, MainLeaveSync DEF Barriers
    <2>2. CASE SpawnFails
      BY <2>2, ArgsUnchanged
      DEF SpawnFails, MainGoto, SyncInv, BarrierCounts, BarrierSeparates, JoinWaits,
          TimerFollowsMain, TimerBracketsIO, MainBefore, WorkerBefore, Loop
    <2> QED
      BY <1>2, <2>1, <2>2, PrepareSync, SpawnSync, MainEnterSync, MainLeaveSync, TimerSync
      DEF MainStep, Barriers
  <1>3. CASE \E w \in Workers : WorkerStep(w)  BY <1>3, WorkerSync
  <1> QED  BY <1>1, <1>2, <1>3 DEF Next, Done

LayerOne == TypeOK /\ Checked /\ SyncInv

LEMMA LayerOneHolds == Spec => []LayerOne
  <1>1. Init => LayerOne
    <2>1. Init => Checked  BY DEF Init, Checked, Unspawned
    <2> QED  BY <2>1, InitType, InitSync DEF LayerOne
  <1>2. LayerOne /\ [Next]_vars => LayerOne'
    BY NextType, NextChecked, NextSync DEF LayerOne
  <1> QED  BY <1>1, <1>2, PTL DEF Spec

\* The measured interval of the three benchmarks holds all of the I/O and none of the
\* preparation, for any number of workers.
THEOREM TimerBracketsIOHolds == Spec => []TimerBracketsIO
  <1>1. LayerOne => TimerBracketsIO  BY DEF LayerOne, SyncInv
  <1> QED  BY <1>1, LayerOneHolds, PTL

-----------------------------------------------------------------------------
(* The flags *)

\* The flags tell of a failure that has happened.
FlagInv ==
  /\ fail => failed
  /\ ret # 0 => failed
  /\ \A w \in Workers : own[w] # 0 => failed
  /\ Program # "obj" /\ failed => fail
  /\ report # "none" => mpc = "exit"
  /\ report = "success" => ~fail

LEMMA NextFlags == LayerOne /\ FlagInv /\ [Next]_vars => FlagInv'
  <1> SUFFICES ASSUME LayerOne, FlagInv, [Next]_vars PROVE FlagInv'  OBVIOUS
  <1> USE ArgsUnchanged DEF FlagInv, LayerOne, TypeOK
  <1>1. CASE UNCHANGED <<ret, own, fail, failed, report>> /\ (mpc' = mpc \/ mpc # "exit")
    BY <1>1
  <1>2. CASE Report  BY <1>2 DEF Report, MainGoto, resultVars
  <1>3. CASE MainStep /\ ~Report
    <2>1. UNCHANGED <<ret, own, fail, failed, report>> /\ mpc # "exit"
      BY <1>3
      DEF MainStep, Reject, Accept, OpenPool, OpenFails, PoolTooSmall, Prepare, Spawn, SpawnFails, MainEnter,
          MainLeave, MainGoto, StartTimer, Freeze, Join, resultVars
    <2> QED  BY <1>1, <2>1
  <1>4. ASSUME NEW w \in Workers, WorkerStep(w) PROVE FlagInv'
    <2>1. CASE Fail(w)  BY <1>4, <2>1 DEF Fail, Break, WorkerGoto, Ended
    <2>2. CASE Throw(w)  BY <1>4, <2>2 DEF Throw, Ended, loopVars
    <2>3. CASE Store(w)  BY <1>4, <2>3 DEF Store, loopVars
    <2>4. CASE Test(w)
      <3>1. PICK r \in {ret, own[w]} : IF r = 0 THEN UNCHANGED fail ELSE fail' = TRUE
        BY <2>4 DEF Test, Break
      <3>2. r # 0 => failed  OBVIOUS
      <3>3. UNCHANGED <<ret, own, failed, report, mpc>>  BY <2>4 DEF Test
      <3>4. CASE r = 0  BY <3>1, <3>3, <3>4
      <3>5. CASE r # 0
        <4>1. mpc # "exit"  BY <2>4 DEF Test, Break, Advance, WorkerGoto, Ended
        <4>2. failed' = TRUE /\ fail' = TRUE  BY <3>1, <3>2, <3>3, <3>5
        <4> QED  BY <3>3, <4>1, <4>2
      <3> QED  BY <3>4, <3>5
    <2>5. CASE UNCHANGED <<ret, own, fail, failed, report, mpc>>  BY <1>1, <2>5
    <2> QED
      BY <1>4, <2>1, <2>2, <2>3, <2>4, <2>5
      DEF WorkerStep, WorkerEnter, WorkerLeave, Succeed, StripeEnd, resultVars
  <1>5. CASE UNCHANGED vars  BY <1>1, <1>5 DEF vars, threadVars, resultVars
  <1> QED  BY <1>2, <1>3, <1>4, <1>5 DEF Next, Done

LayerTwo == LayerOne /\ FlagInv

LEMMA LayerTwoHolds == Spec => []LayerTwo
  <1>1. Init => FlagInv  BY DEF Init, FlagInv
  <1>2. Init => LayerOne  BY InitType, InitSync DEF LayerOne, Init, Checked, Unspawned
  <1>3. LayerTwo /\ LayerOne' /\ [Next]_vars => LayerTwo'  BY NextFlags DEF LayerTwo
  <1> QED  BY <1>1, <1>2, <1>3, LayerOneHolds, PTL DEF Spec, LayerTwo

\* No program raises its flag unless an access has failed.
THEOREM FailureIsRealHolds == Spec => []FailureIsReal
  <1>1. LayerTwo => FailureIsReal  BY DEF LayerTwo, FlagInv, FailureIsReal
  <1> QED  BY <1>1, LayerTwoHolds, PTL

\* pmem2bench and pmemblkbench report a success only if no access has failed.
THEOREM SuccessIsCleanHolds == Spec => []SuccessIsCleanUnshared
  <1>1. LayerTwo => SuccessIsCleanUnshared
    BY DEF LayerTwo, FlagInv, SuccessIsCleanUnshared, SuccessIsClean
  <1> QED  BY <1>1, LayerTwoHolds, PTL

-----------------------------------------------------------------------------
(* The arithmetic of the harness *)

LEMMA DivMod ==
  ASSUME NEW a \in Nat, NEW b \in Nat \ {0}
  PROVE  /\ a \div b \in Nat /\ a % b \in 0 .. b - 1
         /\ a = b * (a \div b) + (a % b)
  OBVIOUS

LEMMA ExactDiv ==
  ASSUME NEW a \in Nat, NEW b \in Nat \ {0}, a % b = 0
  PROVE  a \div b \in Nat /\ a = b * (a \div b)
  OBVIOUS

LEMMA MulType == ASSUME NEW a \in Nat, NEW b \in Nat PROVE a * b \in Nat
  OBVIOUS

LEMMA MulMono ==
  ASSUME NEW a \in Nat, NEW b \in Nat, NEW c \in Nat, a <= b
  PROVE  a * c <= b * c
  OBVIOUS

LEMMA MulCancel ==
  ASSUME NEW a \in Nat, NEW b \in Nat, NEW c \in Nat \ {0}
  PROVE  /\ c * a <= c * b => a <= b
         /\ c * a = c * b => a = b
  OBVIOUS

LEMMA MulAssoc ==
  ASSUME NEW a \in Nat, NEW b \in Nat, NEW c \in Nat
  PROVE  (a * b) * c = a * (b * c) /\ a * (b * c) = b * (a * c) /\ a * b = b * a
  OBVIOUS

\* A quotient and a remainder are determined by the number they make.
LEMMA UniqueDigits ==
  ASSUME NEW n \in Nat \ {0}, NEW q \in Nat, NEW r \in Nat, NEW p \in Nat, NEW s \in Nat,
         r < n, s < n, q * n + r = p * n + s
  PROVE  q = p /\ r = s
  OBVIOUS

\* What the argument check makes of the sizes: whole stripes, whole blocks, and strip
\* units that fit side by side into a stripe.
LEMMA Sizes ==
  ASSUME args \in Args, ValidArgs
  PROVE  /\ blocks_in_strip_unit \in Nat \ {0} /\ blocks_in_stripe \in Nat \ {0}
         /\ stripe_count \in Nat /\ nobjects \in Nat
         /\ nobjects = stripe_count * blocks_in_stripe
         /\ args.nthreads * blocks_in_strip_unit <= blocks_in_stripe
         /\ strip_unit_size % args.block = 0
              => args.nthreads * blocks_in_strip_unit = blocks_in_stripe
  <1> DEFINE T == args.total
             S == args.stripe
             c == args.block
             n == args.nthreads
             su == strip_unit_size
             B == blocks_in_strip_unit
             bs == blocks_in_stripe
             r == su % c
  <1>1. T \in Nat /\ S \in Nat \ {0} /\ c \in Nat \ {0} /\ n \in Nat \ {0}  BY ArgsTypes
  <1>2. /\ stripe_count = T \div S /\ T % S = 0
        /\ nobjects = T \div c /\ T % c = 0
        /\ bs = S \div c /\ S % c = 0
        /\ su = S \div n /\ S % n = 0 /\ su >= c
        /\ B = su \div c
    BY DEF ValidArgs, stripe_count, nobjects, blocks_in_stripe, strip_unit_size,
           blocks_in_strip_unit
  <1>r. r = su % c  OBVIOUS
  <1> HIDE DEF T, S, c, n, su, B, bs, r
  <1>3. stripe_count \in Nat /\ T = S * stripe_count  BY <1>1, <1>2, ExactDiv
  <1>4. nobjects \in Nat /\ T = c * nobjects  BY <1>1, <1>2, ExactDiv
  <1>5. bs \in Nat /\ S = c * bs  BY <1>1, <1>2, ExactDiv
  <1>6. su \in Nat /\ S = n * su  BY <1>1, <1>2, ExactDiv
  <1>7. B \in Nat /\ r \in 0 .. c - 1 /\ su = c * B + r  BY <1>1, <1>2, <1>6, <1>r, DivMod
  <1>8. B # 0  BY <1>1, <1>2, <1>6, <1>7
  <1>9. bs # 0  BY <1>1, <1>5
  <1>10. nobjects = stripe_count * bs
    <2>1. c * nobjects = (c * bs) * stripe_count  BY <1>3, <1>4, <1>5
    <2>2. c * nobjects = c * (bs * stripe_count)  BY <2>1, <1>1, <1>3, <1>5, MulAssoc
    <2>3. bs * stripe_count \in Nat  BY <1>3, <1>5, MulType
    <2> QED  BY <1>1, <1>3, <1>4, <1>5, <2>2, <2>3, MulCancel, MulAssoc
  <1>11. c * (n * B) + n * r = c * bs
    <2>1. n * (c * B + r) = c * bs  BY <1>5, <1>6, <1>7
    <2>2. c * B \in Nat  BY <1>1, <1>7, MulType
    <2>3. n * (c * B + r) = n * (c * B) + n * r  BY <1>1, <1>7, <2>2
    <2>4. n * (c * B) = c * (n * B)  BY <1>1, <1>7, MulAssoc
    <2> QED  BY <2>1, <2>3, <2>4
  <1>12. n * B \in Nat /\ n * r \in Nat /\ c * (n * B) \in Nat  BY <1>1, <1>7, MulType
  <1>13. n * B <= bs
    <2>1. c * (n * B) <= c * bs  BY <1>11, <1>12
    <2> QED  BY <2>1, <1>1, <1>5, <1>12, MulCancel
  <1>14. r = 0 => n * B = bs
    <2>1. r = 0 => c * (n * B) = c * bs  BY <1>1, <1>11, <1>12
    <2> QED  BY <2>1, <1>1, <1>5, <1>12, MulCancel
  <1> QED  BY <1>3, <1>4, <1>5, <1>7, <1>8, <1>9, <1>10, <1>13, <1>14 DEF B, bs, n, r, su, c

Stripes == 0 .. stripe_count - 1

LEMMA OffsetTypes ==
  ASSUME args \in Args
  PROVE  blocks_in_strip_unit \in Nat /\ stripe_count \in Nat
  <1>1. args.stripe \div args.nthreads \in Nat  BY ArgsTypes, DivMod
  <1>2. strip_unit_size \in Nat  BY <1>1 DEF strip_unit_size
  <1>3. strip_unit_size \div args.block \in Nat  BY <1>2, ArgsTypes, DivMod
  <1>4. args.total \div args.stripe \in Nat  BY ArgsTypes, DivMod
  <1> QED  BY <1>3, <1>4 DEF blocks_in_strip_unit, stripe_count

\* Where in its stripe worker w finds its block of step k.
LEMMA PlaceInStripe ==
  ASSUME TypeOK, ValidArgs, NEW w \in Workers, NEW k \in Offsets
  PROVE  /\ order[k] \in 0 .. blocks_in_strip_unit - 1
         /\ w * blocks_in_strip_unit + order[k] \in 0 .. blocks_in_stripe - 1
  <1> DEFINE B == blocks_in_strip_unit
             n == args.nthreads
             o == order[k]
  <1>1. o \in 0 .. B - 1  BY DEF TypeOK, Bijection, Injection, Offsets
  <1>2. /\ B \in Nat \ {0} /\ blocks_in_stripe \in Nat
        /\ n * B <= blocks_in_stripe
    BY Sizes DEF TypeOK
  <1>3. n \in Nat \ {0} /\ w \in Nat /\ w + 1 \in Nat /\ w + 1 <= n
    BY ArgsTypes DEF TypeOK, Workers
  <1> HIDE DEF B, n, o
  <1>4. (w + 1) * B <= n * B  BY <1>2, <1>3, MulMono
  <1>5. (w + 1) * B = w * B + B /\ w * B \in Nat  BY <1>2, <1>3
  <1>6. n * B \in Nat  BY <1>2, <1>3, MulType
  <1>7. w * B + o \in 0 .. blocks_in_stripe - 1  BY <1>1, <1>2, <1>4, <1>5, <1>6
  <1> QED  BY <1>1, <1>7 DEF B, o

\* No access is outside the total ...
LEMMA BlockInTotal ==
  ASSUME TypeOK, ValidArgs, NEW w \in Workers, NEW s \in Stripes, NEW k \in Offsets
  PROVE  BlockOf(w, s, k) \in 0 .. nobjects - 1
  <1> DEFINE bs == blocks_in_stripe
             p == w * blocks_in_strip_unit + order[k]
  <1>1. p \in 0 .. bs - 1  BY PlaceInStripe
  <1>2. /\ bs \in Nat \ {0} /\ stripe_count \in Nat /\ nobjects \in Nat
        /\ nobjects = stripe_count * bs
    BY Sizes DEF TypeOK
  <1>3. s \in Nat /\ s + 1 \in Nat /\ s + 1 <= stripe_count  BY <1>2 DEF Stripes
  <1>4. BlockOf(w, s, k) = s * bs + p
    <2>1. order[k] \in Int /\ s * bs \in Int /\ w * blocks_in_strip_unit \in Int
      BY <1>2, <1>3, PlaceInStripe, Sizes DEF TypeOK, Workers
    <2> QED  BY <2>1 DEF BlockOf
  <1> HIDE DEF bs, p
  <1>5. (s + 1) * bs <= stripe_count * bs  BY <1>2, <1>3, MulMono
  <1>6. (s + 1) * bs = s * bs + bs /\ s * bs \in Nat  BY <1>2, <1>3
  <1> QED  BY <1>1, <1>2, <1>4, <1>5, <1>6

\* ... no two steps of the same or of different workers access the same block ...
LEMMA BlocksDiffer ==
  ASSUME TypeOK, ValidArgs,
         NEW w \in Workers, NEW s \in Stripes, NEW k \in Offsets,
         NEW v \in Workers, NEW t \in Stripes, NEW l \in Offsets,
         BlockOf(w, s, k) = BlockOf(v, t, l)
  PROVE  w = v /\ s = t /\ k = l
  <1> DEFINE bs == blocks_in_stripe
             B == blocks_in_strip_unit
             p == w * B + order[k]
             q == v * B + order[l]
  <1>1. p \in 0 .. bs - 1 /\ q \in 0 .. bs - 1  BY PlaceInStripe
  <1>2. bs \in Nat \ {0} /\ B \in Nat \ {0} /\ stripe_count \in Nat
    BY Sizes DEF TypeOK
  <1>3. s \in Nat /\ t \in Nat  BY <1>2 DEF Stripes
  <1>4. order[k] \in 0 .. B - 1 /\ order[l] \in 0 .. B - 1  BY PlaceInStripe
  <1>5. w \in Nat /\ v \in Nat  BY ArgsTypes DEF TypeOK, Workers
  <1>6. s * bs + p = t * bs + q
    <2>1. /\ s * bs \in Int /\ t * bs \in Int /\ w * B \in Int /\ v * B \in Int
          /\ order[k] \in Int /\ order[l] \in Int
      BY <1>2, <1>3, <1>4, <1>5
    <2>2. order[k] + s * bs + w * B = order[l] + t * bs + v * B  BY DEF BlockOf
    <2> QED  BY <2>1, <2>2
  <1>7. s = t /\ p = q
    <2> HIDE DEF bs, p, q
    <2> QED  BY <1>1, <1>2, <1>3, <1>6, UniqueDigits
  <1>8. w = v /\ order[k] = order[l]
    <2> HIDE DEF B
    <2> QED  BY <1>2, <1>4, <1>5, <1>7, UniqueDigits
  <1>9. k = l  BY <1>8 DEF TypeOK, Bijection, Injection, IsInjective
  <1> QED  BY <1>7, <1>8, <1>9

\* ... and, with strip units of whole blocks, every block of the total has its step.
LEMMA BlocksCover ==
  ASSUME TypeOK, ValidArgs, strip_unit_size % args.block = 0, NEW x \in 0 .. nobjects - 1
  PROVE  \E w \in Workers, s \in Stripes, k \in Offsets : BlockOf(w, s, k) = x
  <1> DEFINE bs == blocks_in_stripe
             B == blocks_in_strip_unit
             n == args.nthreads
             s == x \div bs
             p == x % bs
             w == p \div B
             o == p % B
  <1>1. /\ bs \in Nat \ {0} /\ B \in Nat \ {0} /\ stripe_count \in Nat /\ nobjects \in Nat
        /\ nobjects = stripe_count * bs /\ n * B = bs
    BY Sizes DEF TypeOK
  <1>2. x \in Nat /\ x < nobjects  BY <1>1
  <1>n. n \in Nat  BY ArgsTypes DEF TypeOK
  <1> HIDE DEF bs, B, n
  <1>3. s \in Nat /\ p \in 0 .. bs - 1 /\ x = bs * s + p  BY <1>1, <1>2, DivMod
  <1>4. w \in Nat /\ o \in 0 .. B - 1 /\ p = B * w + o
    <2>1. p \in Nat  BY <1>1, <1>3
    <2> HIDE DEF p
    <2> QED  BY <1>1, <2>1, DivMod
  <1> HIDE DEF s, p, w, o
  <1>5. s < stripe_count
    <2> SUFFICES ASSUME stripe_count <= s PROVE FALSE  BY <1>1, <1>3
    <2>1. stripe_count * bs <= s * bs  BY <1>1, <1>3, MulMono
    <2> QED  BY <1>1, <1>2, <1>3, <2>1, MulAssoc
  <1>6. w < n
    <2> SUFFICES ASSUME n <= w PROVE FALSE  BY <1>n, <1>4
    <2>1. n * B <= w * B  BY <1>1, <1>4, <1>n, MulMono
    <2> QED  BY <1>1, <1>3, <1>4, <2>1, MulAssoc
  <1>7. s \in Stripes /\ w \in Workers  BY <1>1, <1>3, <1>4, <1>5, <1>6, <1>n DEF Stripes, Workers, n
  <1>8. PICK k \in Offsets : order[k] = o
    BY <1>4 DEF TypeOK, Bijection, Surjection, Offsets, B
  <1>9. order[k] + s * bs + w * B = x
    <2>1. s * bs \in Nat /\ w * B \in Nat /\ bs * s = s * bs /\ B * w = w * B
      BY <1>1, <1>3, <1>4, MulType, MulAssoc
    <2> QED  BY <1>3, <1>4, <1>8, <2>1
  <1> QED  BY <1>7, <1>8, <1>9 DEF BlockOf, bs, B

-----------------------------------------------------------------------------
(* The loop counters *)

BeforeLoops == {"unborn", "enter_ready", "in_ready", "enter_timer", "in_timer"}
AfterLoops  == {"enter_finish", "in_finish", "done"}

\* Where the loop counters of each worker are.
LoopInv ==
  \A w \in Workers :
    /\ wpc[w] \in BeforeLoops => stripe[w] = 0 /\ j[w] = 0
    /\ wpc[w] \in Loop => stripe[w] < stripe_count
    /\ wpc[w] \in {"io", "test"} => j[w] < blocks_in_strip_unit
    /\ wpc[w] = "stripe_end" /\ ~failed => j[w] = blocks_in_strip_unit
    /\ wpc[w] \in AfterLoops => j[w] = 0
    /\ wpc[w] \in AfterLoops /\ ~failed => stripe[w] = stripe_count

LEMMA SpawnedIsChecked ==
  ASSUME LayerOne, NEW w \in Workers, wpc[w] # "unborn"
  PROVE  /\ ValidArgs /\ PoolFits /\ mpc \notin Unspawned
         /\ blocks_in_strip_unit \in Nat \ {0} /\ stripe_count \in Nat
  BY Sizes DEF LayerOne, Checked, Unspawned, TypeOK

LEMMA UnspawnedBefore ==
  ASSUME LayerOne, [Next]_vars, mpc' \in Unspawned
  PROVE  mpc \in Unspawned
  BY DEF LayerOne, TypeOK, Next, MainStep, WorkerStep, Done, vars, threadVars, Reject, Accept,
         OpenPool, OpenFails, PoolTooSmall, Prepare, Spawn, SpawnFails, MainEnter, MainLeave, MainGoto,
         StartTimer, Freeze, Join, Report, AfterFreeze, AfterJoin, AfterTimerBarrier, WorkerEnter,
         WorkerLeave, Succeed, Fail, Throw, Store, Test, StripeEnd, Unspawned

LoopStep(w) == Succeed(w) \/ Fail(w) \/ Store(w) \/ Test(w) \/ StripeEnd(w)

\* Outside of the loops the counters and the blocks stay as they are.
LEMMA OtherSteps ==
  ASSUME [Next]_vars
  PROVE  \/ \E w \in Workers : LoopStep(w)
         \/ UNCHANGED <<stripe, j, hits>> /\ (failed' = failed \/ failed' = TRUE)
  <1>1. CASE UNCHANGED vars  BY <1>1 DEF vars, loopVars, resultVars
  <1>2. CASE MainStep
    BY <1>2
    DEF MainStep, Reject, Accept, OpenPool, OpenFails, PoolTooSmall, Prepare, Spawn, SpawnFails, MainEnter,
        MainLeave, StartTimer, Freeze, Join, Report, loopVars, resultVars
  <1>3. ASSUME NEW w \in Workers,
               WorkerStep(w), ~LoopStep(w)
        PROVE  UNCHANGED <<stripe, j, hits>> /\ (failed' = failed \/ failed' = TRUE)
    BY <1>3 DEF WorkerStep, LoopStep, WorkerEnter, WorkerLeave, Throw, loopVars, resultVars
  <1> QED  BY <1>1, <1>2, <1>3 DEF Next, Done

\* Outside of the loops a worker stays where it is, or in the part before or after them,
\* or it passes the timer barrier.
LEMMA OtherMoves ==
  ASSUME LayerOne, [Next]_vars, NEW v \in Workers
  PROVE  \/ \E w \in Workers : LoopStep(w)
         \/ wpc'[v] = wpc[v]
         \/ wpc[v] \in BeforeLoops /\ wpc'[v] \in BeforeLoops
         \/ wpc[v] \in AfterLoops /\ wpc'[v] \in AfterLoops
         \/ wpc[v] = "in_timer" /\ wpc'[v] = NextStripe(0)
  <1> USE DEF LayerOne, TypeOK
  <1>1. CASE UNCHANGED vars  BY <1>1 DEF vars, threadVars
  <1>2. CASE MainStep
    <2>1. ASSUME NEW w \in Workers, Spawn(w)
          PROVE  wpc'[v] = wpc[v] \/ (wpc[v] \in BeforeLoops /\ wpc'[v] \in BeforeLoops)
      <3>1. wpc[w] = "unborn" /\ wpc' = [wpc EXCEPT ![w] = "enter_ready"]
        BY <2>1, ArgsTypes DEF Spawn, Workers
      <3> QED  BY <3>1 DEF BeforeLoops
    <2>2. (\E w \in Workers : Spawn(w)) \/ UNCHANGED wpc
      BY <1>2
      DEF MainStep, Reject, Accept, OpenPool, OpenFails, PoolTooSmall, Prepare, SpawnFails, MainEnter,
          MainLeave, StartTimer, Freeze, Join, Report
    <2> QED  BY <2>1, <2>2
  <1>3. ASSUME NEW w \in Workers, WorkerStep(w),
               ~LoopStep(w)
        PROVE  \/ wpc'[v] = wpc[v]
               \/ wpc[v] \in BeforeLoops /\ wpc'[v] \in BeforeLoops
               \/ wpc[v] \in AfterLoops /\ wpc'[v] \in AfterLoops
               \/ wpc[v] = "in_timer" /\ wpc'[v] = NextStripe(0)
    BY <1>3 DEF WorkerStep, LoopStep, WorkerEnter, WorkerLeave, WorkerGoto, Throw, BeforeLoops, AfterLoops
  <1> QED  BY <1>1, <1>2, <1>3 DEF Next, Done

LEMMA NextLoop == LayerTwo /\ LoopInv /\ [Next]_vars => LoopInv'
  <1> SUFFICES ASSUME LayerTwo, LoopInv, [Next]_vars, NEW v \in Workers
               PROVE  /\ wpc'[v] \in BeforeLoops => stripe'[v] = 0 /\ j'[v] = 0
                      /\ wpc'[v] \in Loop => stripe'[v] < stripe_count
                      /\ wpc'[v] \in {"io", "test"} => j'[v] < blocks_in_strip_unit
                      /\ wpc'[v] = "stripe_end" /\ ~failed' => j'[v] = blocks_in_strip_unit
                      /\ wpc'[v] \in AfterLoops => j'[v] = 0
                      /\ wpc'[v] \in AfterLoops /\ ~failed' => stripe'[v] = stripe_count
    BY ArgsUnchanged DEF LoopInv, BeforeLoops, AfterLoops, Loop, stripe_count,
       blocks_in_strip_unit, strip_unit_size
  <1> USE DEF LayerTwo, LayerOne, TypeOK
  <1>1. /\ wpc[v] \in BeforeLoops => stripe[v] = 0 /\ j[v] = 0
        /\ wpc[v] \in Loop => stripe[v] < stripe_count
        /\ wpc[v] \in {"io", "test"} => j[v] < blocks_in_strip_unit
        /\ wpc[v] = "stripe_end" /\ ~failed => j[v] = blocks_in_strip_unit
        /\ wpc[v] \in AfterLoops => j[v] = 0
        /\ wpc[v] \in AfterLoops /\ ~failed => stripe[v] = stripe_count
    BY DEF LoopInv
  <1>2. CASE ~\E w \in Workers : LoopStep(w)
    <2>0. UNCHANGED <<stripe, j>> /\ (failed' = failed \/ failed' = TRUE)  BY <1>2, OtherSteps
    <2>1. CASE wpc'[v] = wpc[v]  BY <1>1, <2>0, <2>1
    <2>2. CASE wpc[v] \in BeforeLoops /\ wpc'[v] \in BeforeLoops
      BY <1>1, <2>0, <2>2 DEF BeforeLoops, Loop, AfterLoops
    <2>3. CASE wpc[v] \in AfterLoops /\ wpc'[v] \in AfterLoops
      BY <1>1, <2>0, <2>3 DEF BeforeLoops, Loop, AfterLoops
    <2>4. CASE wpc[v] = "in_timer" /\ wpc'[v] = NextStripe(0)
      BY <1>1, <2>0, <2>4, SpawnedIsChecked
      DEF BeforeLoops, Loop, AfterLoops, NextStripe, AfterLoop
    <2> QED  BY <1>2, <2>1, <2>2, <2>3, <2>4, OtherMoves
  <1>3. ASSUME NEW w \in Workers, LoopStep(w), w # v
        PROVE  /\ wpc'[v] = wpc[v] /\ stripe'[v] = stripe[v] /\ j'[v] = j[v]
               /\ ~failed' => ~failed
    BY <1>3
    DEF LoopStep, Succeed, Fail, Store, Test, StripeEnd, Advance, Break, WorkerGoto, loopVars, resultVars
  <1>4. CASE LoopStep(v)
    <2>0. blocks_in_strip_unit \in Nat \ {0} /\ stripe_count \in Nat
      <3>1. wpc[v] \in Loop  BY <1>4, LoopMoves DEF LoopStep
      <3> QED  BY <3>1, SpawnedIsChecked DEF Loop
    <2>1. CASE Succeed(v)
      <3>1. /\ wpc[v] = "io" /\ j'[v] = j[v] + 1 /\ UNCHANGED <<stripe, failed>>
            /\ wpc'[v] = IF j[v] + 1 < blocks_in_strip_unit THEN "io" ELSE "stripe_end"
        BY <2>1 DEF Succeed, Advance, WorkerGoto
      <3> QED  BY <1>1, <2>0, <3>1 DEF BeforeLoops, Loop, AfterLoops
    <2>2. CASE Fail(v)
      BY <1>1, <2>2 DEF Fail, Break, WorkerGoto, BeforeLoops, Loop, AfterLoops
    <2>3. CASE Store(v)
      BY <1>1, <2>3 DEF Store, WorkerGoto, BeforeLoops, Loop, AfterLoops, loopVars
    <2>4. CASE Test(v)
      <3>1. PICK r \in {ret, own[v]} :
              IF r = 0 THEN Advance(v, "test") ELSE Break(v, "test")
        BY <2>4 DEF Test
      <3>2. r # 0 => failed  BY DEF FlagInv
      <3>3. UNCHANGED <<stripe, failed>>  BY <2>4 DEF Test
      <3>4. CASE r = 0
        <4>1. /\ wpc[v] = "test" /\ j'[v] = j[v] + 1
              /\ wpc'[v] = IF j[v] + 1 < blocks_in_strip_unit THEN "io" ELSE "stripe_end"
          BY <3>1, <3>4 DEF Advance, WorkerGoto
        <4> QED  BY <1>1, <2>0, <3>3, <4>1 DEF BeforeLoops, Loop, AfterLoops
      <3>5. CASE r # 0
        BY <1>1, <3>1, <3>2, <3>3, <3>5 DEF Break, WorkerGoto, BeforeLoops, Loop, AfterLoops
      <3> QED  BY <3>4, <3>5
    <2>5. CASE StripeEnd(v)
      <3>1. /\ wpc[v] = "stripe_end" /\ j'[v] = 0 /\ UNCHANGED <<fail, failed>>
            /\ wpc'[v] = IF fail THEN AfterLoop ELSE NextStripe(stripe[v] + 1)
            /\ stripe'[v] = IF fail THEN stripe[v] ELSE stripe[v] + 1
        BY <2>5 DEF StripeEnd, WorkerGoto, resultVars
      <3>2. fail => failed  BY DEF FlagInv
      <3>4. CASE fail
        BY <1>1, <3>1, <3>2, <3>4 DEF AfterLoop, BeforeLoops, Loop, AfterLoops
      <3>5. CASE ~fail
        BY <1>1, <2>0, <3>1, <3>5 DEF AfterLoop, NextStripe, BeforeLoops, Loop, AfterLoops
      <3> QED  BY <3>4, <3>5
    <2> QED  BY <1>4, <2>1, <2>2, <2>3, <2>4, <2>5 DEF LoopStep
  <1> QED  BY <1>1, <1>2, <1>3, <1>4

LayerThree == LayerTwo /\ LoopInv

LEMMA LayerThreeHolds == Spec => []LayerThree
  <1>1. Init => LoopInv  BY DEF Init, LoopInv, BeforeLoops, Loop, AfterLoops
  <1>2. Init => LayerTwo
    BY InitType, InitSync DEF LayerTwo, LayerOne, Init, Checked, Unspawned, FlagInv
  <1>3. LayerThree /\ LayerTwo' /\ [Next]_vars => LayerThree'  BY NextLoop DEF LayerThree
  <1> QED  BY <1>1, <1>2, <1>3, LayerTwoHolds, PTL DEF Spec, LayerThree
-----------------------------------------------------------------------------
(* The blocks *)

\* Step k of stripe s is behind worker w, or still before it.
Past(w, s, k) ==
  \/ s < stripe[w]
  \/ s = stripe[w] /\ k < j[w]
  \/ s = stripe[w] /\ k = j[w] /\ wpc[w] = "test"

Ahead(w, s, k) ==
  /\ wpc[w] \notin AfterLoops
  /\ ~Past(w, s, k)
  /\ wpc[w] = "stripe_end" => s # stripe[w]

\* No block still ahead of a worker has been accessed, and no block twice ...
BlocksAhead ==
  /\ DOMAIN hits \subseteq 0 .. nobjects - 1
  /\ mpc \in Unspawned => DOMAIN hits = {}
  /\ NoBlockTwice
  /\ \A w \in Workers, s \in Stripes, k \in Offsets :
       Ahead(w, s, k) => BlockOf(w, s, k) \notin DOMAIN hits

\* ... and every block behind a worker has been accessed, as long as nothing failed.
BlocksPast ==
  ~failed /\ args.op # "dry" =>
    \A w \in Workers, s \in Stripes, k \in Offsets :
      Past(w, s, k) => BlockOf(w, s, k) \in DOMAIN hits

\* What a step does to the place of worker v in its loops.
LEMMA LoopMoveOf ==
  ASSUME LayerThree, [Next]_vars, NEW v \in Workers
  PROVE  \/ UNCHANGED <<wpc[v], stripe[v], j[v]>>
         \/ /\ UNCHANGED <<stripe[v], j[v]>>
            /\ wpc[v] \in BeforeLoops /\ wpc'[v] \in BeforeLoops \cup AfterLoops \cup {"io"}
         \/ UNCHANGED <<stripe[v], j[v]>> /\ wpc[v] \in AfterLoops /\ wpc'[v] \in AfterLoops
         \/ /\ Succeed(v) /\ wpc[v] = "io" /\ wpc'[v] \in {"io", "stripe_end"}
            /\ UNCHANGED stripe[v] /\ j'[v] = j[v] + 1
         \/ /\ Store(v) /\ wpc[v] = "io" /\ wpc'[v] = "test"
            /\ UNCHANGED <<stripe[v], j[v]>>
         \/ /\ wpc[v] = "test" /\ wpc'[v] \in {"io", "stripe_end"}
            /\ UNCHANGED stripe[v] /\ j'[v] = j[v] + 1
         \/ /\ wpc[v] \in {"io", "test"} /\ wpc'[v] = "stripe_end" /\ (failed' = TRUE)
            /\ UNCHANGED <<stripe[v], j[v]>>
         \/ /\ wpc[v] = "stripe_end" /\ wpc'[v] \in AfterLoops \cup {"io"} /\ ~failed
            /\ stripe'[v] = stripe[v] + 1 /\ j'[v] = 0
         \/ /\ wpc[v] = "stripe_end" /\ failed' = TRUE /\ j'[v] = 0
            /\ \/ wpc'[v] \in AfterLoops
               \/ wpc'[v] = "io" /\ stripe'[v] = stripe[v] + 1
  <1> USE DEF LayerThree, LayerTwo, LayerOne, TypeOK
  <1>1. CASE ~\E w \in Workers : LoopStep(w)
    <2>1. NextStripe(0) \in AfterLoops \cup {"io"}  BY DEF NextStripe, AfterLoop, AfterLoops
    <2> QED  BY <1>1, <2>1, OtherSteps, OtherMoves DEF BeforeLoops
  <1>2. ASSUME NEW w \in Workers, LoopStep(w), w # v
        PROVE  UNCHANGED <<wpc[v], stripe[v], j[v]>>
    BY <1>2
    DEF LoopStep, Succeed, Fail, Store, Test, StripeEnd, Advance, Break, WorkerGoto, loopVars, resultVars
  <1>3. CASE Succeed(v)  BY <1>3 DEF Succeed, Advance, WorkerGoto
  <1>4. CASE Fail(v)  BY <1>4 DEF Fail, Break, WorkerGoto
  <1>5. CASE Store(v)  BY <1>5 DEF Store, WorkerGoto, loopVars
  <1>6. CASE Test(v)
    <2>1. PICK r \in {ret, own[v]} : IF r = 0 THEN Advance(v, "test") ELSE Break(v, "test")
      BY <1>6 DEF Test
    <2>2. r # 0 => failed  BY DEF FlagInv
    <2>3. UNCHANGED <<stripe, failed>>  BY <1>6 DEF Test
    <2>4. CASE r = 0  BY <2>1, <2>3, <2>4 DEF Advance, WorkerGoto
    <2>5. CASE r # 0  BY <2>1, <2>2, <2>3, <2>5 DEF Break, WorkerGoto
    <2> QED  BY <2>4, <2>5
  <1>7. CASE StripeEnd(v)
    <2>1. /\ wpc[v] = "stripe_end" /\ j'[v] = 0 /\ UNCHANGED <<fail, failed>>
          /\ wpc'[v] = IF fail THEN AfterLoop ELSE NextStripe(stripe[v] + 1)
          /\ stripe'[v] = IF fail THEN stripe[v] ELSE stripe[v] + 1
      BY <1>7 DEF StripeEnd, WorkerGoto, resultVars
    <2>2. fail => failed  BY DEF FlagInv
    <2>3. AfterLoop \in AfterLoops  BY DEF AfterLoop, AfterLoops
    <2>4. CASE failed  BY <2>1, <2>2, <2>3, <2>4 DEF NextStripe
    <2>5. CASE ~failed  BY <2>1, <2>2, <2>3, <2>5 DEF NextStripe
    <2> QED  BY <2>4, <2>5
  <1> QED  BY <1>1, <1>2, <1>3, <1>4, <1>5, <1>6, <1>7 DEF LoopStep

\* What is ahead of a worker was ahead of it before, and the block it accesses is not.
LEMMA AheadShrinks ==
  ASSUME LayerThree, [Next]_vars, NEW v \in Workers, NEW s \in Nat, NEW k \in Nat, Ahead(v, s, k)'
  PROVE  /\ Ahead(v, s, k)
         /\ Succeed(v) \/ Store(v) => ~(s = stripe[v] /\ k = j[v])
  <1>1. /\ stripe[v] \in Nat /\ j[v] \in Nat
        /\ wpc[v] \in BeforeLoops => stripe[v] = 0 /\ j[v] = 0
    BY DEF LayerThree, LayerTwo, LayerOne, TypeOK, LoopInv
  <1>2. Ahead(v, s, k)
    <2> USE <1>1 DEF Ahead, Past, BeforeLoops, AfterLoops
    <2>1. CASE stripe'[v] = stripe[v] /\ j'[v] = j[v] /\ wpc'[v] = wpc[v]  BY <2>1
    <2>2. CASE /\ stripe'[v] = stripe[v] /\ j'[v] = j[v]
               /\ wpc[v] \in BeforeLoops \cup AfterLoops
               /\ wpc[v] \in AfterLoops => wpc'[v] \in AfterLoops
      BY <2>2
    <2>3. CASE /\ stripe'[v] = stripe[v] /\ j'[v] = j[v] + 1 /\ wpc[v] \in {"io", "test"}
      BY <2>3
    <2>4. CASE /\ stripe'[v] = stripe[v] /\ j'[v] = j[v]
               /\ wpc[v] \in {"io", "test"} /\ wpc'[v] = "stripe_end"
      BY <2>4
    <2>5. CASE /\ stripe'[v] = stripe[v] /\ j'[v] = j[v] /\ wpc[v] = "io" /\ wpc'[v] = "test"
      BY <2>5
    <2>6. CASE wpc[v] = "stripe_end" /\ stripe'[v] = stripe[v] + 1 /\ j'[v] = 0
      BY <2>6
    <2>7. CASE wpc'[v] \in AfterLoops  BY <2>7
    <2> QED  BY <2>1, <2>2, <2>3, <2>4, <2>5, <2>6, <2>7, LoopMoveOf
  <1>3. ASSUME Succeed(v) PROVE ~(s = stripe[v] /\ k = j[v])
    <2>1. stripe'[v] = stripe[v] /\ j'[v] = j[v] + 1
      BY <1>3 DEF Succeed, Advance, LayerThree, LayerTwo, LayerOne, TypeOK
    <2> QED  BY <1>1, <2>1 DEF Ahead, Past
  <1>4. ASSUME Store(v) PROVE ~(s = stripe[v] /\ k = j[v])
    <2>1. stripe'[v] = stripe[v] /\ j'[v] = j[v] /\ wpc'[v] = "test"
      BY <1>4 DEF Store, WorkerGoto, LayerThree, LayerTwo, LayerOne, TypeOK, loopVars
    <2> QED  BY <1>1, <2>1 DEF Ahead, Past
  <1> QED  BY <1>2, <1>3, <1>4

\* What is behind a worker was behind it before, or is the block it has just accessed.
LEMMA PastGrows ==
  ASSUME LayerThree, [Next]_vars, NEW v \in Workers, NEW s \in Nat, NEW k \in Offsets,
         Past(v, s, k)', ~failed'
  PROVE  Past(v, s, k) \/ ((Succeed(v) \/ Store(v)) /\ s = stripe[v] /\ k = j[v])
  <1>1. /\ stripe[v] \in Nat /\ j[v] \in Nat
        /\ wpc[v] = "stripe_end" /\ ~failed => j[v] = blocks_in_strip_unit
    BY DEF LayerThree, LayerTwo, LayerOne, TypeOK, LoopInv
  <1>2. k \in Nat /\ k < blocks_in_strip_unit
    BY OffsetTypes DEF Offsets, LayerThree, LayerTwo, LayerOne, TypeOK
  <1> USE <1>1, <1>2 DEF Past, BeforeLoops, AfterLoops
  <1>3. CASE stripe'[v] = stripe[v] /\ j'[v] = j[v] /\ (wpc'[v] # "test" \/ wpc[v] = "test")
    BY <1>3
  <1>4. CASE /\ stripe'[v] = stripe[v] /\ j'[v] = j[v] + 1 /\ wpc'[v] # "test"
             /\ wpc[v] = "test" \/ Succeed(v)
    BY <1>4
  <1>5. CASE Store(v) /\ stripe'[v] = stripe[v] /\ j'[v] = j[v]  BY <1>5
  <1>6. CASE /\ wpc[v] = "stripe_end" /\ ~failed /\ wpc'[v] # "test"
             /\ stripe'[v] = stripe[v] + 1 /\ j'[v] = 0
    BY <1>6
  <1> QED  BY <1>3, <1>4, <1>5, <1>6, LoopMoveOf

\* The blocks change by an access to the block a worker is at, or not at all.
LEMMA HitsChange ==
  ASSUME LayerThree, [Next]_vars
  PROVE  /\ \/ UNCHANGED hits
            \/ \E w \in Workers : (Succeed(w) \/ Store(w)) /\ Access(w) /\ wpc[w] = "io"
         /\ ~failed' /\ args.op # "dry" =>
              \A w \in Workers : Succeed(w) \/ Store(w) => Access(w)
  <1>1. CASE ~\E w \in Workers : LoopStep(w)
    BY <1>1, OtherSteps DEF LoopStep
  <1>2. ASSUME NEW w \in Workers, Succeed(w), args.op = "dry" PROVE UNCHANGED hits
    BY <1>2 DEF Succeed
  <1>3. ASSUME NEW w \in Workers, Succeed(w), args.op # "dry" PROVE Access(w) /\ wpc[w] = "io"
    BY <1>3 DEF Succeed, Advance, WorkerGoto
  <1>4. ASSUME NEW w \in Workers, Store(w)
        PROVE  (Access(w) /\ wpc[w] = "io") \/ (UNCHANGED hits /\ failed' = TRUE)
    BY <1>4 DEF Store, WorkerGoto
  <1>5. ASSUME NEW w \in Workers, Fail(w) \/ Test(w) \/ StripeEnd(w) PROVE UNCHANGED hits
    BY <1>5 DEF Fail, Test, StripeEnd, resultVars
  <1> QED  BY <1>1, <1>2, <1>3, <1>4, <1>5 DEF LoopStep

\* An access adds the block of the worker, which nobody has accessed before.
LEMMA AccessAdds ==
  ASSUME LayerThree, BlocksAhead, NEW w \in Workers, wpc[w] = "io", Access(w)
  PROVE  /\ stripe[w] \in Stripes /\ j[w] \in Offsets
         /\ BlockOf(w, stripe[w], j[w]) \in 0 .. nobjects - 1
         /\ DOMAIN hits' = DOMAIN hits \cup {BlockOf(w, stripe[w], j[w])}
         /\ \A b \in DOMAIN hits' : hits'[b] = 1
  <1> DEFINE x == BlockOf(w, stripe[w], j[w])
  <1>1. ValidArgs  BY SpawnedIsChecked DEF LayerThree, LayerTwo
  <1>2. TypeOK  BY DEF LayerThree, LayerTwo, LayerOne
  <1>3. stripe[w] \in Stripes /\ j[w] \in Offsets
    BY <1>2, OffsetTypes DEF LayerThree, LoopInv, Loop, TypeOK, Stripes, Offsets
  <1>4. x \in 0 .. nobjects - 1  BY <1>1, <1>2, <1>3, BlockInTotal
  <1>5. Ahead(w, stripe[w], j[w])
    BY <1>2 DEF Ahead, Past, AfterLoops, TypeOK
  <1>6. x \notin DOMAIN hits  BY <1>3, <1>5 DEF BlocksAhead
  <1>7. hits' = [b \in DOMAIN hits \cup {x} |-> IF b = x THEN 1 ELSE hits[b]]
    BY <1>6 DEF Access, BagAdd
  <1>8. \A b \in DOMAIN hits : hits[b] = 1  BY DEF BlocksAhead, NoBlockTwice
  <1> HIDE DEF x
  <1>9. DOMAIN hits' = DOMAIN hits \cup {x} /\ \A b \in DOMAIN hits' : hits'[b] = 1
    BY <1>7, <1>8
  <1> QED  BY <1>3, <1>4, <1>9 DEF x

\* Only Prepare changes the order of the offsets, before any worker exists.
LEMMA OrderFixed ==
  ASSUME LayerThree, [Next]_vars
  PROVE  \/ order' = order /\ \A w, s, k : BlockOf(w, s, k)' = BlockOf(w, s, k)
         \/ Prepare
  <1>1. order' = order \/ Prepare
    BY DEF Next, MainStep, WorkerStep, Done, vars, Reject, Accept, OpenPool, OpenFails,
           PoolTooSmall, Spawn, SpawnFails, MainEnter, MainLeave, StartTimer, Freeze, Join,
           Report, WorkerEnter, WorkerLeave, Succeed, Fail, Throw, Store, Test, StripeEnd
  <1>2. blocks_in_stripe' = blocks_in_stripe /\ blocks_in_strip_unit' = blocks_in_strip_unit
    BY ArgsUnchanged DEF blocks_in_stripe, blocks_in_strip_unit, strip_unit_size
  <1> QED  BY <1>1, <1>2 DEF BlockOf

LEMMA NextAhead == LayerThree /\ LayerThree' /\ BlocksAhead /\ [Next]_vars => BlocksAhead'
  <1> SUFFICES ASSUME LayerThree, LayerThree', BlocksAhead, [Next]_vars PROVE BlocksAhead'
    OBVIOUS
  <1>1. /\ Workers' = Workers /\ Stripes' = Stripes /\ Offsets' = Offsets
        /\ nobjects' = nobjects
    BY ArgsUnchanged DEF Stripes, stripe_count, nobjects
  <1>2. \A s \in Stripes, k \in Offsets : s \in Nat /\ k \in Nat
    BY OffsetTypes DEF Stripes, Offsets, LayerThree, LayerTwo, LayerOne, TypeOK
  <1>3. CASE Prepare
    <2>1. UNCHANGED hits /\ DOMAIN hits = {}
      BY <1>3 DEF Prepare, MainGoto, resultVars, BlocksAhead, Unspawned
    <2> QED  BY <1>1, <2>1 DEF BlocksAhead, NoBlockTwice
  <1>4. CASE UNCHANGED hits /\ ~Prepare
    <2>1. mpc' \in Unspawned => mpc \in Unspawned
      BY UnspawnedBefore DEF LayerThree, LayerTwo, Unspawned
    <2>2. \A w, s, k : BlockOf(w, s, k)' = BlockOf(w, s, k)  BY <1>4, OrderFixed
    <2>3. ASSUME NEW w \in Workers, NEW s \in Stripes, NEW k \in Offsets, Ahead(w, s, k)'
          PROVE  BlockOf(w, s, k)' \notin DOMAIN hits'
      BY <1>2, <1>4, <2>2, <2>3, AheadShrinks DEF BlocksAhead
    <2> QED  BY <1>1, <1>4, <2>1, <2>3 DEF BlocksAhead, NoBlockTwice, Unspawned
  <1>5. ASSUME NEW v \in Workers, Succeed(v) \/ Store(v), Access(v), wpc[v] = "io", ~Prepare
        PROVE  BlocksAhead'
    <2> DEFINE x == BlockOf(v, stripe[v], j[v])
    <2>1. /\ stripe[v] \in Stripes /\ j[v] \in Offsets /\ x \in 0 .. nobjects - 1
          /\ DOMAIN hits' = DOMAIN hits \cup {x}
          /\ \A b \in DOMAIN hits' : hits'[b] = 1
      BY <1>5, AccessAdds
    <2>2. mpc' \notin Unspawned
      BY <1>5, SpawnedIsChecked DEF Succeed, Store, LayerThree, LayerTwo
    <2>3. \A w, s, k : BlockOf(w, s, k)' = BlockOf(w, s, k)  BY <1>5, OrderFixed
    <2>4. ValidArgs /\ TypeOK
      BY <1>5, SpawnedIsChecked DEF LayerThree, LayerTwo, LayerOne
    <2>5. ASSUME NEW w \in Workers, NEW s \in Stripes, NEW k \in Offsets, Ahead(w, s, k)'
          PROVE  BlockOf(w, s, k)' \notin DOMAIN hits'
      <3>1. Ahead(w, s, k) /\ (w = v => ~(s = stripe[v] /\ k = j[v]))
        BY <1>2, <1>5, <2>5, AheadShrinks
      <3>2. BlockOf(w, s, k) # x  BY <2>1, <2>4, <3>1, BlocksDiffer
      <3>3. BlockOf(w, s, k) \notin DOMAIN hits  BY <3>1 DEF BlocksAhead
      <3> QED  BY <2>1, <2>3, <3>2, <3>3
    <2> QED  BY <1>1, <2>1, <2>2, <2>5 DEF BlocksAhead, NoBlockTwice, Unspawned
  <1> QED  BY <1>3, <1>4, <1>5, HitsChange

LEMMA NextPast == LayerThree /\ BlocksAhead /\ BlocksPast /\ [Next]_vars => BlocksPast'
  <1> SUFFICES ASSUME LayerThree, BlocksAhead, BlocksPast, [Next]_vars, ~failed', args.op # "dry",
                      NEW w \in Workers, NEW s \in Stripes, NEW k \in Offsets, Past(w, s, k)'
               PROVE  BlockOf(w, s, k)' \in DOMAIN hits'
    BY ArgsUnchanged DEF BlocksPast, Stripes, stripe_count
  <1>1. s \in Nat /\ k \in Nat /\ TypeOK
    BY OffsetTypes DEF Stripes, Offsets, LayerThree, LayerTwo, LayerOne, TypeOK
  <1>2. ~failed
    <2>1. ~(failed /\ failed' # TRUE)
      BY DEF Next, MainStep, WorkerStep, Done, vars, Reject, Accept, OpenPool, OpenFails,
             PoolTooSmall, Prepare, Spawn, SpawnFails, MainEnter, MainLeave, StartTimer, Freeze, Join, Report,
             WorkerEnter, WorkerLeave, Succeed, Fail, Throw, Store, Test, StripeEnd, resultVars,
             LayerThree, LayerTwo, LayerOne, TypeOK
    <2> QED  BY <2>1
  <1>3. CASE Prepare
    <2>1. wpc[w] = "unborn" /\ UNCHANGED <<wpc, stripe, j>>
      BY <1>3 DEF Prepare, MainGoto, loopVars, LayerThree, LayerTwo, LayerOne, Checked, Unspawned
    <2>2. stripe[w] = 0 /\ j[w] = 0  BY <2>1 DEF LayerThree, LoopInv, BeforeLoops
    <2> QED  BY <1>1, <2>1, <2>2 DEF Past
  <1>4. CASE ~Prepare
    <2>1. BlockOf(w, s, k)' = BlockOf(w, s, k)  BY <1>4, OrderFixed
    <2>2. DOMAIN hits \subseteq DOMAIN hits'  BY HitsChange, AccessAdds
    <2>3. CASE Past(w, s, k)  BY <1>2, <2>1, <2>2, <2>3 DEF BlocksPast
    <2>4. CASE (Succeed(w) \/ Store(w)) /\ s = stripe[w] /\ k = j[w]
      <3>1. Access(w)  BY <2>4, HitsChange
      <3>2. wpc[w] = "io"  BY <2>4 DEF Succeed, Store, Advance, WorkerGoto
      <3> QED  BY <2>1, <2>4, <3>1, <3>2, AccessAdds
    <2> QED  BY <1>1, <2>3, <2>4, PastGrows
  <1> QED  BY <1>3, <1>4

LayerFour == LayerThree /\ BlocksAhead /\ BlocksPast

LEMMA LayerFourHolds == Spec => []LayerFour
  <1>1. Init => BlocksAhead /\ BlocksPast
    <2> SUFFICES ASSUME Init PROVE BlocksAhead /\ BlocksPast  OBVIOUS
    <2>1. DOMAIN hits = {}  BY DEF Init
    <2>2. \A w \in Workers, s \in Stripes, k \in Offsets : ~Past(w, s, k)
      BY OffsetTypes DEF Init, Past, Stripes, Offsets
    <2> QED  BY <2>1, <2>2 DEF BlocksAhead, BlocksPast, NoBlockTwice
  <1>2. LayerFour /\ LayerThree' /\ [Next]_vars => LayerFour'
    BY NextAhead, NextPast DEF LayerFour
  <1> QED  BY <1>1, <1>2, LayerThreeHolds, PTL DEF Spec, LayerFour

\* No block is accessed twice, by one worker or by two, in any stripe and any order.
THEOREM NoBlockTwiceHolds == Spec => []NoBlockTwice
  <1>1. LayerFour => NoBlockTwice  BY DEF LayerFour, BlocksAhead
  <1> QED  BY <1>1, LayerFourHolds, PTL

\* Every access is within what the program has sized, for all sizes it accepts.
THEOREM AccessInBoundsHolds == Spec => []AccessInBounds
  <1>1. ASSUME LayerFour PROVE AccessInBounds
    <2>1. CASE mpc \in Unspawned  BY <1>1, <2>1 DEF LayerFour, BlocksAhead, AccessInBounds
    <2>2. CASE mpc \notin Unspawned
      <3>1. PoolFits /\ ValidArgs /\ args \in Args
        BY <1>1, <2>2 DEF LayerFour, LayerThree, LayerTwo, LayerOne, Checked, Unspawned, TypeOK
      <3>2. nobjects \in Nat /\ args.nelements \in Nat  BY <3>1, Sizes, ArgsTypes
      <3>3. DOMAIN hits \subseteq 0 .. nobjects - 1  BY <1>1 DEF LayerFour, BlocksAhead
      <3>4. Capacity \in Nat /\ nobjects <= Capacity  BY <3>1, <3>2 DEF Capacity, PoolFits
      <3>5. 0 .. nobjects - 1 \subseteq 0 .. Capacity - 1  BY <3>2, <3>4
      <3> QED  BY <3>3, <3>5 DEF AccessInBounds
    <2> QED  BY <2>1, <2>2
  <1> QED  BY <1>1, LayerFourHolds, PTL

\* A clean run that is reported as a success has accessed every block of the total, if
\* the strip units are made of whole blocks.
THEOREM SuccessCoversUnitsHolds == Spec => []SuccessCoversUnits
  <1>1. ASSUME LayerFour PROVE SuccessCoversUnits
    <2> SUFFICES ASSUME report = "success", ~failed, args.op # "dry",
                        strip_unit_size % args.block = 0
                 PROVE  DOMAIN hits = 0 .. nobjects - 1
      BY DEF SuccessCoversUnits
    <2> USE <1>1 DEF LayerFour, LayerThree, LayerTwo
    <2>1. mpc = "exit"  BY DEF FlagInv
    <2>2. \A w \in Workers : wpc[w] = "done"  BY <2>1 DEF LayerOne, SyncInv, JoinWaits
    <2>3. TypeOK /\ ValidArgs  BY <2>1 DEF LayerOne, Checked
    <2>4. \A w \in Workers : stripe[w] = stripe_count
      BY <2>2 DEF LoopInv, AfterLoops
    <2>5. ASSUME NEW w \in Workers, NEW s \in Stripes, NEW k \in Offsets
          PROVE  BlockOf(w, s, k) \in DOMAIN hits
      <3>1. s < stripe[w]  BY <2>3, <2>4, OffsetTypes DEF Stripes, TypeOK
      <3> QED  BY <3>1 DEF Past, BlocksPast
    <2>6. 0 .. nobjects - 1 \subseteq DOMAIN hits  BY <2>3, <2>5, BlocksCover
    <2> QED  BY <2>6 DEF BlocksAhead
  <1> QED  BY <1>1, LayerFourHolds, PTL

-----------------------------------------------------------------------------
(* The sizes on the command lines.                                         *)

\* The powers of the base that power() meets, in the order it multiplies them.
Powers ==
  LET square == Base * Base
  IN  [q \in 0 .. 5 |->
         IF q = 0 THEN 1 ELSE IF q = 1 THEN Base ELSE IF q = 2 THEN square
         ELSE IF q = 3 THEN Base * square ELSE IF q = 4 THEN square * square
         ELSE Base * (square * square)]

\* A product of a positive number is at least its other factor.
LEMMA ProductGrows ==
  ASSUME NEW a \in Nat, NEW b \in Nat \ {0}
  PROVE  a * b \in Nat /\ a <= a * b
<1> b >= 1  OBVIOUS
<1> PICK c \in Nat : b = c + 1  BY b - 1 \in Nat, b = (b - 1) + 1
<1>1. a * b = a * c + a /\ a * c \in Nat  OBVIOUS
<1> QED  BY <1>1

\* None of them exceeds the last, which fits the type.
LEMMA PowersFit ==
  \A q \in 0 .. 5 : Powers[q] \in Nat \ {0} /\ Powers[q] < Word
<1> DEFINE square == Base * Base
           cube   == Base * square
           fourth == square * square
           fifth  == Base * fourth
<1> Base \in Nat \ {0} /\ Word \in Nat  BY WordAssumption
<1>1. square \in Nat \ {0} /\ Base <= square  BY ProductGrows
<1>5. fifth = Base * Base * Base * Base * Base  OBVIOUS
<1>6. fifth < Word  BY <1>5, WordAssumption
<1>7. fourth = cube * Base /\ cube = square * Base /\ fifth = fourth * Base  OBVIOUS
<1>8. Powers = [q \in 0 .. 5 |->
         IF q = 0 THEN 1 ELSE IF q = 1 THEN Base ELSE IF q = 2 THEN square
         ELSE IF q = 3 THEN cube ELSE IF q = 4 THEN fourth ELSE fifth]
  BY DEF Powers
<1> HIDE DEF square, cube, fourth, fifth
<1>2. cube \in Nat \ {0} /\ square <= cube  BY <1>1, <1>7, ProductGrows
<1>3. fourth \in Nat \ {0} /\ cube <= fourth  BY <1>2, <1>7, ProductGrows
<1>4. fifth \in Nat \ {0} /\ fourth <= fifth  BY <1>3, <1>7, ProductGrows
<1> QED  BY <1>1, <1>2, <1>3, <1>4, <1>6, <1>8

\* One call of power: f holds what the inner calls return.
Squaring(f, q) ==
  IF q = 0 THEN 1
  ELSE IF q = 1 THEN Base
  ELSE LET square == (f[q \div 2] * f[q \div 2]) % Word
       IN  IF q % 2 = 0 THEN square ELSE (Base * square) % Word

\* A remainder is the number itself when that is below the modulus.
LEMMA SmallRemainder ==
  ASSUME NEW a \in Nat, NEW m \in Nat, a < m
  PROVE  a % m = a
OBVIOUS

\* Whatever holds the powers below q, the call for q returns the next one.
LEMMA SquaringIs ==
  ASSUME NEW q \in 0 .. 5, NEW f,
         q \in 2 .. 5 => f[q \div 2] = Powers[q \div 2]
  PROVE  Squaring(f, q) = Powers[q]
<1> Base \in Nat \ {0} /\ Word \in Nat  BY WordAssumption
<1>a. \A r \in 0 .. 5 : Powers[r] \in Nat /\ Powers[r] < Word  BY PowersFit
<1>p. /\ Powers[0] = 1 /\ Powers[1] = Base /\ Powers[2] = Powers[1] * Powers[1]
      /\ Powers[3] = Base * Powers[2] /\ Powers[4] = Powers[2] * Powers[2]
      /\ Powers[5] = Base * Powers[4]
  BY DEF Powers
<1>0. CASE q = 0  BY <1>0, <1>p DEF Squaring
<1>1. CASE q = 1  BY <1>1, <1>p DEF Squaring
<1>2. CASE q = 2
  <2>1. q \div 2 = 1 /\ q % 2 = 0  BY <1>2
  <2>2. Squaring(f, q) = (Powers[1] * Powers[1]) % Word  BY <1>2, <2>1 DEF Squaring
  <2>3. Powers[2] % Word = Powers[2]  BY <1>a, SmallRemainder
  <2> QED  BY <1>2, <2>2, <2>3, <1>p
<1>3. CASE q = 3
  <2>1. q \div 2 = 1 /\ q % 2 # 0  BY <1>3
  <2>2. Squaring(f, q) = (Base * ((Powers[1] * Powers[1]) % Word)) % Word  BY <1>3, <2>1 DEF Squaring
  <2>3. Powers[2] % Word = Powers[2] /\ Powers[3] % Word = Powers[3]  BY <1>a, SmallRemainder
  <2> QED  BY <1>3, <2>2, <2>3, <1>p
<1>4. CASE q = 4
  <2>1. q \div 2 = 2 /\ q % 2 = 0  BY <1>4
  <2>2. Squaring(f, q) = (Powers[2] * Powers[2]) % Word  BY <1>4, <2>1 DEF Squaring
  <2>3. Powers[4] % Word = Powers[4]  BY <1>a, SmallRemainder
  <2> QED  BY <1>4, <2>2, <2>3, <1>p
<1>5. CASE q = 5
  <2>1. q \div 2 = 2 /\ q % 2 # 0  BY <1>5
  <2>2. Squaring(f, q) = (Base * ((Powers[2] * Powers[2]) % Word)) % Word  BY <1>5, <2>1 DEF Squaring
  <2>3. Powers[4] % Word = Powers[4] /\ Powers[5] % Word = Powers[5]  BY <1>a, SmallRemainder
  <2> QED  BY <1>5, <2>2, <2>3, <1>p
<1> QED  BY <1>0, <1>1, <1>2, <1>3, <1>4, <1>5

\* power is the power.  A function defined by recursion is known only once some function
\* satisfies its equation; here the table of the powers does.
LEMMA PowerIs ==
  ASSUME NEW p \in 0 .. 5
  PROVE  Pretty!power(Base, p) = Powers[p]
<1> DEFINE f == CHOOSE g : g = [q \in 0 .. p |-> Squaring(g, q)]
           table == [q \in 0 .. p |-> Powers[q]]
<1>1. Pretty!power(Base, p) = f[p]
  BY DEF Pretty!power, Squaring
<1>2. \A q \in 0 .. p : Squaring(table, q) = Powers[q]
  <2> TAKE q \in 0 .. p
  <2>1. q \in 0 .. 5  OBVIOUS
  <2>2. q \in 2 .. 5 => q \div 2 \in 0 .. p  OBVIOUS
  <2> QED  BY <2>1, <2>2, SquaringIs
<1>3. table = [q \in 0 .. p |-> Squaring(table, q)]
  <2> HIDE DEF table
  <2>1. [q \in 0 .. p |-> Powers[q]] = [q \in 0 .. p |-> Squaring(table, q)]  BY <1>2
  <2> QED  BY <2>1 DEF table
<1>4. f = [q \in 0 .. p |-> Squaring(f, q)]
  <2> HIDE DEF table
  <2> QED  BY <1>3
<1> HIDE DEF f
<1>5. \A q \in 0 .. p : f[q] = Squaring(f, q)  BY <1>4
<1>6. \A q \in 0 .. 1 : q \in 0 .. p => f[q] = Powers[q]
  <2> TAKE q \in 0 .. 1
  <2>1. Squaring(f, q) = Powers[q]  BY SquaringIs
  <2> QED  BY <2>1, <1>5
<1>7. \A q \in 2 .. 3 : q \in 0 .. p => f[q] = Powers[q]
  <2> TAKE q \in 2 .. 3
  <2> HAVE q \in 0 .. p
  <2>0. q \div 2 = 1 /\ q \in 0 .. 5  OBVIOUS
  <2>1. f[1] = Powers[1]  BY <1>6
  <2>2. Squaring(f, q) = Powers[q]  BY <2>0, <2>1, SquaringIs
  <2> QED  BY <2>2, <1>5
<1>8. \A q \in 4 .. 5 : q \in 0 .. p => f[q] = Powers[q]
  <2> TAKE q \in 4 .. 5
  <2> HAVE q \in 0 .. p
  <2>0. q \div 2 = 2 /\ q \in 0 .. 5  OBVIOUS
  <2>1. f[2] = Powers[2]  BY <1>7
  <2>2. Squaring(f, q) = Powers[q]  BY <2>0, <2>1, SquaringIs
  <2> QED  BY <2>2, <1>5
<1>9. f[p] = Powers[p]
  <2>1. p \in 0 .. 1 \/ p \in 2 .. 3 \/ p \in 4 .. 5  OBVIOUS
  <2> QED  BY <2>1, <1>6, <1>7, <1>8
<1> QED  BY <1>1, <1>9

\* What a suffix stands for is the power the code multiplies by.
LEMMA UnitIs ==
  ASSUME NEW s \in DOMAIN Pretty!Exponent
  PROVE  /\ Pretty!Exponent[s] \in 0 .. 5
         /\ Pretty!Unit[s] = Powers[Pretty!Exponent[s]]
<1> Base \in Nat  BY WordAssumption
<1>1. /\ Powers[0] = 1 /\ Powers[1] = Base /\ Powers[2] = Base * Base
      /\ Powers[3] = Base * Base * Base /\ Powers[4] = Base * Base * Base * Base
      /\ Powers[5] = Base * Base * Base * Base * Base
  BY DEF Powers
<1> QED  BY <1>1 DEF Pretty!Exponent, Pretty!Unit

\* What has been read, and what is returned for it.
PrettyInv ==
  /\ text \in [number : Nat, suffix : (DOMAIN Pretty!Exponent) \cup {"?"}]
  /\ textPc \in {"match", "threw", "scale", "returned"}
  /\ textPc \in {"scale", "returned"} => text.suffix \in DOMAIN Pretty!Exponent
  /\ textPc = "scale" => result = IF text.number < Word THEN text.number ELSE Word - 1
  /\ ConversionIsExact

\* prettyTo converts every text whose value fits the type to that value, for every base
\* and every width that holds the largest unit: neither the number, read with the type's
\* limits, nor the powers by squaring, nor the product wraps.
THEOREM ConversionIsExactHolds == Pretty!Spec => []ConversionIsExact
<1> Base \in Nat \ {0} /\ Word \in Nat /\ MaxNumber \in Nat  BY WordAssumption
<1>1. Pretty!Init => PrettyInv
  BY DEF Pretty!Init, PrettyInv, ConversionIsExact, Pretty!ConversionIsExact
<1>2. PrettyInv /\ [Pretty!Next]_(Pretty!vars) => PrettyInv'
  <2> SUFFICES ASSUME PrettyInv, [Pretty!Next]_(Pretty!vars) PROVE PrettyInv'
    OBVIOUS
  <2>1. CASE Pretty!NoMatch
    BY <2>1 DEF Pretty!NoMatch, PrettyInv, ConversionIsExact, Pretty!ConversionIsExact
  <2>2. CASE Pretty!Read
    BY <2>2 DEF Pretty!Read, PrettyInv, ConversionIsExact, Pretty!ConversionIsExact
  <2>3. CASE Pretty!Scale
    <3> DEFINE unit  == Pretty!Unit[text.suffix]
               value == text.number * unit
    <3>1. /\ text' = text /\ textPc = "scale" /\ textPc' = "returned"
          /\ result' = (result * Pretty!power(Base, Pretty!Exponent[text.suffix])) % Word
      BY <2>3 DEF Pretty!Scale
    <3>2. text.suffix \in DOMAIN Pretty!Exponent /\ text.number \in Nat
      BY <3>1 DEF PrettyInv
    <3>3. /\ Pretty!power(Base, Pretty!Exponent[text.suffix]) = unit
          /\ unit \in Nat \ {0}
      BY <3>2, UnitIs, PowerIs, PowersFit
    <3>4. text.number <= value /\ value \in Nat  BY <3>2, <3>3, ProductGrows
    <3>5. ASSUME value < Word PROVE result' = value
      <4>1. text.number < Word
        <5> HIDE DEF value
        <5> QED  BY <3>2, <3>4, <3>5
      <4>2. result = text.number  BY <4>1, <3>1 DEF PrettyInv
      <4>3. result' = value % Word  BY <4>2, <3>1, <3>3
      <4> HIDE DEF value
      <4> QED  BY <4>3, <3>4, <3>5, SmallRemainder
    <3>6. ConversionIsExact'
      BY <3>5, <3>1 DEF ConversionIsExact, Pretty!ConversionIsExact
    <3> QED  BY <3>1, <3>6 DEF PrettyInv
  <2>4. CASE UNCHANGED Pretty!vars
    BY <2>4 DEF Pretty!vars, PrettyInv, ConversionIsExact, Pretty!ConversionIsExact
  <2> QED  BY <2>1, <2>2, <2>3, <2>4 DEF Pretty!Next
<1>3. PrettyInv => ConversionIsExact  BY DEF PrettyInv
<1> QED  BY <1>1, <1>2, <1>3, PTL DEF Pretty!Spec
=============================================================================
