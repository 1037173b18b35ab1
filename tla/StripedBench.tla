---------------------------- MODULE StripedBench -----------------------------
(***************************************************************************)
(* pmem2bench, pmemblkbench and pmemobjbench: three programs built on one  *)
(* harness.  Main checks the sizes it was given, spawns the workers,       *)
(* starts the timer between two barriers and stops it when the workers     *)
(* are through; every worker reads or writes its strip unit of every       *)
(* stripe.  The programs differ in how an access can fail, in how the      *)
(* failure travels to main, and in how main waits for the end.             *)
(*                                                                         *)
(* A barrier appears as its promise, AbstractBarrier (module Barrier is    *)
(* shown to implement it): a thread enters, and leaves once all have       *)
(* entered.                                                                *)
(***************************************************************************)
EXTENDS Integers, FiniteSets, Functions, BagsExt

CONSTANT
  Args       \* the command lines: [program, total, stripe, block, nthreads, nelements, op]

\* op is --read, --write, either of them with --dry-run (pmem2bench only), --write
\* --alloc (pmemobjbench only), none of them, or --read and --write together; "bad"
\* stands for an unknown --source or --granularity (pmem2bench) or a --pool_size below
\* the minimum (pmemblkbench).  nelements is the size of the pmemblk pool.
Ops == [pmem2 |-> {"read", "write", "none", "both", "dry", "bad"},
        blk   |-> {"read", "write", "none", "both", "bad"},
        obj   |-> {"read", "write", "none", "both", "alloc"}]

ASSUME ArgsAssumption ==
  \A a \in Args : /\ a.program \in DOMAIN Ops
                  /\ a.total \in Nat /\ a.nelements \in Nat
                  /\ {a.stripe, a.block, a.nthreads} \subseteq Nat \ {0}
                  /\ a.op \in Ops[a.program]

VARIABLES
  args,      \* the options of this run
  order,     \* access_offset
  mpc, wpc,  \* where main and each worker are
  missing,   \* how many threads each barrier still waits for
  timer,     \* elapsed_time
  stripe, j, \* the loop counters of each worker
  ret,       \* pmemobjbench's variable ret, shared by the workers
  own,       \* the result of each worker's last pmemobj_xalloc
  fail,      \* the atomic flag
  report,    \* results.success, once printed
  hits,      \* history: how often each block has been accessed
  failed     \* history: some access has failed

threadVars == <<mpc, wpc, missing, timer>>
loopVars   == <<stripe, j>>
resultVars == <<ret, own, fail, failed, hits>>
vars == <<args, order, threadVars, loopVars, resultVars, report>>

Program  == args.program
Workers  == 0 .. args.nthreads - 1
Barriers == {"ready", "timer", "finish"}

\* The program has ended: with a report, with an error message, or killed, by
\* std::terminate or a signal.
Ended == mpc \in {"exit", "rejected", "aborted"}
-----------------------------------------------------------------------------
(* The arithmetic of the harness. *)

stripe_count         == args.total \div args.stripe
strip_unit_size      == args.stripe \div args.nthreads
blocks_in_strip_unit == strip_unit_size \div args.block
blocks_in_stripe     == args.stripe \div args.block
nobjects             == args.total \div args.block

\* Mutant of ValidArgs: the total may end inside a stripe.
ValidArgsPartialStripe ==
  /\ args.op \notin {"none", "both", "bad"}
  /\ args.total % args.block = 0
  /\ args.stripe % args.block = 0
  /\ args.stripe % args.nthreads = 0
  /\ strip_unit_size >= args.block

ValidArgs ==
  /\ args.op \notin {"none", "both", "bad"}
  /\ args.total % args.stripe = 0
  /\ args.total % args.block = 0
  /\ args.stripe % args.block = 0
  /\ args.stripe % args.nthreads = 0
  /\ strip_unit_size >= args.block

\* Mutant of PoolFits: one element too few is let through.
PoolFitsOffByOne == Program = "blk" => args.nelements + 1 >= nobjects

\* pmemblkbench compares the pool with the total; pmemobjbench resizes its vector
\* to the total; pmem2bench takes the mapping as it is.
PoolFits == Program = "blk" => args.nelements >= nobjects

\* Mutant of BlockOf: stripes are laid out at the distance of one worker's unit.
BlockOfShortStripe(w, s, k) ==
  order[k] + s * blocks_in_strip_unit + w * blocks_in_strip_unit

\* The block that worker w accesses in step k of stripe s.
BlockOf(w, s, k) ==
  order[k] + s * blocks_in_stripe + w * blocks_in_strip_unit

Capacity == IF Program = "blk" THEN args.nelements ELSE nobjects
-----------------------------------------------------------------------------
\* Mutant of Parties: main is not counted.
PartiesWithoutMain == args.nthreads

\* psync::Barrier(nthreads + 1)
Parties == args.nthreads + 1

Init ==
  /\ args \in Args
  /\ order = [k \in 0 .. blocks_in_strip_unit - 1 |-> k]
  /\ mpc = "check" /\ wpc = [w \in Workers |-> "unborn"]
  /\ missing = [b \in Barriers |-> Parties]
  /\ timer = "unset"
  /\ stripe = [w \in Workers |-> 0] /\ j = [w \in Workers |-> 0]
  /\ ret = 0              \* uninitialised, but written before it is read
  /\ own = [w \in Workers |-> 0]
  /\ fail = FALSE /\ report = "none"
  /\ hits = [b \in {} |-> 0] /\ failed = FALSE
-----------------------------------------------------------------------------
(* Main. *)

MainGoto(from, to) == mpc = from /\ mpc' = to

\* The argument check, the same in all three programs.
Reject ==
  /\ MainGoto("check", "rejected")
  /\ ~ValidArgs
  /\ UNCHANGED <<args, order, wpc, missing, timer, loopVars, resultVars, report>>

Accept ==
  /\ MainGoto("check", "open")
  /\ ValidArgs
  /\ UNCHANGED <<args, order, wpc, missing, timer, loopVars, resultVars, report>>

\* Open or create the pool, or map the source.
OpenPool ==
  /\ MainGoto("open", "opened")
  /\ UNCHANGED <<args, order, wpc, missing, timer, loopVars, resultVars, report>>

\* That fails: exit(1), or an exception that main reports.  A dry run opens nothing.
OpenFails ==
  /\ MainGoto("open", "rejected")
  /\ args.op # "dry"
  /\ UNCHANGED <<args, order, wpc, missing, timer, loopVars, resultVars, report>>

PoolTooSmall ==
  /\ MainGoto("opened", "rejected")
  /\ ~PoolFits
  /\ UNCHANGED <<args, order, wpc, missing, timer, loopVars, resultVars, report>>

\* The offsets are counted up, and shuffled when --random is given.
Prepare ==
  /\ MainGoto("opened", "spawn")
  /\ PoolFits
  /\ order' \in Bijection(DOMAIN order, DOMAIN order)
  /\ UNCHANGED <<args, wpc, missing, timer, loopVars, resultVars, report>>

\* workers.emplace_back: the threads start one after the other.
Spawn(w) ==
  /\ mpc = "spawn"
  /\ \A v \in Workers : wpc[v] = "unborn" <=> v >= w
  /\ wpc' = [wpc EXCEPT ![w] = "enter_ready"]
  /\ mpc' = IF w = args.nthreads - 1 THEN "enter_ready" ELSE "spawn"
  /\ UNCHANGED <<args, order, missing, timer, loopVars, resultVars, report>>

\* The constructor of std::thread throws: nobody catches the exception, or it meets
\* threads that are not joined on its way out.  (Only pmemobjbench, at its first thread,
\* gets as far as to print it.)
SpawnFails ==
  /\ MainGoto("spawn", "aborted")
  /\ UNCHANGED <<args, order, wpc, missing, timer, loopVars, resultVars, report>>

\* Barrier::enter: arrive, and go on when nobody is missing.
MainEnter(b, from, to) ==
  /\ MainGoto(from, to)
  /\ missing' = [missing EXCEPT ![b] = @ - 1]
  /\ UNCHANGED <<args, order, wpc, timer, loopVars, resultVars, report>>

MainLeave(b, from, to) ==
  /\ MainGoto(from, to)
  /\ missing[b] = 0
  /\ UNCHANGED <<args, order, wpc, missing, timer, loopVars, resultVars, report>>

\* The constructor of ElapsedTime, and reset() again in two of the programs.
StartTimer ==
  /\ MainGoto("start", "enter_timer")
  /\ timer' = "running"
  /\ UNCHANGED <<args, order, wpc, missing, loopVars, resultVars, report>>

HasFinishBarrier == Program # "blk"

AfterTimerBarrier == IF HasFinishBarrier THEN "enter_finish" ELSE "join"
AfterFreeze       == IF HasFinishBarrier THEN "join" ELSE "report"
AfterJoin         == IF HasFinishBarrier THEN "report" ELSE "freeze"

\* Mutant of Freeze: pmem2bench and pmemobjbench without the finish barrier.
FreezeEarly ==
  /\ \/ MainGoto("freeze", AfterFreeze)
     \/ MainGoto("enter_finish", AfterFreeze)
  /\ timer' = "frozen"
  /\ UNCHANGED <<args, order, wpc, missing, loopVars, resultVars, report>>

\* elapsed_time.freeze()
Freeze ==
  /\ MainGoto("freeze", AfterFreeze)
  /\ timer' = "frozen"
  /\ UNCHANGED <<args, order, wpc, missing, loopVars, resultVars, report>>

\* worker.join() for every worker
Join ==
  /\ MainGoto("join", AfterJoin)
  /\ \A w \in Workers : wpc[w] = "done"
  /\ UNCHANGED <<args, order, wpc, missing, timer, loopVars, resultVars, report>>

\* success is !fail; time and throughput are given for a success only.
Report ==
  /\ MainGoto("report", "exit")
  /\ report' = IF fail THEN "failure" ELSE "success"
  /\ UNCHANGED <<args, order, wpc, missing, timer, loopVars, resultVars>>

MainStep ==
  \/ Reject \/ Accept \/ OpenPool \/ OpenFails \/ PoolTooSmall \/ Prepare
  \/ (\E w \in Workers : Spawn(w)) \/ SpawnFails
  \/ MainEnter("ready", "enter_ready", "in_ready")
  \/ MainLeave("ready", "in_ready", "start")
  \/ StartTimer
  \/ MainEnter("timer", "enter_timer", "in_timer")
  \/ MainLeave("timer", "in_timer", AfterTimerBarrier)
  \/ MainEnter("finish", "enter_finish", "in_finish")
  \/ MainLeave("finish", "in_finish", "freeze")
  \/ Freeze \/ Join \/ Report
-----------------------------------------------------------------------------
(* Worker w. *)

WorkerGoto(w, from, to) ==
  /\ ~Ended
  /\ wpc[w] = from /\ wpc' = [wpc EXCEPT ![w] = to]

WorkerEnter(w, b, from, to) ==
  /\ WorkerGoto(w, from, to)
  /\ missing' = [missing EXCEPT ![b] = @ - 1]
  /\ UNCHANGED <<args, order, mpc, timer, loopVars, resultVars, report>>

WorkerLeave(w, b, from, to) ==
  /\ WorkerGoto(w, from, to)
  /\ missing[b] = 0
  /\ UNCHANGED <<args, order, mpc, missing, timer, loopVars, resultVars, report>>

\* What follows the outer loop.
AfterLoop == IF HasFinishBarrier THEN "enter_finish" ELSE "done"

\* The head of the outer loop.
NextStripe(s) == IF s < stripe_count THEN "io" ELSE AfterLoop

Access(w) == hits' = BagAdd(hits, BlockOf(w, stripe[w], j[w]))

\* The access went through: on to the next block, or to the end of the stripe.
Advance(w, from) ==
  /\ WorkerGoto(w, from, IF j[w] + 1 < blocks_in_strip_unit THEN "io" ELSE "stripe_end")
  /\ j' = [j EXCEPT ![w] = @ + 1]

\* fail.store(true); break
Break(w, from) ==
  /\ WorkerGoto(w, from, "stripe_end")
  /\ fail' = TRUE
  /\ UNCHANGED j

\* The accesses that tell the worker of a failure: pmemblk_read and pmemblk_write.
\* The copies of pmem2bench cannot fail, the one of pmemobjbench --read does not tell.
Reports == Program = "blk"

\* A copy, or a make_persistent_atomic or pmemblk call that succeeds.
Succeed(w) ==
  /\ ~(Program = "obj" /\ args.op = "write")
  /\ Advance(w, "io")
  /\ IF args.op = "dry" THEN UNCHANGED hits ELSE Access(w)
  /\ UNCHANGED <<args, order, mpc, missing, timer, stripe, ret, own, fail, failed, report>>

\* Mutant of Fail: the flag is forgotten.
FailSilently(w) ==
  /\ Reports
  /\ WorkerGoto(w, "io", "stripe_end")
  /\ failed' = TRUE
  /\ UNCHANGED <<args, order, mpc, missing, timer, loopVars, ret, own, fail, hits, report>>

\* pmemblk_read or pmemblk_write returns -1.
Fail(w) ==
  /\ Reports
  /\ Break(w, "io") /\ failed' = TRUE
  /\ UNCHANGED <<args, order, mpc, missing, timer, stripe, ret, own, hits, report>>

\* make_persistent_atomic throws, and nobody catches it in the thread; or --read copies
\* from the null pointer of an object that was never allocated, and the process is killed.
Throw(w) ==
  /\ Program = "obj" /\ args.op \in {"alloc", "read"}
  /\ ~Ended /\ wpc[w] = "io"
  /\ mpc' = "aborted" /\ failed' = TRUE
  /\ UNCHANGED <<args, order, wpc, missing, timer, loopVars, ret, own, fail, hits, report>>

\* ret = pmemobj_xalloc(...)
Store(w) ==
  /\ Program = "obj" /\ args.op = "write"
  /\ WorkerGoto(w, "io", "test")
  /\ \E r \in {0, 1} :
       /\ ret' = r /\ own' = [own EXCEPT ![w] = r]
       /\ failed' = (failed \/ r # 0)
       /\ IF r = 0 THEN Access(w) ELSE UNCHANGED hits
  /\ UNCHANGED <<args, order, mpc, missing, timer, loopVars, fail, report>>

\* Mutant of Test: the condition the wrong way round.
TestInverted(w) ==
  /\ \E r \in {ret, own[w]} :
       IF r # 0 THEN Advance(w, "test") /\ UNCHANGED fail ELSE Break(w, "test")
  /\ UNCHANGED <<args, order, mpc, missing, timer, stripe, ret, own, failed, hits, report>>

\* if (ret != 0): the compiler may read the shared variable again or use the value
\* it still has in a register.
Test(w) ==
  /\ \E r \in {ret, own[w]} :
       IF r = 0 THEN Advance(w, "test") /\ UNCHANGED fail ELSE Break(w, "test")
  /\ UNCHANGED <<args, order, mpc, missing, timer, stripe, ret, own, failed, hits, report>>

\* if (fail.load()) break (not in pmem2bench, where nothing sets fail); ++stripe
StripeEnd(w) ==
  /\ WorkerGoto(w, "stripe_end", IF fail THEN AfterLoop ELSE NextStripe(stripe[w] + 1))
  /\ stripe' = [stripe EXCEPT ![w] = IF fail THEN @ ELSE @ + 1]
  /\ j' = [j EXCEPT ![w] = 0]
  /\ UNCHANGED <<args, order, mpc, missing, timer, resultVars, report>>

WorkerStep(w) ==
  \/ WorkerEnter(w, "ready", "enter_ready", "in_ready")
  \/ WorkerLeave(w, "ready", "in_ready", "enter_timer")
  \/ WorkerEnter(w, "timer", "enter_timer", "in_timer")
  \/ WorkerLeave(w, "timer", "in_timer", NextStripe(0))
  \/ Succeed(w) \/ Fail(w) \/ Throw(w) \/ Store(w) \/ Test(w)
  \/ StripeEnd(w)
  \/ WorkerEnter(w, "finish", "enter_finish", "in_finish")
  \/ WorkerLeave(w, "finish", "in_finish", "done")

Done == Ended /\ UNCHANGED vars

Next == MainStep \/ (\E w \in Workers : WorkerStep(w)) \/ Done

Spec == Init /\ [][Next]_vars

\* The operating system schedules main and every worker.
FairSpec ==
  /\ Spec
  /\ WF_vars(MainStep)
  /\ \A w \in UNION {0 .. a.nthreads - 1 : a \in Args} :
       WF_vars(w \in Workers /\ WorkerStep(w))
-----------------------------------------------------------------------------
(* The measured interval holds all of the I/O and none of the preparation: *)
(* the timer runs while any worker is in its loop, and it does not start   *)
(* before every worker has been created and has arrived.                   *)
TimerBracketsIO ==
  /\ \A w \in Workers :
       wpc[w] \in {"io", "test", "stripe_end"} => timer = "running"
  /\ timer # "unset" =>
       \A w \in Workers : wpc[w] \notin {"unborn", "enter_ready"}

(* The strip units of the workers do not overlap, in any stripe and with   *)
(* any shuffle: no block is accessed twice.                                *)
NoBlockTwice == \A b \in DOMAIN hits : hits[b] = 1

(* Every access stays within the pool, vector or total the program sized.  *)
AccessInBounds == DOMAIN hits \subseteq 0 .. Capacity - 1

(* A run reported as a success has met no failed access.                   *)
SuccessIsClean == report = "success" => ~failed

(* So it is where the workers do not share the variable they test.         *)
SuccessIsCleanUnshared == Program # "obj" => SuccessIsClean

(* The flag is raised only if an access has really failed.                 *)
FailureIsReal == fail => failed

(* A clean run, unless dry, accesses every block of the total, if the      *)
(* strip units are made of whole blocks.                                   *)
SuccessCoversUnits ==
  (report = "success" /\ ~failed /\ args.op # "dry" /\ strip_unit_size % args.block = 0)
    => DOMAIN hits = 0 .. nobjects - 1

(* What the option --total and the reported throughput say: a successful   *)
(* run, unless dry, reads or writes total bytes.                           *)
SuccessCoversTotal ==
  (report = "success" /\ args.op # "dry") => DOMAIN hits = 0 .. nobjects - 1

(* The barriers and the joins let everybody through: a program that has    *)
(* accepted its arguments ends, and prints its result unless it could not  *)
(* open its pool or was aborted.                                           *)
Terminates == mpc = "open" ~> (mpc \in {"rejected", "aborted"} \/ report # "none")
=============================================================================
