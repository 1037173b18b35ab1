---------------------------- MODULE MCBenchmarks -----------------------------
(***************************************************************************)
(* The benchmark programs for TLC: a run starts pmem2bench, pmemblkbench   *)
(* or pmemobjbench (StripedBench) or atomic_bench, or it converts one of   *)
(* the sizes on their command lines (PrettyBytes).  They share nothing;    *)
(* what a run does not start stays as it is.                               *)
(***************************************************************************)
EXTENDS MCStripedBench

CONSTANTS Base, Word, MaxNumber

\* The type holds the value of every suffix (T is uint64_t in every program).
ASSUME WordAssumption ==
  /\ Base \in Nat \ {0} /\ Word \in Nat /\ MaxNumber \in Nat
  /\ Base * Base * Base * Base * Base < Word

VARIABLES
  started,
  counterArgs, counterPc, counterMissing, counterJ, counter, counterTimer,
  text, textPc, result

StripedVars == vars
CounterVars == <<counterArgs, counterPc, counterMissing, counterJ, counter, counterTimer>>
TextVars    == <<text, textPc, result>>
AllVars     == <<started, StripedVars, CounterVars, TextVars>>

\* Up to three workers; totals that divide evenly, that do not, and zero.
MaxThreads  == 3
CounterArgs == [nthreads : 0 .. MaxThreads, total : {0, 3, 4}]
StripedArgs == Pmem2Lines \cup BlkLines \cup ObjLines

Counter == INSTANCE AtomicBench
             WITH Args <- CounterArgs, args <- counterArgs, pc <- counterPc,
                  missing <- counterMissing, j <- counterJ, timer <- counterTimer

Pretty == INSTANCE PrettyBytes WITH pc <- textPc

MCInit ==
  /\ started \in {"striped", "counter", "pretty"}
  /\ Init
  /\ started # "striped" => args = Line("blk", 0, 2, 1, 2, 0, "write")
  /\ Counter!Init
  /\ started # "counter" => counterArgs = [nthreads |-> 0, total |-> 0]
  /\ Pretty!Init
  /\ started # "pretty" => text = [number |-> 0, suffix |-> "?"]

StripedMain      == started = "striped" /\ MainStep /\ UNCHANGED <<started, CounterVars, TextVars>>
StripedWorker(w) == /\ started = "striped" /\ w \in Workers /\ WorkerStep(w)
                    /\ UNCHANGED <<started, CounterVars, TextVars>>
CounterMain      == started = "counter" /\ Counter!MainStep /\ UNCHANGED <<started, StripedVars, TextVars>>
CounterWorker(w) == /\ started = "counter" /\ w \in Counter!Workers /\ Counter!WorkerStep(w)
                    /\ UNCHANGED <<started, StripedVars, TextVars>>
Convert          == started = "pretty" /\ Pretty!Next /\ UNCHANGED <<started, StripedVars, CounterVars>>

Over == /\ CASE started = "striped" -> Ended
             [] started = "counter" -> counterPc[0] \in {"crashed", "rejected", "aborted", "threw", "reported"}
             [] started = "pretty"  -> textPc \in {"threw", "returned"}
        /\ UNCHANGED AllVars

MCNext == \/ StripedMain \/ (\E w \in Workers : StripedWorker(w))
          \/ CounterMain \/ (\E w \in Counter!Workers : CounterWorker(w))
          \/ Convert \/ Over

\* The operating system schedules the threads of the program that was started.
MCSpec == /\ MCInit /\ [][MCNext]_AllVars
          /\ WF_AllVars(StripedMain) /\ \A w \in 0 .. MaxThreads : WF_AllVars(StripedWorker(w))
          /\ WF_AllVars(CounterMain) /\ \A w \in 0 .. MaxThreads : WF_AllVars(CounterWorker(w))
-----------------------------------------------------------------------------
(* atomic_bench: a command line the check accepts ends in a report with    *)
(* the total, unless a thread cannot be created; no barrier holds a party  *)
(* for ever.                                                               *)
EndsInReport == Counter!EndsInReport

(* prettyTo: a text whose value fits the type is converted to that value.  *)
ConversionIsExact == Pretty!ConversionIsExact
=============================================================================
