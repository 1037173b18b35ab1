---------------------------- MODULE MCMutexUsers -----------------------------
(***************************************************************************)
(* What lives behind a mutex, for TLC: the threads of a run either use the *)
(* same synchronized values, or they are the handlers and the printing     *)
(* thread of thallium_failure_detector (HeartbeatServer).  The other of    *)
(* the two stays as it is.                                                 *)
(***************************************************************************)
EXTENDS SynchronizedValue, Integers, TLC

CONSTANTS window_size, Garbage, Heartbeat, MaxTime

\* window_size_ is a size_t; the printing thread is not a handler.
ASSUME ServerAssumption == window_size \in Nat /\ "printer" \notin Heartbeat

VARIABLES
  started,
  now, hpc, ppc, mtx, received_first_heartbeat, latest, window, printed, times

Server     == INSTANCE HeartbeatServer
ServerVars == <<now, hpc, ppc, mtx, received_first_heartbeat, latest, window, printed, times>>
AllVars    == <<started, vars, ServerVars>>

AllKinds == {"get", "set", "exchange"} \cup Binary

\* Threads and objects are interchangeable, and so are the heartbeats.
Perms == Permutations(Threads) \cup Permutations(Objects) \cup Permutations(Heartbeat)

MCInit ==
  /\ started \in {"values", "server"}
  /\ Init
  /\ Server!Init
  /\ started # "server" => window = Server!reset

ValuesStep == started = "values" /\ Next /\ UNCHANGED <<started, ServerVars>>
ServerStep == started = "server" /\ Server!Next /\ UNCHANGED <<started, vars>>

MCNext == ValuesStep \/ ServerStep

MCSpec == MCInit /\ [][MCNext]_AllVars
-----------------------------------------------------------------------------
(* Every phi printed from the second heartbeat on rests on the intervals   *)
(* of the window, whole: never on uninitialised memory, on an interval     *)
(* that has left the window or on a heartbeat half taken in.               *)
PhiFromLastIntervals == Server!PhiFromLastIntervals
=============================================================================
