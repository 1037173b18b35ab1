--------------------------- MODULE HeartbeatServer ---------------------------
(***************************************************************************)
(* thallium_failure_detector on phi_accrual_fd::FailureDetector.  Clients  *)
(* send heartbeats that are not answered; the server runs one handler for  *)
(* each, in any order, beside a thread that prints phi for ever.  A mutex  *)
(* keeps them apart.  The clock is the machine's, which may be set back.   *)
(***************************************************************************)
EXTENDS PhiWindow

CONSTANTS
  Heartbeat,   \* the heartbeats the clients send
  MaxTime      \* bound on the clock

VARIABLES
  now,         \* clock_t::now()
  hpc,         \* where each heartbeat and its handler are
  ppc,         \* where the printing thread is
  mtx,         \* who holds the mutex, as a set
  received_first_heartbeat,
  latest,      \* latest_heartbeat_
  window,      \* window_
  printed,     \* what the last phi() printed was computed from
  times        \* history: when the heartbeats were handled

vars == <<now, hpc, ppc, mtx, received_first_heartbeat, latest, window, printed, times>>

Init ==
  /\ now = 0
  /\ hpc = [h \in Heartbeat |-> "unsent"]
  /\ ppc = "loop"
  /\ mtx = {}
  /\ received_first_heartbeat = FALSE
  /\ latest = now
  /\ window \in Constructed
  /\ printed = [from |-> normalDistribution(reset), after |-> 0]
  /\ times = <<>>

\* Time passes, or somebody sets the clock back by one.
Clock ==
  /\ now' \in {now - 1, now + 1} \cap 0 .. MaxTime
  /\ UNCHANGED <<hpc, ppc, mtx, received_first_heartbeat, latest, window, printed, times>>

\* A client sends "hb" and does not wait.
Send(h) ==
  /\ hpc[h] = "unsent"
  /\ hpc' = [hpc EXCEPT ![h] = "sent"]
  /\ UNCHANGED <<now, ppc, mtx, received_first_heartbeat, latest, window, printed, times>>
-----------------------------------------------------------------------------
(* The handler of "hb" *)

HandlerLock(h) ==
  /\ hpc[h] = "sent" /\ mtx = {}
  /\ mtx' = {h}
  /\ hpc' = [hpc EXCEPT ![h] = "locked"]
  /\ UNCHANGED <<now, ppc, received_first_heartbeat, latest, window, printed, times>>

Unlock(h) == mtx' = {} /\ hpc' = [hpc EXCEPT ![h] = "done"]

\* FailureDetector::reset, for the first heartbeat
HandlerReset(h) ==
  /\ hpc[h] = "locked" /\ ~received_first_heartbeat
  /\ received_first_heartbeat' = TRUE
  /\ window' = reset
  /\ latest' = now
  /\ times' = <<now>>
  /\ Unlock(h)
  /\ UNCHANGED <<now, ppc, printed>>

\* FailureDetector::heartbeat, for the others: the interval, ...
HandlerAdd(h) ==
  /\ hpc[h] = "locked" /\ received_first_heartbeat
  /\ window' = addToSum(window, now - latest)
  /\ latest' = now
  /\ times' = Append(times, now)
  /\ hpc' = [hpc EXCEPT ![h] = "added"]
  /\ UNCHANGED <<now, ppc, mtx, received_first_heartbeat, printed>>

\* ... its square, ...
HandlerSquare(h) ==
  /\ hpc[h] = "added"
  /\ window' = addToSquares(window)
  /\ hpc' = [hpc EXCEPT ![h] = "squared"]
  /\ UNCHANGED <<now, ppc, mtx, received_first_heartbeat, latest, printed, times>>

\* ... and the oldest interval leaves the window.
HandlerDrop(h) ==
  /\ hpc[h] = "squared"
  /\ window' = dropOldest(window)
  /\ Unlock(h)
  /\ UNCHANGED <<now, ppc, received_first_heartbeat, latest, printed, times>>
-----------------------------------------------------------------------------
(* print_phi_thread *)

\* Mutant of PrinterLock: phi is computed without the mutex.
PrinterNoLock ==
  /\ ppc = "loop"
  /\ ppc' = "locked"
  /\ UNCHANGED <<now, hpc, mtx, received_first_heartbeat, latest, window, printed, times>>

PrinterLock ==
  /\ ppc = "loop" /\ mtx = {}
  /\ mtx' = {"printer"}
  /\ ppc' = "locked"
  /\ UNCHANGED <<now, hpc, received_first_heartbeat, latest, window, printed, times>>

\* phi(): the time since the last heartbeat against the distribution of the intervals.
PrinterPhi ==
  /\ ppc = "locked"
  /\ printed' = [from |-> normalDistribution(window), after |-> Len(times)]
  /\ mtx' = mtx \ {"printer"}
  /\ ppc' = "loop"
  /\ UNCHANGED <<now, hpc, received_first_heartbeat, latest, window, times>>

Next ==
  \/ Clock \/ PrinterLock \/ PrinterPhi
  \/ \E h \in Heartbeat : \/ Send(h) \/ HandlerLock(h) \/ HandlerReset(h)
                          \/ HandlerAdd(h) \/ HandlerSquare(h) \/ HandlerDrop(h)

Spec == Init /\ [][Next]_vars
-----------------------------------------------------------------------------
\* The intervals between the first n of some times, the last window_size of them.
Intervals(at, n) ==
  LET first == IF n - 1 > window_size THEN n - window_size ELSE 1
  IN  [m \in 1 .. n - first |-> at[first + m] - at[first + m - 1]]

\* From the second heartbeat on, every phi printed rests on the mean and the variance of
\* the last intervals between heartbeats, whole: never on memory nobody initialised, on
\* an interval that has left the window or on a heartbeat half taken in.
PhiFromLastIntervals ==
  printed.after >= 2 =>
    LET last == Intervals(times, printed.after)
    IN  printed.from = [n |-> Len(last), sum |-> Total(last), squares |-> Squares(last)]

=============================================================================
