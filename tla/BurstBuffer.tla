----------------------------- MODULE BurstBuffer -----------------------------
(***************************************************************************)
(* BurstBuffer of pmembb_list: a persistent, singly linked list of writes  *)
(* shared by a writer and a flusher thread.                                *)
(*                                                                         *)
(*   active -> sentinel -> write -> write -> null      (owned by Writer)   *)
(*   flushing -> write -> write -> null                (owned by Flusher)  *)
(*                                                                         *)
(* The model is at the level of pointers.  Persistent memory survives a    *)
(* crash; a transaction in progress leaves its undo log behind, which is   *)
(* replayed when the pool is opened again.  A payload is represented by    *)
(* the number of the write that produced it.                               *)
(***************************************************************************)
EXTENDS Integers, FiniteSets, Sequences

CONSTANTS
  Nodes,            \* the list nodes the heap has room for
  NULL,             \* the null pointer
  NoEntry,          \* the undo log has no entry for this location
  CallbackMayStop,  \* may the flush callback return true or throw?
  MaxWrites,        \* bound on the number of successful writes
  MaxCrashes        \* bound on the number of crashes

ASSUME NodesAssumption == /\ NULL \notin Nodes
                          /\ NoEntry \notin Nodes
                          /\ NoEntry # NULL
ASSUME BoundsAssumption == /\ CallbackMayStop \in BOOLEAN
                           /\ MaxWrites \in Nat
                           /\ MaxCrashes \in Nat

VARIABLES
  \* persistent memory
  active,     \* persistent_->active
  flushing,   \* persistent_->flushing
  next,       \* the next field of every node
  req,        \* write_req of every node: the number of the write, 0 in the sentinel
  allocated,  \* the nodes that are allocated
  undo,       \* undo log: old values of flushing and of active->next
  \* volatile memory
  phase,      \* of the process: down, opened, walk (runtimeInitialize), running
  tail,       \* tail_
  mtx,        \* owner of flush_mutex_
  wpc,        \* where the writer thread is
  fpc,        \* where the flusher thread is
  cur,        \* flushAll's cur
  dead,       \* nodes deleted by flushAll's open transaction
  \* history
  written,    \* writes published so far
  enqueued,   \* writes handed to the flusher so far
  released,   \* writes whose nodes have been freed so far
  delivered,  \* numbers of the writes the callback has accepted
  crashes

heap  == <<active, flushing, next, req, allocated, undo>>
local == <<phase, tail, mtx, wpc, fpc, cur, dead>>
hist  == <<written, enqueued, released, delivered, crashes>>
vars  == <<heap, local, hist>>

NodeOrNull == Nodes \cup {NULL}
LogEntry   == NodeOrNull \cup {NoEntry}
NoUndo     == [flushing |-> NoEntry, anext |-> NoEntry]

\* Locations at which each thread owns flush_mutex_.
WriterHolds  == {"locked", "moved", "cut", "committed"}
FlusherHolds == {"scan", "delete", "cleared"}

TypeOK ==
  /\ active \in NodeOrNull
  /\ flushing \in NodeOrNull
  /\ next \in [Nodes -> NodeOrNull]
  /\ req \in [Nodes -> Nat]
  /\ allocated \in SUBSET Nodes
  /\ undo \in [flushing : LogEntry, anext : LogEntry]
  /\ phase \in {"down", "opened", "walk", "running"}
  /\ tail \in NodeOrNull
  /\ mtx \in {"free", "writer", "flusher"}
  /\ wpc \in {"idle", "published"} \cup WriterHolds
  /\ fpc \in {"idle"} \cup FlusherHolds
  /\ cur \in NodeOrNull
  /\ dead \in SUBSET Nodes
  /\ written \in Nat
  /\ enqueued \in Nat
  /\ released \in Nat
  /\ delivered \in SUBSET Nat
  /\ crashes \in Nat

\* A new pool: r->bb is allocated and zeroed by one transaction of main(), and
\* until that transaction commits there is nothing to lose.
Init ==
  /\ active = NULL /\ flushing = NULL
  /\ next = [n \in Nodes |-> NULL]
  /\ req = [n \in Nodes |-> 0]
  /\ allocated = {}
  /\ undo = NoUndo
  /\ phase = "down" /\ tail = NULL /\ mtx = "free"
  /\ wpc = "idle" /\ fpc = "idle" /\ cur = NULL /\ dead = {}
  /\ written = 0 /\ enqueued = 0 /\ released = 0
  /\ delivered = {} /\ crashes = 0
-----------------------------------------------------------------------------
(* makePersistentAtomic: pmemobj_xalloc runs the constructor on the new    *)
(* node and only then, in the same failure-atomic step, stores its address *)
(* in the destination.  The destination is `active' or some node's next.   *)
Construct(n, id) == /\ n \in Nodes \ allocated
                    /\ allocated' = allocated \cup {n}
                    /\ req' = [req EXCEPT ![n] = id]
-----------------------------------------------------------------------------
(* main() opens the pool and BurstBuffer::runtimeInitialize finds the tail *)

\* pool_t::open: an unfinished transaction is rolled back.
Open ==
  /\ phase = "down"
  /\ phase' = "opened"
  /\ flushing' = IF undo.flushing = NoEntry THEN flushing ELSE undo.flushing
  /\ next' = IF undo.anext = NoEntry THEN next
             ELSE [next EXCEPT ![active] = undo.anext]
  /\ undo' = NoUndo
  /\ UNCHANGED <<active, req, allocated, tail, mtx, wpc, fpc, cur, dead, hist>>

\* The sentinel is created once in the life of the pool.
CreateSentinel(n) ==
  /\ phase = "opened"
  /\ active = NULL
  /\ Construct(n, 0)
  /\ next' = [next EXCEPT ![n] = NULL]
  /\ active' = n
  /\ tail' = n
  /\ phase' = "walk"
  /\ UNCHANGED <<flushing, undo, mtx, wpc, fpc, cur, dead, hist>>

\* The allocation throws; main() reports the exception and returns.
SentinelFails ==
  /\ phase = "opened"
  /\ active = NULL
  /\ phase' = "down"
  /\ UNCHANGED <<heap, tail, mtx, wpc, fpc, cur, dead, hist>>

FindSentinel ==
  /\ phase = "opened"
  /\ active # NULL
  /\ tail' = active
  /\ phase' = "walk"
  /\ UNCHANGED <<heap, mtx, wpc, fpc, cur, dead, hist>>

\* Mutant of WalkTail: the list is not walked to its end.
WalkTailNever ==
  /\ phase = "walk"
  /\ phase' = "running"
  /\ UNCHANGED <<heap, tail, mtx, wpc, fpc, cur, dead, hist>>

\* while (tail_->next != nullptr) tail_ = tail_->next; then the threads start.
WalkTail ==
  /\ phase = "walk"
  /\ IF next[tail] # NULL
     THEN tail' = next[tail] /\ UNCHANGED phase
     ELSE phase' = "running" /\ UNCHANGED tail
  /\ UNCHANGED <<heap, mtx, wpc, fpc, cur, dead, hist>>

Setup == \/ Open
         \/ \E n \in Nodes : CreateSentinel(n)
         \/ SentinelFails
         \/ FindSentinel
         \/ WalkTail
-----------------------------------------------------------------------------
(* Writer *)

WriterAt(l) == phase = "running" /\ wpc = l

\* tryPwrite: allocate the node straight into tail_->next.
PwriteAlloc(n) ==
  /\ WriterAt("idle")
  /\ written < MaxWrites
  /\ Construct(n, written + 1)
  /\ next' = [next EXCEPT ![n] = NULL, ![tail] = n]
  /\ written' = written + 1
  /\ wpc' = "published"
  /\ UNCHANGED <<active, flushing, undo, phase, tail, mtx, fpc, cur, dead,
                 enqueued, released, delivered, crashes>>

\* Mutant of PwriteAdvance: tail_ stays behind.
PwriteStay ==
  /\ WriterAt("published")
  /\ wpc' = "idle"
  /\ UNCHANGED <<heap, phase, tail, mtx, fpc, cur, dead, hist>>

\* tail_ = tail_->next, and pwrite returns 0.
PwriteAdvance ==
  /\ WriterAt("published")
  /\ tail' = next[tail]
  /\ wpc' = "idle"
  /\ UNCHANGED <<heap, phase, mtx, fpc, cur, dead, hist>>

\* The heap has no block for the request: pwrite returns -errno.  How large a
\* block the request needs is abstracted, so any allocation may fail.
PwriteFails == WriterAt("idle") /\ UNCHANGED vars

\* tryEnqueueFlush: take flush_mutex_ ...
EnqueueLock ==
  /\ WriterAt("idle")
  /\ mtx = "free"
  /\ mtx' = "writer"
  /\ wpc' = "locked"
  /\ UNCHANGED <<heap, phase, tail, fpc, cur, dead, hist>>

\* Mutant of EnqueueBusy: the early return keeps flush_mutex_.
EnqueueBusyLocked ==
  /\ WriterAt("locked")
  /\ flushing # NULL
  /\ wpc' = "idle"
  /\ UNCHANGED <<heap, phase, tail, mtx, fpc, cur, dead, hist>>

\* ... return false if the flusher has not finished the previous batch ...
EnqueueBusy ==
  /\ WriterAt("locked")
  /\ flushing # NULL
  /\ mtx' = "free"
  /\ wpc' = "idle"
  /\ UNCHANGED <<heap, phase, tail, fpc, cur, dead, hist>>

\* Mutant of EnqueueMove: the previous batch is not waited for.
EnqueueMoveUnchecked ==
  /\ WriterAt("locked")
  /\ undo' = [undo EXCEPT !.flushing = flushing]
  /\ flushing' = next[active]
  /\ wpc' = "moved"
  /\ UNCHANGED <<active, next, req, allocated, phase, tail, mtx, fpc, cur, dead, hist>>

\* Mutant of EnqueueMove: the store is not logged.
EnqueueMoveUnlogged ==
  /\ WriterAt("locked")
  /\ flushing = NULL
  /\ flushing' = next[active]
  /\ wpc' = "moved"
  /\ UNCHANGED <<active, next, req, allocated, undo, phase, tail, mtx, fpc, cur, dead, hist>>

\* ... or, in a transaction, flushing = active->next ...
EnqueueMove ==
  /\ WriterAt("locked")
  /\ flushing = NULL
  /\ undo' = [undo EXCEPT !.flushing = flushing]
  /\ flushing' = next[active]
  /\ wpc' = "moved"
  /\ UNCHANGED <<active, next, req, allocated, phase, tail, mtx, fpc, cur, dead, hist>>

\* Mutant of EnqueueCut: the store is not logged.
EnqueueCutUnlogged ==
  /\ WriterAt("moved")
  /\ next' = [next EXCEPT ![active] = NULL]
  /\ wpc' = "cut"
  /\ UNCHANGED <<active, flushing, req, allocated, undo, phase, tail, mtx, fpc, cur, dead, hist>>

\* ... and active->next = nullptr ...
EnqueueCut ==
  /\ WriterAt("moved")
  /\ undo' = [undo EXCEPT !.anext = next[active]]
  /\ next' = [next EXCEPT ![active] = NULL]
  /\ wpc' = "cut"
  /\ UNCHANGED <<active, flushing, req, allocated, phase, tail, mtx, fpc, cur, dead, hist>>

\* ... which commits ...
EnqueueCommit ==
  /\ WriterAt("cut")
  /\ undo' = NoUndo
  /\ enqueued' = written
  /\ wpc' = "committed"
  /\ UNCHANGED <<active, flushing, next, req, allocated, phase, tail, mtx, fpc, cur, dead,
                 written, released, delivered, crashes>>

\* Mutant of EnqueueReset: tail_ keeps pointing into the batch.
EnqueueNoReset ==
  /\ WriterAt("committed")
  /\ mtx' = "free"
  /\ wpc' = "idle"
  /\ UNCHANGED <<heap, phase, tail, fpc, cur, dead, hist>>

\* ... after which tail_ is the sentinel again, and it returns true.
EnqueueReset ==
  /\ WriterAt("committed")
  /\ tail' = active
  /\ mtx' = "free"
  /\ wpc' = "idle"
  /\ UNCHANGED <<heap, phase, fpc, cur, dead, hist>>

Writer == \/ \E n \in Nodes : PwriteAlloc(n)
          \/ PwriteAdvance
          \/ PwriteFails
          \/ EnqueueLock
          \/ EnqueueBusy
          \/ EnqueueMove
          \/ EnqueueCut
          \/ EnqueueCommit
          \/ EnqueueReset
-----------------------------------------------------------------------------
(* Flusher::flushAll *)

FlusherAt(l) == phase = "running" /\ fpc = l

FlushLock ==
  /\ FlusherAt("idle")
  /\ mtx = "free"
  /\ mtx' = "flusher"
  /\ cur' = flushing
  /\ fpc' = "scan"
  /\ UNCHANGED <<heap, phase, tail, wpc, dead, hist>>

\* The callback accepts the node.
FlushAccept ==
  /\ FlusherAt("scan")
  /\ cur # NULL
  /\ delivered' = delivered \cup {req[cur]}
  /\ cur' = next[cur]
  /\ UNCHANGED <<heap, phase, tail, mtx, wpc, fpc, dead, written, enqueued, released, crashes>>

\* Mutant of FlushStop: giving up drops the batch.
FlushStopAndDrop ==
  /\ FlusherAt("scan")
  /\ cur # NULL
  /\ CallbackMayStop
  /\ cur' = flushing
  /\ fpc' = "delete"
  /\ UNCHANGED <<heap, phase, tail, mtx, wpc, dead, hist>>

\* The callback returns true, or throws: flushAll ends and leaves the batch.
FlushStop ==
  /\ FlusherAt("scan")
  /\ cur # NULL
  /\ CallbackMayStop
  /\ cur' = NULL
  /\ mtx' = "free"
  /\ fpc' = "idle"
  /\ UNCHANGED <<heap, phase, tail, wpc, dead, hist>>

\* Every node was accepted: begin the transaction that frees them.
FlushScanned ==
  /\ FlusherAt("scan")
  /\ cur = NULL
  /\ cur' = flushing
  /\ fpc' = "delete"
  /\ UNCHANGED <<heap, phase, tail, mtx, wpc, dead, hist>>

\* delete_persistent inside a transaction takes effect when it commits.
FlushDelete ==
  /\ FlusherAt("delete")
  /\ cur # NULL
  /\ dead' = dead \cup {cur}
  /\ cur' = next[cur]
  /\ UNCHANGED <<heap, phase, tail, mtx, wpc, fpc, hist>>

\* Mutant of FlushClear: the freed batch stays published.
FlushNoClear ==
  /\ FlusherAt("delete")
  /\ cur = NULL
  /\ fpc' = "cleared"
  /\ UNCHANGED <<heap, phase, tail, mtx, wpc, cur, dead, hist>>

FlushClear ==
  /\ FlusherAt("delete")
  /\ cur = NULL
  /\ undo' = [undo EXCEPT !.flushing = flushing]
  /\ flushing' = NULL
  /\ fpc' = "cleared"
  /\ UNCHANGED <<active, next, req, allocated, phase, tail, mtx, wpc, cur, dead, hist>>

FlushCommit ==
  /\ FlusherAt("cleared")
  /\ undo' = NoUndo
  /\ allocated' = allocated \ dead
  /\ dead' = {}
  /\ released' = enqueued
  /\ mtx' = "free"
  /\ fpc' = "idle"
  /\ UNCHANGED <<active, flushing, next, req, phase, tail, wpc, cur,
                 written, enqueued, delivered, crashes>>

Flusher == \/ FlushLock
           \/ FlushAccept
           \/ FlushStop
           \/ FlushScanned
           \/ FlushDelete
           \/ FlushClear
           \/ FlushCommit
-----------------------------------------------------------------------------
(* The end of the process: everything volatile is gone. *)

ProcessEnds == /\ phase' = "down"
               /\ tail' = NULL /\ mtx' = "free"
               /\ wpc' = "idle" /\ fpc' = "idle" /\ cur' = NULL /\ dead' = {}

\* Both threads have been joined and main() closes the pool.
Close == /\ WriterAt("idle") /\ FlusherAt("idle")
         /\ ProcessEnds
         /\ UNCHANGED <<heap, hist>>

\* Power failure, kill, or an exception that leaves a thread.
Crash == /\ phase # "down"
         /\ crashes < MaxCrashes
         /\ crashes' = crashes + 1
         /\ ProcessEnds
         /\ UNCHANGED <<heap, written, enqueued, released, delivered>>

Next == Setup \/ Writer \/ Flusher \/ Close \/ Crash

Spec == Init /\ [][Next]_vars
-----------------------------------------------------------------------------
(* The durable view: the lists a restart at this moment would find.        *)

DurableFlushing == IF undo.flushing = NoEntry THEN flushing ELSE undo.flushing
DurableNext(n)  == IF n = active /\ undo.anext # NoEntry THEN undo.anext ELSE next[n]

\* The nodes that hold a write: all but the sentinel.
Held == allocated \ {active}

\* n can be reached from p along next pointers: it is in every set that
\* contains p and is closed under them.
Reaches(p, n) ==
  /\ p # NULL
  /\ \A S \in SUBSET Nodes :
       (p \in S /\ \A m \in S : DurableNext(m) \in S \cup {NULL}) => n \in S

(* No write is lost, whatever the threads do and wherever the process      *)
(* dies: a write that was published has been accepted by the flush         *)
(* callback, or is on one of the two lists that a restart will find.       *)
(* (tryPwrite, tryEnqueueFlush, flushAll, runtimeInitialize)               *)
NoWriteLost ==
  \A i \in 1 .. written :
    \/ i \in delivered
    \/ \E n \in Held : /\ req[n] = i
                       /\ Reaches(active, n) \/ Reaches(DurableFlushing, n)

(* No persistent leak: every allocated node is on exactly one of the two   *)
(* lists (the two lists never share a node, so none is freed while the     *)
(* writer can still reach it).                                             *)
NoLeak == \A n \in allocated : Reaches(active, n) # Reaches(DurableFlushing, n)

(* When the writer may start an operation, tail_ is the last node of the   *)
(* active list: pwrite never overwrites a link and never appends to a      *)
(* batch that was handed over (tryPwrite, line 113).                       *)
TailIsLast ==
  WriterAt("idle") => /\ tail \in allocated
                      /\ next[tail] = NULL
                      /\ Reaches(active, tail)

(* No use after free: the node each thread is about to dereference is      *)
(* allocated and not already in the transaction's free list.               *)
NoDanglingRead == /\ fpc \in {"scan", "delete"} /\ cur # NULL => cur \in Held \ dead
                  /\ phase \in {"walk", "running"} => tail \in allocated

(* Delivery is in order and without gaps: when a write is offered to the   *)
(* callback, every earlier write has been accepted (flushAll, 162-169).    *)
DeliveredInOrder ==
  FlusherAt("scan") /\ cur # NULL => \A i \in 1 .. req[cur] - 1 : i \in delivered

(* A node is freed only after the callback has accepted its write, and     *)
(* then every node of its batch goes with it (flushAll, 175-184).          *)
FreedAfterAccepted ==
  [][\A n \in allocated \ allocated' : req[n] \in delivered /\ flushing' = NULL]_vars

-----------------------------------------------------------------------------
(* The inductive invariant behind the properties above.  The numbers of    *)
(* the writes make it local: a link is right when it leads to the node of  *)
(* the next write, so no part of it speaks of reachability.                *)

\* p is the node of write i, or null if i is past the list's last write.
Links(p, i, last) == IF i <= last THEN p \in Held /\ req[p] = i ELSE p = NULL

NumbersInv ==
  /\ released <= enqueued /\ enqueued <= written
  /\ \A n \in Held : req[n] \in released + 1 .. written
  /\ \A m, n \in Held : req[m] = req[n] => m = n
  /\ \A i \in released + 1 .. written : \E n \in Held : req[n] = i

ListInv ==
  /\ active = NULL => allocated = {} /\ written = 0
  /\ active # NULL => /\ active \in allocated
                      /\ Links(DurableNext(active), enqueued + 1, written)
  /\ Links(DurableFlushing, released + 1, enqueued)
  /\ \A n \in Held :
       Links(DurableNext(n), req[n] + 1, IF req[n] <= enqueued THEN enqueued ELSE written)

\* What the undo log holds, and what the open transaction has stored.
UndoInv ==
  /\ undo.anext # NoEntry => active # NULL
  /\ phase \in {"opened", "walk"} => undo = NoUndo
  /\ phase = "running" =>
       /\ wpc \notin {"moved", "cut"} /\ fpc # "cleared" => undo = NoUndo
       /\ wpc = "moved" => /\ undo.flushing = NULL /\ undo.anext = NoEntry
                           /\ flushing = next[active]
       /\ wpc = "cut" => /\ undo.flushing = NULL /\ undo.anext = flushing
                         /\ next[active] = NULL
       /\ fpc = "cleared" => /\ undo.flushing # NoEntry /\ undo.anext = NoEntry
                             /\ flushing = NULL

LocalInv ==
  /\ phase \in {"walk", "running"} => active # NULL
  /\ phase # "running" => wpc = "idle" /\ fpc = "idle" /\ mtx = "free"
  /\ wpc \in WriterHolds <=> mtx = "writer"
  /\ fpc \in FlusherHolds <=> mtx = "flusher"

\* tail_ is the node of write i, or the sentinel if that is not active.
TailAt(i) == IF i > enqueued THEN tail \in Held /\ req[tail] = i ELSE tail = active

TailInv ==
  /\ phase = "walk" => tail = active \/ (tail \in Held /\ req[tail] > enqueued)
  /\ WriterAt("idle") \/ WriterAt("locked") \/ WriterAt("moved") \/ WriterAt("cut")
       => TailAt(written)
  /\ WriterAt("published") => written > enqueued /\ TailAt(written - 1)
  /\ WriterAt("committed") => tail \in allocated /\ written = enqueued

\* The number of the write flushAll has got to.
Position == IF cur = NULL THEN enqueued + 1 ELSE req[cur]

FlushInv ==
  /\ 1 .. released \subseteq delivered
  /\ cur # NULL => fpc \in {"scan", "delete"} /\ cur \in Held /\ req[cur] <= enqueued
  /\ fpc = "scan" => 1 .. Position - 1 \subseteq delivered
  /\ fpc \in {"delete", "cleared"} => 1 .. enqueued \subseteq delivered
  /\ dead = IF fpc \in {"delete", "cleared"} THEN {n \in Held : req[n] < Position} ELSE {}

\* The state of the burst buffer is consistent at every step of every thread.
IndInv == /\ TypeOK /\ NumbersInv /\ ListInv /\ UndoInv
          /\ LocalInv /\ TailInv /\ FlushInv
-----------------------------------------------------------------------------
(* The persistent lists, crashes and roll-backs included, behave as the    *)
(* durable queue of module DurableQueue.                                   *)
\* Where a walk from p along the durable links stands after k of them.  No list is longer
\* than the number of writes made.
Walk(p) ==
  LET at[k \in 0 .. written] ==
        IF k = 0 THEN p ELSE IF at[k - 1] = NULL THEN NULL ELSE DurableNext(at[k - 1])
  IN  at

\* The writes on the list that begins at p.
Listed(p) ==
  LET at     == Walk(p)
      length == Cardinality({k \in 0 .. written - 1 : at[k] # NULL})
  IN  [k \in 1 .. length |-> req[at[k - 1]]]

Promise == INSTANCE DurableQueue WITH
  issued  <- written,
  pending <- IF active = NULL THEN <<>> ELSE Listed(DurableNext(active)),
  batch   <- Listed(DurableFlushing),
  seen    <- CASE fpc = "idle" -> 0
               [] fpc = "scan" -> Len(Listed(DurableFlushing)) - Len(Listed(cur))
               [] OTHER        -> Len(Listed(DurableFlushing))
ImplementsDurableQueue == Promise!Spec
=============================================================================
