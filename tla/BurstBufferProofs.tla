-------------------------- MODULE BurstBufferProofs --------------------------
(***************************************************************************)
(* Proofs about the burst buffer of pmembb_list, for every heap size,      *)
(* every number of writes and every number of crashes.                     *)
(***************************************************************************)
EXTENDS BurstBuffer, FiniteSetTheorems, WellFoundedInduction, TLAPS

(* The durable view decides NumbersInv and ListInv: a step that leaves it  *)
(* and the history alone preserves them.  This is what makes the stores    *)
(* inside a transaction, the roll-back and a crash harmless.               *)
LEMMA DurableFrame ==
  ASSUME TypeOK, NumbersInv, ListInv,
         active' = active, allocated' = allocated, req' = req,
         written' = written, enqueued' = enqueued, released' = released,
         DurableFlushing' = DurableFlushing,
         \A n \in Nodes : DurableNext(n)' = DurableNext(n)
  PROVE  NumbersInv' /\ ListInv'
<1>1. Held' = Held
  BY DEF Held
<1>2. NumbersInv'
  BY <1>1 DEF NumbersInv
<1>3. active # NULL => active \in Nodes
  BY DEF TypeOK, NodeOrNull
<1>4. \A n \in Held : n \in Nodes
  BY DEF TypeOK, Held
<1>5. \A p, i, last : Links(p, i, last)' <=> Links(p, i, last)
  BY <1>1 DEF Links
<1>6. ListInv'
  BY <1>1, <1>3, <1>4, <1>5 DEF ListInv
<1> QED
  BY <1>2, <1>6

(* Where the pointers lead, in the terms the steps below need: the writer  *)
(* and the walk hold an allocated tail_, and outside a transaction of the  *)
(* writer the durable links are the links in memory.                       *)
LEMMA Pointers ==
  ASSUME IndInv
  PROVE  /\ Held \subseteq Nodes /\ NULL \notin Held /\ active \notin Held
         /\ active # NULL => active \in Nodes /\ active \in allocated
         /\ phase \in {"walk", "running"} =>
              active # NULL /\ tail \in Nodes /\ tail \in allocated
         /\ \A n \in Held : DurableNext(n) = next[n]
         /\ undo.anext = NoEntry => DurableNext(active) = next[active]
         /\ undo.flushing = NoEntry => DurableFlushing = flushing
         /\ phase = "running" /\ wpc # "cut" => undo.anext = NoEntry
         /\ phase = "running" /\ wpc \notin {"moved", "cut"} /\ fpc # "cleared"
              => undo.flushing = NoEntry
<1> USE NodesAssumption
<1>0. TypeOK /\ ListInv /\ UndoInv /\ LocalInv /\ TailInv /\ NumbersInv
  BY DEF IndInv
<1>1. /\ Held \subseteq Nodes /\ NULL \notin Held /\ active \notin Held
      /\ active # NULL => active \in Nodes /\ active \in allocated
  BY <1>0 DEF TypeOK, Held, ListInv, NodeOrNull
<1>2. /\ \A n \in Held : DurableNext(n) = next[n]
      /\ undo.anext = NoEntry => DurableNext(active) = next[active]
      /\ undo.flushing = NoEntry => DurableFlushing = flushing
  BY <1>1 DEF DurableNext, DurableFlushing
<1>3. phase \in {"walk", "running"} => active # NULL
  BY <1>0 DEF LocalInv
<1>4. phase \in {"walk", "running"} => tail = active \/ tail \in allocated
  BY <1>0, <1>1 DEF TailInv, TailAt, TypeOK, WriterAt, WriterHolds, Held
<1>5. /\ phase = "running" /\ wpc # "cut" => undo.anext = NoEntry
      /\ phase = "running" /\ wpc \notin {"moved", "cut"} /\ fpc # "cleared"
           => undo.flushing = NoEntry
  BY <1>0 DEF UndoInv, LocalInv, NoUndo, WriterHolds, FlusherHolds, TypeOK
<1>6. phase \in {"walk", "running"} => tail \in Nodes /\ tail \in allocated
  BY <1>0, <1>1, <1>3, <1>4 DEF TypeOK
<1> QED
  BY <1>1, <1>2, <1>3, <1>5, <1>6

(* Opening the pool and finding the tail preserve the invariant.           *)
LEMMA SetupStep ==
  ASSUME IndInv, Setup
  PROVE  IndInv'
<1> USE NodesAssumption DEF NodeOrNull, LogEntry, NoUndo, WriterHolds, FlusherHolds,
        heap, hist, WriterAt, FlusherAt
<1>0. /\ TypeOK /\ NumbersInv /\ ListInv /\ UndoInv
      /\ LocalInv /\ TailInv /\ FlushInv
  BY DEF IndInv
<1>1. CASE Open
  <2>1. TypeOK'
    <3>1. flushing' \in NodeOrNull
      BY <1>0, <1>1 DEF TypeOK, Open
    <3>2. next' \in [Nodes -> NodeOrNull]
      <4>1. undo.anext # NoEntry => undo.anext \in NodeOrNull
        BY <1>0 DEF TypeOK
      <4>2. next' = next \/ next' = [next EXCEPT ![active] = undo.anext]
        BY <1>1 DEF Open
      <4> QED
        BY <1>0, <1>1, <4>1, <4>2 DEF TypeOK, Open
    <3>3. undo' = NoUndo /\ phase' = "opened"
      BY <1>1 DEF Open
    <3>4. undo' \in [flushing : LogEntry, anext : LogEntry]
      BY <3>3
    <3>5. UNCHANGED <<active, req, allocated, tail, mtx, wpc, fpc, cur, dead, hist>>
      BY <1>1 DEF Open
    <3> QED
      BY <1>0, <3>1, <3>2, <3>3, <3>4, <3>5 DEF TypeOK
  <2>2. NumbersInv' /\ ListInv'
    <3>1. /\ DurableFlushing' = DurableFlushing
          /\ \A m \in Nodes : DurableNext(m)' = DurableNext(m)
      <4>1. DurableFlushing' = DurableFlushing
        BY <1>1 DEF DurableFlushing, Open
      <4>2. undo'.anext = NoEntry /\ active' = active
        BY <1>1 DEF Open
      <4>3. ASSUME NEW m \in Nodes
            PROVE  DurableNext(m)' = DurableNext(m)
        BY <1>0, <1>1, <4>2 DEF DurableNext, Open, TypeOK
      <4> QED
        BY <4>1, <4>3
    <3> QED
      BY <1>0, <1>1, <3>1, DurableFrame DEF Open
  <2>3. UndoInv'
    BY <1>0, <1>1 DEF UndoInv, LocalInv, Open
  <2>4. LocalInv'
    BY <1>0, <1>1 DEF LocalInv, Open
  <2>5. TailInv'
    BY <1>0, <1>1 DEF TailInv, TailAt, LocalInv, Held, Open
  <2>6. FlushInv'
    BY <1>0, <1>1 DEF FlushInv, Position, LocalInv, Held, Open
  <2> QED
    BY <2>1, <2>2, <2>3, <2>4, <2>5, <2>6 DEF IndInv
<1>2. ASSUME NEW n \in Nodes, CreateSentinel(n)
      PROVE  IndInv'
  <2>1. TypeOK'
    BY <1>0, <1>2 DEF TypeOK, CreateSentinel, Construct
  <2>2. NumbersInv' /\ ListInv'
    <3>1. allocated = {} /\ written = 0 /\ enqueued = 0 /\ released = 0
      BY <1>0, <1>2 DEF ListInv, NumbersInv, CreateSentinel, TypeOK
    <3>2. Held' = {}
      BY <1>2, <3>1 DEF Held, CreateSentinel, Construct
    <3>3. DurableFlushing' = NULL
      BY <1>0, <1>2, <3>1 DEF ListInv, Links, DurableFlushing, CreateSentinel
    <3>4. DurableNext(n)' = NULL
      BY <1>0, <1>2 DEF DurableNext, UndoInv, CreateSentinel, TypeOK
    <3>5. active' = n /\ n # NULL /\ n \in allocated'
      BY <1>2 DEF CreateSentinel, Construct
    <3> QED
      BY <1>2, <3>1, <3>2, <3>3, <3>4, <3>5 DEF NumbersInv, ListInv, Links, CreateSentinel
  <2>3. UndoInv'
    BY <1>0, <1>2 DEF UndoInv, LocalInv, CreateSentinel, Construct
  <2>4. LocalInv'
    BY <1>0, <1>2 DEF LocalInv, CreateSentinel, Construct
  <2>5. TailInv'
    BY <1>0, <1>2 DEF TailInv, LocalInv, CreateSentinel
  <2>6. FlushInv'
    BY <1>0, <1>2 DEF FlushInv, Position, LocalInv, Held, CreateSentinel, Construct
  <2> QED
    BY <2>1, <2>2, <2>3, <2>4, <2>5, <2>6 DEF IndInv
<1>3. CASE SentinelFails
  <2>1. TypeOK'
    BY <1>0, <1>3 DEF TypeOK, SentinelFails
  <2>2. NumbersInv' /\ ListInv'
    <3>1. /\ DurableFlushing' = DurableFlushing
          /\ \A m \in Nodes : DurableNext(m)' = DurableNext(m)
      BY <1>0, <1>3 DEF DurableFlushing, DurableNext, SentinelFails
    <3> QED
      BY <1>0, <1>3, <3>1, DurableFrame DEF SentinelFails
  <2>3. UndoInv'
    BY <1>0, <1>3 DEF UndoInv, LocalInv, SentinelFails
  <2>4. LocalInv'
    BY <1>0, <1>3 DEF LocalInv, SentinelFails
  <2>5. TailInv'
    BY <1>0, <1>3 DEF TailInv, TailAt, LocalInv, Held, SentinelFails
  <2>6. FlushInv'
    BY <1>0, <1>3 DEF FlushInv, Position, LocalInv, Held, SentinelFails
  <2> QED
    BY <2>1, <2>2, <2>3, <2>4, <2>5, <2>6 DEF IndInv
<1>4. CASE FindSentinel
  <2>1. TypeOK'
    BY <1>0, <1>4 DEF TypeOK, FindSentinel
  <2>2. NumbersInv' /\ ListInv'
    <3>1. /\ DurableFlushing' = DurableFlushing
          /\ \A m \in Nodes : DurableNext(m)' = DurableNext(m)
      BY <1>0, <1>4 DEF DurableFlushing, DurableNext, FindSentinel
    <3> QED
      BY <1>0, <1>4, <3>1, DurableFrame DEF FindSentinel
  <2>3. UndoInv'
    BY <1>0, <1>4 DEF UndoInv, LocalInv, FindSentinel
  <2>4. LocalInv'
    BY <1>0, <1>4 DEF LocalInv, FindSentinel
  <2>5. TailInv'
    BY <1>0, <1>4 DEF TailInv, TailAt, LocalInv, Held, FindSentinel
  <2>6. FlushInv'
    BY <1>0, <1>4 DEF FlushInv, Position, LocalInv, Held, FindSentinel
  <2> QED
    BY <2>1, <2>2, <2>3, <2>4, <2>5, <2>6 DEF IndInv
<1>5. CASE WalkTail
  <2>0. /\ tail = active => Links(next[tail], enqueued + 1, written)
        /\ tail # active => /\ tail \in Held /\ req[tail] > enqueued
                            /\ Links(next[tail], req[tail] + 1, written)
    <3>1. undo = NoUndo /\ phase = "walk"
      BY <1>0, <1>5 DEF UndoInv, WalkTail
    <3>2. tail = active \/ (tail \in Held /\ req[tail] > enqueued)
      BY <1>0, <3>1 DEF TailInv
    <3>3. active # NULL /\ DurableNext(active) = next[active]
          /\ \A m \in Held : DurableNext(m) = next[m]
      BY <3>1, Pointers
    <3>4. \A m \in Held : m \in Nodes /\ m # active /\ req[m] \in Nat
      BY <1>0, Pointers DEF TypeOK
    <3> QED
      BY <1>0, <3>2, <3>3, <3>4 DEF ListInv, TypeOK
  <2>1. TypeOK'
    BY <1>0, <1>5, Pointers DEF TypeOK, WalkTail
  <2>2. NumbersInv' /\ ListInv'
    <3>1. /\ DurableFlushing' = DurableFlushing
          /\ \A m \in Nodes : DurableNext(m)' = DurableNext(m)
      BY <1>0, <1>5 DEF DurableFlushing, DurableNext, WalkTail
    <3> QED
      BY <1>0, <1>5, <3>1, DurableFrame DEF WalkTail
  <2>3. UndoInv'
    BY <1>0, <1>5 DEF UndoInv, LocalInv, WalkTail
  <2>4. LocalInv'
    BY <1>0, <1>5 DEF LocalInv, WalkTail
  <2>5. TailInv'
    <3>1. Held' = Held /\ req' = req /\ enqueued' = enqueued /\ written' = written
          /\ active' = active /\ wpc' = "idle"
      BY <1>0, <1>5 DEF Held, WalkTail, LocalInv
    <3>2. CASE next[tail] # NULL
      <4>1. tail' \in Held /\ req[tail'] > enqueued
        <5>1. tail' = next[tail]
          BY <1>5, <3>2 DEF WalkTail
        <5>2. next[tail] \in Held /\ (tail = active => req[next[tail]] = enqueued + 1)
              /\ (tail # active => req[next[tail]] = req[tail] + 1)
          BY <2>0, <3>2 DEF Links
        <5>3. enqueued \in Nat /\ (tail # active => req[tail] \in Nat)
          BY <1>0, <2>0, Pointers DEF TypeOK
        <5> QED
          BY <2>0, <5>1, <5>2, <5>3
      <4> QED
        BY <1>5, <3>1, <3>2, <4>1 DEF TailInv, WalkTail
    <3>3. CASE next[tail] = NULL
      <4>1. IF written > enqueued THEN tail \in Held /\ req[tail] = written ELSE tail = active
        BY <1>0, <2>0, <3>3, Pointers DEF Links, NumbersInv, TypeOK
      <4> QED
        BY <1>5, <3>1, <3>3, <4>1 DEF TailInv, TailAt, WalkTail
    <3> QED
      BY <3>2, <3>3
  <2>6. FlushInv'
    BY <1>0, <1>5 DEF FlushInv, Position, LocalInv, Held, WalkTail
  <2> QED
    BY <2>1, <2>2, <2>3, <2>4, <2>5, <2>6 DEF IndInv
<1> QED
  BY <1>1, <1>2, <1>3, <1>4, <1>5 DEF Setup

(* pwrite and tryEnqueueFlush preserve the invariant.                      *)
LEMMA WriterStep ==
  ASSUME IndInv, Writer
  PROVE  IndInv'
<1> USE NodesAssumption DEF NodeOrNull, LogEntry, NoUndo, WriterHolds, FlusherHolds,
        heap, hist, WriterAt, FlusherAt
<1>0. /\ TypeOK /\ NumbersInv /\ ListInv /\ UndoInv
      /\ LocalInv /\ TailInv /\ FlushInv
  BY DEF IndInv
<1>1. ASSUME NEW n \in Nodes, PwriteAlloc(n)
      PROVE  IndInv'
  <2>a. /\ phase = "running" /\ wpc = "idle" /\ n \notin allocated
        /\ allocated' = allocated \cup {n} /\ req' = [req EXCEPT ![n] = written + 1]
        /\ next' = [next EXCEPT ![n] = NULL, ![tail] = n]
        /\ written' = written + 1 /\ enqueued' = enqueued /\ released' = released
        /\ active' = active /\ undo' = undo /\ flushing' = flushing
    BY <1>1 DEF PwriteAlloc, Construct
  <2>b. /\ active \in Nodes /\ active \in allocated /\ tail \in Nodes /\ tail \in allocated
        /\ undo.anext = NoEntry /\ Held \subseteq Nodes /\ NULL \notin Held
        /\ active \notin Held /\ active # NULL
    BY <2>a, Pointers
  <2>c. Held' = Held \cup {n} /\ n \notin Held
    BY <2>a, <2>b DEF Held
  <2>d. /\ next' \in [Nodes -> NodeOrNull] /\ next'[tail] = n /\ next'[n] = NULL
        /\ \A m \in Nodes \ {n, tail} : next'[m] = next[m]
    BY <1>0, <2>a, <2>b DEF TypeOK
  <2>e. /\ req' \in [Nodes -> Nat] /\ req'[n] = written + 1
        /\ \A m \in Held : req'[m] = req[m]
    BY <1>0, <2>a, <2>b, <2>c DEF TypeOK
  <2>f. /\ DurableFlushing' = DurableFlushing
        /\ \A m \in Nodes : DurableNext(m) = next[m] /\ DurableNext(m)' = next'[m]
    BY <2>a, <2>b DEF DurableFlushing, DurableNext
  <2>g. released \in Nat /\ enqueued \in Nat /\ written \in Nat
        /\ released <= enqueued /\ enqueued <= written
    BY <1>0 DEF TypeOK, NumbersInv
  <2>h. TailAt(written)
    BY <1>0, <2>a DEF TailInv
  <2>1. TypeOK'
    BY <1>0, <1>1, <2>d, <2>e, <2>g DEF TypeOK, PwriteAlloc, Construct
  <2>2. NumbersInv' /\ ListInv'
    <3>1. NumbersInv'
      <4>1. \A m \in Held' : req'[m] \in released' + 1 .. written'
        BY <1>0, <2>a, <2>c, <2>e, <2>g DEF NumbersInv
      <4>2. \A l, m \in Held' : req'[l] = req'[m] => l = m
        BY <1>0, <2>c, <2>e, <2>g DEF NumbersInv
      <4>3. ASSUME NEW i \in released' + 1 .. written'
            PROVE  \E m \in Held' : req'[m] = i
        <5>1. CASE i = written + 1
          BY <2>c, <2>e, <5>1
        <5>2. CASE i # written + 1
          <6>1. i \in released + 1 .. written
            BY <2>a, <2>g, <5>2
          <6>2. PICK m \in Held : req[m] = i
            BY <1>0, <6>1 DEF NumbersInv
          <6> QED
            BY <2>c, <2>e, <6>2
        <5> QED
          BY <5>1, <5>2
      <4> QED
        BY <2>a, <2>g, <4>1, <4>2, <4>3 DEF NumbersInv
    <3>3. Links(DurableNext(active), enqueued + 1, written)'
      <4>1. CASE written > enqueued
        <5>1. tail \in Held /\ tail # active
          BY <2>b, <2>h, <4>1 DEF TailAt
        <5>2. DurableNext(active)' = DurableNext(active)
          BY <2>a, <2>b, <2>d, <2>f, <5>1
        <5>3. DurableNext(active) \in Held /\ req[DurableNext(active)] = enqueued + 1
          BY <1>0, <2>b, <2>g, <4>1 DEF ListInv, Links
        <5> QED
          BY <2>a, <2>c, <2>e, <2>g, <5>2, <5>3 DEF Links
      <4>2. CASE written = enqueued
        <5>1. DurableNext(active)' = n
          BY <2>a, <2>b, <2>d, <2>f, <2>g, <2>h, <4>2 DEF TailAt
        <5> QED
          BY <2>a, <2>c, <2>e, <2>g, <4>2, <5>1 DEF Links
      <4> QED
        BY <2>g, <4>1, <4>2
    <3>4. Links(DurableFlushing, released + 1, enqueued)'
      BY <1>0, <2>a, <2>c, <2>e, <2>f DEF ListInv, Links
    <3>5. ASSUME NEW m \in Held'
          PROVE  Links(DurableNext(m), req[m] + 1,
                       IF req[m] <= enqueued THEN enqueued ELSE written)'
      <4>1. CASE m = n
        <5>1. DurableNext(m)' = NULL /\ req'[m] = written + 1
          BY <2>b, <2>d, <2>e, <2>f, <4>1
        <5> QED
          BY <2>a, <2>g, <5>1 DEF Links
      <4>2. CASE m # n /\ m = tail
        <5>1. m \in Held /\ written > enqueued /\ req[m] = written
          BY <2>b, <2>c, <2>h, <4>2 DEF TailAt
        <5>2. DurableNext(m)' = n /\ req'[m] = written
          BY <2>b, <2>d, <2>e, <2>f, <4>2, <5>1
        <5> QED
          BY <2>a, <2>c, <2>e, <2>g, <5>1, <5>2 DEF Links
      <4>3. CASE m # n /\ m # tail
        <5>1. m \in Held /\ m \in Nodes /\ req'[m] = req[m] /\ req[m] \in Nat
          BY <1>0, <2>b, <2>c, <2>e, <4>3 DEF TypeOK
        <5>2. DurableNext(m)' = DurableNext(m)
          BY <2>d, <2>f, <4>3, <5>1
        <5>3. Links(DurableNext(m), req[m] + 1, IF req[m] <= enqueued THEN enqueued ELSE written)
          BY <1>0, <5>1 DEF ListInv
        <5>4. req[m] > enqueued => req[m] < written
          BY <1>0, <2>g, <2>h, <4>3, <5>1 DEF TailAt, NumbersInv
        <5> QED
          BY <2>a, <2>c, <2>e, <2>g, <5>1, <5>2, <5>3, <5>4 DEF Links
      <4> QED
        BY <4>1, <4>2, <4>3
    <3> QED
      BY <2>a, <2>b, <3>1, <3>3, <3>4, <3>5 DEF ListInv
  <2>3. UndoInv'
    BY <1>0, <1>1 DEF UndoInv, LocalInv, PwriteAlloc, Construct
  <2>4. LocalInv'
    BY <1>0, <1>1 DEF LocalInv, PwriteAlloc, Construct
  <2>5. TailInv'
    <3>1. wpc' = "published" /\ phase' = "running" /\ tail' = tail
      BY <1>1 DEF PwriteAlloc
    <3>2. TailAt(written - 1)'
      BY <2>a, <2>c, <2>e, <2>g, <2>h, <3>1 DEF TailAt
    <3> QED
      BY <2>a, <2>g, <3>1, <3>2 DEF TailInv
  <2>6. FlushInv'
    <3>1. cur' = cur /\ fpc' = fpc /\ dead' = dead /\ delivered' = delivered
      BY <1>1 DEF PwriteAlloc
    <3>2. cur # NULL => cur \in Held' /\ req'[cur] = req[cur]
      BY <1>0, <2>c, <2>e DEF FlushInv
    <3>3. Position' = Position /\ Position <= enqueued + 1
      BY <1>0, <2>a, <2>b, <2>e, <2>g, <3>1, <3>2 DEF Position, FlushInv, TypeOK
    <3>4. {m \in Held' : req'[m] < Position'} = {m \in Held : req[m] < Position}
      BY <1>0, <2>c, <2>e, <2>g, <3>3 DEF Position, FlushInv, TypeOK
    <3> QED
      BY <1>0, <2>a, <3>1, <3>2, <3>3, <3>4 DEF FlushInv
  <2> QED
    BY <2>1, <2>2, <2>3, <2>4, <2>5, <2>6 DEF IndInv
<1>2. CASE PwriteAdvance
  <2>0. tail' = next[tail] /\ next[tail] \in Held /\ req[next[tail]] = written
    <3>1. phase = "running" /\ wpc = "published" /\ tail' = next[tail]
      BY <1>2 DEF PwriteAdvance
    <3>2. written > enqueued /\ TailAt(written - 1)
      BY <1>0, <3>1 DEF TailInv
    <3>3. DurableNext(active) = next[active] /\ active # NULL
          /\ \A m \in Held : DurableNext(m) = next[m]
      BY <3>1, Pointers
    <3>4. CASE written - 1 > enqueued
      <4>1. tail \in Held /\ req[tail] = written - 1
        BY <3>2, <3>4 DEF TailAt
      <4>2. Links(next[tail], written, written)
        BY <1>0, <3>3, <3>4, <4>1 DEF ListInv, TypeOK
      <4> QED
        BY <1>0, <3>1, <4>2 DEF Links, TypeOK
    <3>5. CASE ~(written - 1 > enqueued)
      <4>1. tail = active /\ written = enqueued + 1
        BY <1>0, <3>2, <3>5 DEF TailAt, TypeOK
      <4> QED
        BY <1>0, <3>1, <3>3, <4>1 DEF ListInv, Links, TypeOK
    <3> QED
      BY <3>4, <3>5
  <2>1. TypeOK'
    BY <1>0, <1>2, <2>0, Pointers DEF TypeOK, PwriteAdvance
  <2>2. NumbersInv' /\ ListInv'
    <3>1. /\ DurableFlushing' = DurableFlushing
          /\ \A m \in Nodes : DurableNext(m)' = DurableNext(m)
      BY <1>0, <1>2 DEF DurableFlushing, DurableNext, PwriteAdvance
    <3> QED
      BY <1>0, <1>2, <3>1, DurableFrame DEF PwriteAdvance
  <2>3. UndoInv'
    BY <1>0, <1>2 DEF UndoInv, LocalInv, PwriteAdvance
  <2>4. LocalInv'
    BY <1>0, <1>2 DEF LocalInv, PwriteAdvance
  <2>5. TailInv'
    BY <1>0, <1>2, <2>0, Pointers DEF TailInv, TailAt, Held, NumbersInv, TypeOK, PwriteAdvance
  <2>6. FlushInv'
    BY <1>0, <1>2 DEF FlushInv, Position, LocalInv, Held, PwriteAdvance
  <2> QED
    BY <2>1, <2>2, <2>3, <2>4, <2>5, <2>6 DEF IndInv
<1>3. CASE PwriteFails
  <2>1. TypeOK'
    BY <1>0, <1>3 DEF TypeOK, PwriteFails, vars, local
  <2>2. NumbersInv' /\ ListInv'
    <3>1. /\ DurableFlushing' = DurableFlushing
          /\ \A m \in Nodes : DurableNext(m)' = DurableNext(m)
      BY <1>0, <1>3 DEF DurableFlushing, DurableNext, PwriteFails, vars, local
    <3> QED
      BY <1>0, <1>3, <3>1, DurableFrame DEF PwriteFails, vars, local
  <2>3. UndoInv'
    BY <1>0, <1>3 DEF UndoInv, LocalInv, PwriteFails, vars, local
  <2>4. LocalInv'
    BY <1>0, <1>3 DEF LocalInv, PwriteFails, vars, local
  <2>5. TailInv'
    BY <1>0, <1>3 DEF TailInv, TailAt, LocalInv, Held, PwriteFails, vars, local
  <2>6. FlushInv'
    BY <1>0, <1>3 DEF FlushInv, Position, LocalInv, Held, PwriteFails, vars, local
  <2> QED
    BY <2>1, <2>2, <2>3, <2>4, <2>5, <2>6 DEF IndInv
<1>4. CASE EnqueueLock
  <2>1. TypeOK'
    BY <1>0, <1>4 DEF TypeOK, EnqueueLock
  <2>2. NumbersInv' /\ ListInv'
    <3>1. /\ DurableFlushing' = DurableFlushing
          /\ \A m \in Nodes : DurableNext(m)' = DurableNext(m)
      BY <1>0, <1>4 DEF DurableFlushing, DurableNext, EnqueueLock
    <3> QED
      BY <1>0, <1>4, <3>1, DurableFrame DEF EnqueueLock
  <2>3. UndoInv'
    BY <1>0, <1>4 DEF UndoInv, LocalInv, EnqueueLock
  <2>4. LocalInv'
    BY <1>0, <1>4 DEF LocalInv, EnqueueLock
  <2>5. TailInv'
    BY <1>0, <1>4 DEF TailInv, TailAt, LocalInv, Held, EnqueueLock
  <2>6. FlushInv'
    BY <1>0, <1>4 DEF FlushInv, Position, LocalInv, Held, EnqueueLock
  <2> QED
    BY <2>1, <2>2, <2>3, <2>4, <2>5, <2>6 DEF IndInv
<1>5. CASE EnqueueBusy
  <2>1. TypeOK'
    BY <1>0, <1>5 DEF TypeOK, EnqueueBusy
  <2>2. NumbersInv' /\ ListInv'
    <3>1. /\ DurableFlushing' = DurableFlushing
          /\ \A m \in Nodes : DurableNext(m)' = DurableNext(m)
      BY <1>0, <1>5 DEF DurableFlushing, DurableNext, EnqueueBusy
    <3> QED
      BY <1>0, <1>5, <3>1, DurableFrame DEF EnqueueBusy
  <2>3. UndoInv'
    BY <1>0, <1>5 DEF UndoInv, LocalInv, EnqueueBusy
  <2>4. LocalInv'
    BY <1>0, <1>5 DEF LocalInv, EnqueueBusy
  <2>5. TailInv'
    BY <1>0, <1>5 DEF TailInv, TailAt, LocalInv, Held, EnqueueBusy
  <2>6. FlushInv'
    BY <1>0, <1>5 DEF FlushInv, Position, LocalInv, Held, EnqueueBusy
  <2> QED
    BY <2>1, <2>2, <2>3, <2>4, <2>5, <2>6 DEF IndInv
<1>6. CASE EnqueueMove
  <2>1. TypeOK'
    BY <1>0, <1>6, Pointers DEF TypeOK, EnqueueMove
  <2>2. NumbersInv' /\ ListInv'
    <3>1. undo = NoUndo
      BY <1>0, <1>6 DEF UndoInv, LocalInv, EnqueueMove
    <3>2. /\ DurableFlushing' = DurableFlushing
          /\ \A m \in Nodes : DurableNext(m)' = DurableNext(m)
      BY <1>0, <1>6, <3>1 DEF DurableFlushing, DurableNext, TypeOK, EnqueueMove
    <3> QED
      BY <1>0, <1>6, <3>2, DurableFrame DEF EnqueueMove
  <2>3. UndoInv'
    BY <1>0, <1>6 DEF UndoInv, LocalInv, EnqueueMove
  <2>4. LocalInv'
    BY <1>0, <1>6 DEF LocalInv, EnqueueMove
  <2>5. TailInv'
    BY <1>0, <1>6 DEF TailInv, TailAt, LocalInv, Held, EnqueueMove
  <2>6. FlushInv'
    BY <1>0, <1>6 DEF FlushInv, Position, LocalInv, Held, EnqueueMove
  <2> QED
    BY <2>1, <2>2, <2>3, <2>4, <2>5, <2>6 DEF IndInv
<1>7. CASE EnqueueCut
  <2>0. /\ phase = "running" /\ wpc = "moved" /\ active \in Nodes
        /\ undo' = [flushing |-> NULL, anext |-> next[active]]
        /\ undo.flushing = NULL /\ undo.anext = NoEntry /\ flushing = next[active]
        /\ next' = [next EXCEPT ![active] = NULL]
        /\ active' = active /\ flushing' = flushing
    BY <1>0, <1>7, Pointers DEF UndoInv, TypeOK, EnqueueCut
  <2>1. TypeOK'
    BY <1>0, <1>7, Pointers DEF TypeOK, EnqueueCut
  <2>2. NumbersInv' /\ ListInv'
    <3>1. next[active] # NoEntry /\ next[active] \in NodeOrNull
      BY <1>0, <2>0 DEF TypeOK
    <3>2. DurableFlushing' = DurableFlushing
      BY <2>0 DEF DurableFlushing
    <3>3. \A m \in Nodes : DurableNext(m)' = DurableNext(m)
      BY <1>0, <2>0, <3>1 DEF DurableNext, TypeOK
    <3> QED
      BY <1>0, <1>7, <3>2, <3>3, DurableFrame DEF EnqueueCut
  <2>3. UndoInv'
    <3>1. next'[active] = NULL /\ wpc' = "cut" /\ phase' = phase /\ fpc' # "cleared"
      BY <1>0, <1>7, <2>0 DEF LocalInv, TypeOK, EnqueueCut
    <3> QED
      BY <1>0, <2>0, <3>1 DEF UndoInv, LocalInv
  <2>4. LocalInv'
    BY <1>0, <1>7 DEF LocalInv, EnqueueCut
  <2>5. TailInv'
    BY <1>0, <1>7 DEF TailInv, TailAt, LocalInv, Held, EnqueueCut
  <2>6. FlushInv'
    BY <1>0, <1>7 DEF FlushInv, Position, LocalInv, Held, EnqueueCut
  <2> QED
    BY <2>1, <2>2, <2>3, <2>4, <2>5, <2>6 DEF IndInv
<1>8. CASE EnqueueCommit
  <2>0. /\ phase = "running" /\ wpc = "cut"
        /\ undo.flushing = NULL /\ undo.anext = flushing /\ next[active] = NULL
        /\ undo' = NoUndo /\ enqueued' = written /\ written' = written /\ released' = released
        /\ active' = active /\ flushing' = flushing /\ next' = next /\ req' = req
        /\ allocated' = allocated /\ tail' = tail
    BY <1>0, <1>8 DEF UndoInv, EnqueueCommit
  <2>a. /\ active # NULL /\ active \in Nodes /\ active \in allocated
        /\ Held \subseteq Nodes /\ NULL \notin Held /\ active \notin Held /\ Held' = Held
    BY <2>0, Pointers DEF Held
  <2>b. DurableFlushing = NULL /\ DurableNext(active) = flushing
    BY <1>0, <2>0 DEF DurableFlushing, DurableNext, TypeOK
  <2>c. released = enqueued /\ written \in Nat /\ enqueued \in Nat /\ enqueued <= written
    BY <1>0, <2>a, <2>b DEF ListInv, Links, NumbersInv, TypeOK
  <2>1. TypeOK'
    BY <1>0, <1>8 DEF TypeOK, EnqueueCommit
  <2>2. NumbersInv' /\ ListInv'
    <3>1. DurableFlushing' = flushing /\ DurableNext(active)' = NULL
          /\ \A m \in Held : DurableNext(m)' = DurableNext(m)
      BY <2>0, <2>a DEF DurableFlushing, DurableNext
    <3>2. Links(flushing, released + 1, written)
      BY <1>0, <2>a, <2>b, <2>c DEF ListInv
    <3>3. \A m \in Held : req[m] \in Nat /\ req[m] > enqueued /\ req[m] <= written
      BY <1>0, <2>a, <2>c DEF NumbersInv, TypeOK
    <3>4. \A m \in Held : Links(DurableNext(m), req[m] + 1, written)
      BY <1>0, <2>c, <3>3 DEF ListInv
    <3>5. \A p, i : Links(p, i, written)' <=> Links(p, i, written)
      BY <2>0, <2>a DEF Links
    <3>6. NumbersInv'
      BY <1>0, <2>0, <2>a, <2>c DEF NumbersInv
    <3>7. Links(NULL, enqueued + 1, written)'
      BY <2>0, <2>c DEF Links
    <3> QED
      BY <2>0, <2>a, <3>1, <3>2, <3>3, <3>4, <3>5, <3>6, <3>7 DEF ListInv
  <2>3. UndoInv'
    BY <1>0, <1>8 DEF UndoInv, LocalInv, EnqueueCommit
  <2>4. LocalInv'
    BY <1>0, <1>8 DEF LocalInv, EnqueueCommit
  <2>5. TailInv'
    <3>1. tail \in allocated /\ wpc' = "committed"
      BY <1>8, <2>0, Pointers DEF EnqueueCommit
    <3> QED
      BY <1>8, <2>0, <3>1 DEF TailInv, EnqueueCommit
  <2>6. FlushInv'
    BY <1>0, <1>8 DEF FlushInv, Position, LocalInv, Held, EnqueueCommit
  <2> QED
    BY <2>1, <2>2, <2>3, <2>4, <2>5, <2>6 DEF IndInv
<1>9. CASE EnqueueReset
  <2>1. TypeOK'
    BY <1>0, <1>9 DEF TypeOK, EnqueueReset
  <2>2. NumbersInv' /\ ListInv'
    <3>1. /\ DurableFlushing' = DurableFlushing
          /\ \A m \in Nodes : DurableNext(m)' = DurableNext(m)
      BY <1>0, <1>9 DEF DurableFlushing, DurableNext, EnqueueReset
    <3> QED
      BY <1>0, <1>9, <3>1, DurableFrame DEF EnqueueReset
  <2>3. UndoInv'
    BY <1>0, <1>9 DEF UndoInv, LocalInv, EnqueueReset
  <2>4. LocalInv'
    BY <1>0, <1>9 DEF LocalInv, EnqueueReset
  <2>5. TailInv'
    <3>1. written = enqueued
      BY <1>0, <1>9 DEF TailInv, EnqueueReset
    <3> QED
      BY <1>0, <1>9, <3>1 DEF TailInv, TailAt, TypeOK, EnqueueReset
  <2>6. FlushInv'
    BY <1>0, <1>9 DEF FlushInv, Position, LocalInv, Held, EnqueueReset
  <2> QED
    BY <2>1, <2>2, <2>3, <2>4, <2>5, <2>6 DEF IndInv
<1> QED
  BY <1>1, <1>2, <1>3, <1>4, <1>5, <1>6, <1>7, <1>8, <1>9 DEF Writer

(* flushAll preserves the invariant.                                       *)
LEMMA FlusherStep ==
  ASSUME IndInv, Flusher
  PROVE  IndInv'
<1> USE NodesAssumption DEF NodeOrNull, LogEntry, NoUndo, WriterHolds, FlusherHolds,
        heap, hist, WriterAt, FlusherAt
<1>0. /\ TypeOK /\ NumbersInv /\ ListInv /\ UndoInv
      /\ LocalInv /\ TailInv /\ FlushInv
  BY DEF IndInv
<1>1. CASE FlushLock
  <2>0. /\ undo = NoUndo /\ cur' = flushing /\ fpc' = "scan" /\ dead' = {} /\ delivered' = delivered
        /\ Held' = Held /\ req' = req /\ enqueued' = enqueued /\ released' = released
    BY <1>0, <1>1 DEF UndoInv, LocalInv, FlushInv, Held, FlushLock
  <2>a. Links(cur', released + 1, enqueued)
    BY <1>0, <2>0, Pointers DEF ListInv
  <2>b. released \in Nat /\ enqueued \in Nat /\ released <= enqueued /\ NULL \notin Held
    BY <1>0, Pointers DEF NumbersInv, TypeOK
  <2>1. TypeOK'
    BY <1>0, <1>1 DEF TypeOK, FlushLock
  <2>2. NumbersInv' /\ ListInv'
    <3>1. /\ DurableFlushing' = DurableFlushing
          /\ \A m \in Nodes : DurableNext(m)' = DurableNext(m)
      BY <1>0, <1>1 DEF DurableFlushing, DurableNext, FlushLock
    <3> QED
      BY <1>0, <1>1, <3>1, DurableFrame DEF FlushLock
  <2>3. UndoInv'
    BY <1>0, <1>1 DEF UndoInv, LocalInv, FlushLock
  <2>4. LocalInv'
    BY <1>0, <1>1 DEF LocalInv, FlushLock
  <2>5. TailInv'
    BY <1>0, <1>1 DEF TailInv, TailAt, LocalInv, Held, FlushLock
  <2>6. FlushInv'
    <3>1. Position' = released + 1
      BY <2>0, <2>a, <2>b DEF Position, Links
    <3> QED
      BY <1>0, <2>0, <2>a, <2>b, <3>1 DEF FlushInv, Links
  <2> QED
    BY <2>1, <2>2, <2>3, <2>4, <2>5, <2>6 DEF IndInv
<1>2. CASE FlushAccept
  <2>0. /\ phase = "running" /\ fpc = "scan" /\ cur # NULL /\ cur' = next[cur] /\ fpc' = fpc
        /\ Held' = Held /\ req' = req /\ enqueued' = enqueued /\ released' = released
    BY <1>2 DEF Held, FlushAccept
  <2>a. /\ cur \in Held /\ cur \in Nodes /\ NULL \notin Held /\ next[cur] \in NodeOrNull
        /\ req[cur] \in Nat /\ req[cur] <= enqueued /\ req[cur] > released
        /\ enqueued \in Nat /\ released \in Nat
    BY <1>0, <2>0, Pointers DEF FlushInv, TypeOK, NumbersInv
  <2>b. Links(next[cur], req[cur] + 1, enqueued)
    BY <1>0, <2>a, Pointers DEF ListInv
  <2>c. /\ Position = req[cur] /\ Position' = req[cur] + 1
        /\ cur' # NULL => cur' \in Held /\ req[cur'] <= enqueued
    BY <2>0, <2>a, <2>b DEF Position, Links
  <2>1. TypeOK'
    <3>1. cur' \in NodeOrNull
      BY <2>0, <2>a
    <3>2. delivered' \in SUBSET Nat
      BY <1>0, <1>2, <2>a DEF TypeOK, FlushAccept
    <3>3. UNCHANGED <<heap, phase, tail, mtx, wpc, fpc, dead, written, enqueued, released, crashes>>
      BY <1>2 DEF FlushAccept
    <3> QED
      BY <1>0, <3>1, <3>2, <3>3 DEF TypeOK
  <2>2. NumbersInv' /\ ListInv'
    <3>1. /\ DurableFlushing' = DurableFlushing
          /\ \A m \in Nodes : DurableNext(m)' = DurableNext(m)
      BY <1>0, <1>2 DEF DurableFlushing, DurableNext, FlushAccept
    <3> QED
      BY <1>0, <1>2, <3>1, DurableFrame DEF FlushAccept
  <2>3. UndoInv'
    BY <1>0, <1>2 DEF UndoInv, LocalInv, FlushAccept
  <2>4. LocalInv'
    BY <1>0, <1>2 DEF LocalInv, FlushAccept
  <2>5. TailInv'
    BY <1>0, <1>2 DEF TailInv, TailAt, LocalInv, Held, FlushAccept
  <2>6. FlushInv'
    <3>1. delivered' = delivered \cup {req[cur]} /\ dead' = dead
      BY <1>2 DEF FlushAccept
    <3>2. 1 .. Position' - 1 \subseteq delivered'
      BY <1>0, <2>0, <2>a, <2>c, <3>1 DEF FlushInv
    <3> QED
      BY <1>0, <2>0, <2>a, <2>c, <3>1, <3>2 DEF FlushInv
  <2> QED
    BY <2>1, <2>2, <2>3, <2>4, <2>5, <2>6 DEF IndInv
<1>3. CASE FlushStop
  <2>1. TypeOK'
    BY <1>0, <1>3 DEF TypeOK, FlushStop
  <2>2. NumbersInv' /\ ListInv'
    <3>1. /\ DurableFlushing' = DurableFlushing
          /\ \A m \in Nodes : DurableNext(m)' = DurableNext(m)
      BY <1>0, <1>3 DEF DurableFlushing, DurableNext, FlushStop
    <3> QED
      BY <1>0, <1>3, <3>1, DurableFrame DEF FlushStop
  <2>3. UndoInv'
    BY <1>0, <1>3 DEF UndoInv, LocalInv, FlushStop
  <2>4. LocalInv'
    BY <1>0, <1>3 DEF LocalInv, FlushStop
  <2>5. TailInv'
    BY <1>0, <1>3 DEF TailInv, TailAt, LocalInv, Held, FlushStop
  <2>6. FlushInv'
    BY <1>0, <1>3 DEF FlushInv, Position, LocalInv, Held, FlushStop
  <2> QED
    BY <2>1, <2>2, <2>3, <2>4, <2>5, <2>6 DEF IndInv
<1>4. CASE FlushScanned
  <2>0. /\ phase = "running" /\ fpc = "scan" /\ cur = NULL /\ cur' = flushing /\ fpc' = "delete"
        /\ dead = {} /\ dead' = {} /\ delivered' = delivered
        /\ Held' = Held /\ req' = req /\ enqueued' = enqueued /\ released' = released
    BY <1>0, <1>4 DEF FlushInv, Held, FlushScanned
  <2>a. Links(cur', released + 1, enqueued)
    <3>1. undo = NoUndo
      BY <1>0, <2>0 DEF UndoInv, LocalInv
    <3> QED
      BY <1>0, <2>0, <3>1, Pointers DEF ListInv
  <2>b. /\ released \in Nat /\ enqueued \in Nat /\ released <= enqueued /\ NULL \notin Held
        /\ \A m \in Held : req[m] \in Nat /\ req[m] > released
    BY <1>0, Pointers DEF NumbersInv, TypeOK
  <2>1. TypeOK'
    BY <1>0, <1>4 DEF TypeOK, FlushScanned
  <2>2. NumbersInv' /\ ListInv'
    <3>1. /\ DurableFlushing' = DurableFlushing
          /\ \A m \in Nodes : DurableNext(m)' = DurableNext(m)
      BY <1>0, <1>4 DEF DurableFlushing, DurableNext, FlushScanned
    <3> QED
      BY <1>0, <1>4, <3>1, DurableFrame DEF FlushScanned
  <2>3. UndoInv'
    BY <1>0, <1>4 DEF UndoInv, LocalInv, FlushScanned
  <2>4. LocalInv'
    BY <1>0, <1>4 DEF LocalInv, FlushScanned
  <2>5. TailInv'
    BY <1>0, <1>4 DEF TailInv, TailAt, LocalInv, Held, FlushScanned
  <2>6. FlushInv'
    <3>1. Position' = released + 1
      BY <2>0, <2>a, <2>b DEF Position, Links
    <3>2. {m \in Held : req[m] < Position'} = {}
      BY <2>b, <3>1
    <3>3. 1 .. enqueued \subseteq delivered
      BY <1>0, <2>0, <2>b DEF FlushInv, Position
    <3> QED
      BY <1>0, <2>0, <2>a, <2>b, <3>1, <3>2, <3>3 DEF FlushInv, Links
  <2> QED
    BY <2>1, <2>2, <2>3, <2>4, <2>5, <2>6 DEF IndInv
<1>5. CASE FlushDelete
  <2>0. /\ phase = "running" /\ fpc = "delete" /\ cur # NULL /\ cur' = next[cur] /\ fpc' = fpc
        /\ Held' = Held /\ req' = req /\ enqueued' = enqueued /\ released' = released
    BY <1>5 DEF Held, FlushDelete
  <2>a. /\ cur \in Held /\ cur \in Nodes /\ NULL \notin Held /\ next[cur] \in NodeOrNull
        /\ req[cur] \in Nat /\ req[cur] <= enqueued /\ req[cur] > released
        /\ enqueued \in Nat /\ released \in Nat
    BY <1>0, <2>0, Pointers DEF FlushInv, TypeOK, NumbersInv
  <2>b. Links(next[cur], req[cur] + 1, enqueued)
    BY <1>0, <2>a, Pointers DEF ListInv
  <2>c. /\ Position = req[cur] /\ Position' = req[cur] + 1
        /\ cur' # NULL => cur' \in Held /\ req[cur'] <= enqueued
    BY <2>0, <2>a, <2>b DEF Position, Links
  <2>1. TypeOK'
    BY <1>0, <1>5, <2>a DEF TypeOK, FlushDelete
  <2>2. NumbersInv' /\ ListInv'
    <3>1. /\ DurableFlushing' = DurableFlushing
          /\ \A m \in Nodes : DurableNext(m)' = DurableNext(m)
      BY <1>0, <1>5 DEF DurableFlushing, DurableNext, FlushDelete
    <3> QED
      BY <1>0, <1>5, <3>1, DurableFrame DEF FlushDelete
  <2>3. UndoInv'
    BY <1>0, <1>5 DEF UndoInv, LocalInv, FlushDelete
  <2>4. LocalInv'
    BY <1>0, <1>5 DEF LocalInv, FlushDelete
  <2>5. TailInv'
    BY <1>0, <1>5 DEF TailInv, TailAt, LocalInv, Held, FlushDelete
  <2>6. FlushInv'
    <3>1. dead' = dead \cup {cur} /\ delivered' = delivered
      BY <1>5 DEF FlushDelete
    <3>2. \A m \in Held : req[m] \in Nat /\ (req[m] = req[cur] => m = cur)
      BY <1>0, <2>a DEF NumbersInv
    <3>3. {m \in Held : req[m] < Position'} = {m \in Held : req[m] < Position} \cup {cur}
      BY <2>a, <2>c, <3>2
    <3> QED
      BY <1>0, <2>0, <2>a, <2>c, <3>1, <3>3 DEF FlushInv
  <2> QED
    BY <2>1, <2>2, <2>3, <2>4, <2>5, <2>6 DEF IndInv
<1>6. CASE FlushClear
  <2>0. /\ phase = "running" /\ fpc = "delete" /\ undo = NoUndo /\ wpc \notin WriterHolds
        /\ undo' = [flushing |-> flushing, anext |-> NoEntry]
        /\ flushing' = NULL /\ flushing # NoEntry /\ active' = active /\ next' = next
    BY <1>0, <1>6 DEF UndoInv, LocalInv, TypeOK, FlushClear
  <2>1. TypeOK'
    BY <1>0, <1>6 DEF TypeOK, FlushClear
  <2>2. NumbersInv' /\ ListInv'
    <3>1. /\ DurableFlushing' = DurableFlushing
          /\ \A m \in Nodes : DurableNext(m)' = DurableNext(m)
      BY <2>0 DEF DurableFlushing, DurableNext
    <3> QED
      BY <1>0, <1>6, <3>1, DurableFrame DEF FlushClear
  <2>3. UndoInv'
    BY <1>0, <1>6, <2>0 DEF UndoInv, FlushClear
  <2>4. LocalInv'
    BY <1>0, <1>6 DEF LocalInv, FlushClear
  <2>5. TailInv'
    BY <1>0, <1>6 DEF TailInv, TailAt, LocalInv, Held, FlushClear
  <2>6. FlushInv'
    BY <1>0, <1>6 DEF FlushInv, Position, LocalInv, Held, FlushClear
  <2> QED
    BY <2>1, <2>2, <2>3, <2>4, <2>5, <2>6 DEF IndInv
<1>7. CASE FlushCommit
  <2>0. /\ phase = "running" /\ fpc = "cleared" /\ flushing = NULL /\ undo.anext = NoEntry
        /\ undo' = NoUndo /\ allocated' = allocated \ dead /\ released' = enqueued
        /\ active' = active /\ flushing' = flushing /\ next' = next /\ req' = req
        /\ written' = written /\ enqueued' = enqueued /\ tail' = tail
    BY <1>0, <1>7 DEF UndoInv, FlushCommit
  <2>a. /\ active # NULL /\ active \in allocated /\ NULL \notin Held
        /\ active \notin Held /\ Held \subseteq Nodes
        /\ \A m \in Held : DurableNext(m) = next[m]
        /\ DurableNext(active) = next[active]
    BY <2>0, Pointers
  <2>b. /\ released \in Nat /\ enqueued \in Nat /\ written \in Nat
        /\ released <= enqueued /\ enqueued <= written
        /\ \A m \in Held : req[m] \in Nat /\ req[m] > released /\ req[m] <= written
    BY <1>0 DEF NumbersInv, TypeOK
  <2>c. dead = {m \in Held : req[m] <= enqueued}
    BY <1>0, <2>0, <2>b DEF FlushInv, Position
  <2>d. Held' = {m \in Held : req[m] > enqueued} /\ active \notin dead
    BY <2>0, <2>a, <2>b, <2>c DEF Held
  <2>1. TypeOK'
    BY <1>0, <1>7 DEF TypeOK, FlushCommit
  <2>2. NumbersInv' /\ ListInv'
    <3>1. /\ DurableFlushing' = NULL /\ DurableNext(active)' = DurableNext(active)
          /\ \A m \in Held : DurableNext(m)' = DurableNext(m)
      BY <2>0, <2>a DEF DurableFlushing, DurableNext
    <3>2. NumbersInv'
      BY <1>0, <2>0, <2>b, <2>d DEF NumbersInv
    <3>3. Links(DurableNext(active), enqueued + 1, written)'
      BY <1>0, <2>0, <2>a, <2>b, <2>d, <3>1 DEF ListInv, Links
    <3>4. Links(DurableFlushing, released + 1, enqueued)'
      BY <2>0, <2>b, <3>1 DEF Links
    <3>5. ASSUME NEW m \in Held'
          PROVE  Links(DurableNext(m), req[m] + 1,
                       IF req[m] <= enqueued THEN enqueued ELSE written)'
      <4>1. m \in Held /\ req[m] \in Nat /\ req[m] > enqueued
        BY <2>b, <2>d
      <4>2. Links(DurableNext(m), req[m] + 1, written)
        BY <1>0, <2>b, <4>1 DEF ListInv
      <4> QED
        BY <2>0, <2>b, <2>d, <3>1, <4>1, <4>2 DEF Links
    <3>6. active' # NULL /\ active' \in allocated'
      BY <2>0, <2>a, <2>d
    <3> QED
      BY <3>2, <3>3, <3>4, <3>5, <3>6 DEF ListInv
  <2>3. UndoInv'
    BY <1>0, <1>7 DEF UndoInv, LocalInv, FlushCommit
  <2>4. LocalInv'
    BY <1>0, <1>7 DEF LocalInv, FlushCommit
  <2>5. TailInv'
    <3>1. wpc \in {"idle", "published"} /\ wpc' = wpc /\ phase' = phase
      BY <1>0, <1>7, <2>0 DEF LocalInv, TypeOK, FlushCommit
    <3> QED
      BY <1>0, <2>0, <2>b, <2>d, <3>1 DEF TailInv, TailAt
  <2>6. FlushInv'
    BY <1>0, <1>7 DEF FlushInv, Position, LocalInv, Held, FlushCommit
  <2> QED
    BY <2>1, <2>2, <2>3, <2>4, <2>5, <2>6 DEF IndInv
<1> QED
  BY <1>1, <1>2, <1>3, <1>4, <1>5, <1>6, <1>7 DEF Flusher

(* A clean end and a crash at any moment preserve the invariant.           *)
LEMMA EndStep ==
  ASSUME IndInv, Close \/ Crash
  PROVE  IndInv'
<1> USE NodesAssumption DEF NodeOrNull, LogEntry, NoUndo, WriterHolds, FlusherHolds,
        heap, hist, WriterAt, FlusherAt
<1>0. /\ TypeOK /\ NumbersInv /\ ListInv /\ UndoInv
      /\ LocalInv /\ TailInv /\ FlushInv
  BY DEF IndInv
<1>1. CASE Close
  <2>1. TypeOK'
    BY <1>0, <1>1 DEF TypeOK, Close, ProcessEnds
  <2>2. NumbersInv' /\ ListInv'
    <3>1. /\ DurableFlushing' = DurableFlushing
          /\ \A m \in Nodes : DurableNext(m)' = DurableNext(m)
      BY <1>0, <1>1 DEF DurableFlushing, DurableNext, Close, ProcessEnds
    <3> QED
      BY <1>0, <1>1, <3>1, DurableFrame DEF Close, ProcessEnds
  <2>3. UndoInv'
    BY <1>0, <1>1 DEF UndoInv, LocalInv, Close, ProcessEnds
  <2>4. LocalInv'
    BY <1>0, <1>1 DEF LocalInv, Close, ProcessEnds
  <2>5. TailInv'
    BY <1>0, <1>1 DEF TailInv, TailAt, LocalInv, Held, Close, ProcessEnds
  <2>6. FlushInv'
    BY <1>0, <1>1 DEF FlushInv, Position, LocalInv, Held, Close, ProcessEnds
  <2> QED
    BY <2>1, <2>2, <2>3, <2>4, <2>5, <2>6 DEF IndInv
<1>2. CASE Crash
  <2>1. TypeOK'
    BY <1>0, <1>2 DEF TypeOK, Crash, ProcessEnds
  <2>2. NumbersInv' /\ ListInv'
    <3>1. /\ DurableFlushing' = DurableFlushing
          /\ \A m \in Nodes : DurableNext(m)' = DurableNext(m)
      BY <1>0, <1>2 DEF DurableFlushing, DurableNext, Crash, ProcessEnds
    <3> QED
      BY <1>0, <1>2, <3>1, DurableFrame DEF Crash, ProcessEnds
  <2>3. UndoInv'
    BY <1>0, <1>2 DEF UndoInv, LocalInv, Crash, ProcessEnds
  <2>4. LocalInv'
    BY <1>0, <1>2 DEF LocalInv, Crash, ProcessEnds
  <2>5. TailInv'
    BY <1>0, <1>2 DEF TailInv, TailAt, LocalInv, Held, Crash, ProcessEnds
  <2>6. FlushInv'
    BY <1>0, <1>2 DEF FlushInv, Position, LocalInv, Held, Crash, ProcessEnds
  <2> QED
    BY <2>1, <2>2, <2>3, <2>4, <2>5, <2>6 DEF IndInv
<1> QED
  BY <1>1, <1>2

LEMMA IndInvInit == Init => IndInv
BY NodesAssumption
DEF Init, IndInv, TypeOK, NumbersInv, ListInv, UndoInv, LocalInv, TailInv, FlushInv,
    Links, Held, Position, DurableNext, DurableFlushing, NodeOrNull, LogEntry, NoUndo,
    WriterHolds, FlusherHolds, WriterAt, FlusherAt

LEMMA IndInvStep == IndInv /\ [Next]_vars => IndInv'
<1> SUFFICES ASSUME IndInv, [Next]_vars PROVE IndInv'
  OBVIOUS
<1>1. CASE UNCHANGED vars
  BY <1>1
  DEF vars, heap, local, hist, IndInv, TypeOK, NumbersInv, ListInv, UndoInv, LocalInv,
      TailInv, TailAt, FlushInv, Links, Held, Position, DurableNext, DurableFlushing,
      WriterAt, FlusherAt
<1> QED
  BY <1>1, SetupStep, WriterStep, FlusherStep, EndStep DEF Next

(* The burst buffer's lists, links, undo log and thread positions are      *)
(* consistent in every reachable state, crashes included.                  *)
THEOREM BurstBufferInvariant == Spec => []IndInv
BY IndInvInit, IndInvStep, PTL DEF Spec

(* Typing of the persistent and the volatile state of the burst buffer.    *)
THEOREM BurstBufferTyping == Spec => []TypeOK
BY BurstBufferInvariant, PTL DEF IndInv

(* flushAll never reads a node that is freed or about to be, and tail_     *)
(* always points to an allocated node.                                     *)
THEOREM BurstBufferNoDanglingRead == Spec => []NoDanglingRead
<1>1. IndInv => NoDanglingRead
  <2> SUFFICES ASSUME IndInv PROVE NoDanglingRead
    OBVIOUS
  <2>1. ASSUME fpc \in {"scan", "delete"}, cur # NULL
        PROVE  cur \in Held \ dead
    <3>1. cur \in Held /\ req[cur] \in Nat
      BY <2>1, Pointers DEF IndInv, FlushInv, TypeOK
    <3>2. cur \notin dead
      BY <2>1, <3>1 DEF IndInv, FlushInv, Position
    <3> QED
      BY <3>1, <3>2
  <2> QED
    BY <2>1, Pointers DEF NoDanglingRead
<1> QED
  BY <1>1, BurstBufferInvariant, PTL

(* A write is offered to the flush callback only when every earlier one    *)
(* has been accepted.                                                      *)
THEOREM BurstBufferOrder == Spec => []DeliveredInOrder
<1>1. IndInv => DeliveredInOrder
  BY DEF IndInv, FlushInv, Position, DeliveredInOrder, FlusherAt
<1> QED
  BY <1>1, BurstBufferInvariant, PTL

(* Memory is given back only for accepted writes, a whole batch at a time. *)
THEOREM BurstBufferFree == Spec => FreedAfterAccepted
<1>1. IndInv /\ [Next]_vars
        => [\A n \in allocated \ allocated' : req[n] \in delivered /\ flushing' = NULL]_vars
  <2> SUFFICES ASSUME IndInv, Next, NEW n \in allocated \ allocated'
               PROVE  req[n] \in delivered /\ flushing' = NULL
    OBVIOUS
  <2>1. FlushCommit
    BY DEF Next, Setup, Writer, Flusher, Open, CreateSentinel, SentinelFails, FindSentinel,
       WalkTail, PwriteAlloc, PwriteAdvance, PwriteFails, EnqueueLock, EnqueueBusy, EnqueueMove,
       EnqueueCut, EnqueueCommit, EnqueueReset, FlushLock, FlushAccept, FlushStop, FlushScanned,
       FlushDelete, FlushClear, Close, Crash, Construct, heap, vars
  <2>2. flushing' = NULL /\ fpc = "cleared" /\ n \in dead
    BY <2>1 DEF FlushCommit, FlusherAt, IndInv, UndoInv
  <2>3. n \in Held /\ req[n] \in 1 .. enqueued
    BY <2>2, Pointers DEF IndInv, FlushInv, Position, TypeOK, NumbersInv
  <2> QED
    BY <2>2, <2>3 DEF IndInv, FlushInv
<1> QED
  BY <1>1, BurstBufferInvariant, PTL DEF Spec, FreedAfterAccepted
-----------------------------------------------------------------------------
(* Reachability.  The invariant speaks of one link at a time; that a chain *)
(* of right links reaches every write of its list is an induction on the   *)
(* number of the write, done here with the least-number principle.         *)

LEMMA LeastNumber ==
  ASSUME NEW T, T \subseteq Nat, T # {}
  PROVE  \E x \in T : \A y \in T : x <= y
<1> DEFINE Less == OpToRel(<, Nat)
<1>1. IsWellFoundedOn(Less, Nat)
  BY NatLessThanWellFounded
<1>2. \A x, y \in Nat : x < y => <<x, y>> \in Less
  BY DEF OpToRel
<1> HIDE DEF Less
<1>3. PICK x \in T : \A y \in T : ~ (<<y, x>> \in Less)
  BY <1>1, WFMin
<1>4. ASSUME NEW y \in T PROVE ~ (y < x)
  <2>1. y \in Nat /\ x \in Nat
    OBVIOUS
  <2> QED
    BY <1>2, <1>3, <2>1, Zenon
<1> QED
  BY <1>4

(* A closed set that contains the first node of a list contains all of it. *)
LEMMA ChainClosed ==
  ASSUME IndInv,
         NEW S \in SUBSET Nodes, \A m \in S : DurableNext(m) \in S \cup {NULL},
         NEW lo \in Nat, NEW hi \in Nat,
         (lo = enqueued /\ hi = written) \/ (lo = released /\ hi = enqueued),
         \A m \in Held : req[m] = lo + 1 /\ lo + 1 <= hi => m \in S
  PROVE  \A n \in Held : req[n] > lo /\ req[n] <= hi => n \in S
<1> SUFFICES ASSUME NEW n0 \in Held, req[n0] > lo, req[n0] <= hi, n0 \notin S
             PROVE  FALSE
  OBVIOUS
<1>0. NumbersInv /\ ListInv /\ TypeOK
  BY DEF IndInv
<1> DEFINE T == {i \in lo + 1 .. hi : \E n \in Held : req[n] = i /\ n \notin S}
<1>1. T \subseteq Nat
  OBVIOUS
<1>2. req[n0] \in T
  BY <1>0 DEF NumbersInv, TypeOK
<1>3. PICK k \in T : \A j \in T : k <= j
  <2> HIDE DEF T
  <2> QED
    BY <1>1, <1>2, LeastNumber
<1>4. PICK n \in Held : req[n] = k /\ n \notin S
  OBVIOUS
<1>5. k - 1 \in lo + 1 .. hi /\ k \in Nat
  <2>1. k # lo + 1
    BY <1>4
  <2> QED
    BY <2>1
<1>6. PICK m \in Held : req[m] = k - 1
  BY <1>0, <1>5 DEF NumbersInv, TypeOK
<1>7. m \in S
  BY <1>3, <1>5, <1>6
<1>8. DurableNext(m) \in Held /\ req[DurableNext(m)] = k
  BY <1>0, <1>5, <1>6 DEF ListInv, Links, TypeOK, NumbersInv
<1>9. DurableNext(m) = n /\ n # NULL
  BY <1>0, <1>4, <1>8, Pointers DEF NumbersInv
<1> QED
  BY <1>4, <1>7, <1>9

(* The lists reach exactly the writes that belong to them.                 *)
LEMMA ActiveReaches ==
  ASSUME IndInv, NEW n \in allocated
  PROVE  Reaches(active, n) <=> (n = active \/ req[n] > enqueued)
<1> USE NodesAssumption
<1>0. /\ NumbersInv /\ ListInv /\ TypeOK
      /\ released \in Nat /\ enqueued \in Nat /\ written \in Nat /\ enqueued <= written
  BY DEF IndInv, TypeOK, NumbersInv
<1>1. active # NULL /\ active \in Nodes /\ Held \subseteq Nodes /\ NULL \notin Held
  BY <1>0, Pointers DEF ListInv
<1>2. n = active \/ n \in Held
  BY DEF Held
<1>3. ASSUME n = active \/ req[n] > enqueued
      PROVE  Reaches(active, n)
  <2> SUFFICES ASSUME NEW S \in SUBSET Nodes, active \in S,
                      \A m \in S : DurableNext(m) \in S \cup {NULL}
               PROVE  n \in S
    BY <1>1 DEF Reaches
  <2>1. \A m \in Held : req[m] = enqueued + 1 /\ enqueued + 1 <= written => m \in S
    <3> SUFFICES ASSUME NEW m \in Held, req[m] = enqueued + 1, enqueued + 1 <= written
                 PROVE  m \in S
      OBVIOUS
    <3>1. DurableNext(active) \in Held /\ req[DurableNext(active)] = req[m]
      BY <1>0, <1>1 DEF ListInv, Links
    <3>2. DurableNext(active) = m
      BY <1>0, <3>1 DEF NumbersInv
    <3> QED
      BY <1>1, <3>2
  <2>2. \A m \in Held : req[m] > enqueued /\ req[m] <= written => m \in S
    BY <1>0, <2>1, ChainClosed
  <2> QED
    BY <1>0, <1>2, <1>3, <2>2 DEF NumbersInv
<1>4. ASSUME n # active, ~(req[n] > enqueued)
      PROVE  ~Reaches(active, n)
  <2> DEFINE S == {active} \cup {m \in Held : req[m] > enqueued}
  <2>1. S \in SUBSET Nodes /\ active \in S /\ n \notin S
    BY <1>1, <1>4
  <2>2. ASSUME NEW m \in S
        PROVE  DurableNext(m) \in S \cup {NULL}
    <3>1. CASE m = active
      BY <1>0, <1>1, <3>1 DEF ListInv, Links
    <3>2. CASE m # active
      BY <1>0, <1>1, <3>2 DEF ListInv, Links, TypeOK
    <3> QED
      BY <3>1, <3>2
  <2> HIDE DEF S
  <2> QED
    BY <2>1, <2>2 DEF Reaches
<1> QED
  BY <1>3, <1>4

LEMMA FlushingReaches ==
  ASSUME IndInv, NEW n \in allocated
  PROVE  Reaches(DurableFlushing, n) <=> (n # active /\ req[n] <= enqueued)
<1> USE NodesAssumption
<1>0. /\ NumbersInv /\ ListInv /\ TypeOK
      /\ released \in Nat /\ enqueued \in Nat /\ written \in Nat
      /\ released <= enqueued /\ enqueued <= written
  BY DEF IndInv, TypeOK, NumbersInv
<1>1. active # NULL /\ active \in Nodes /\ Held \subseteq Nodes /\ NULL \notin Held
      /\ active \notin Held
  BY <1>0, Pointers DEF ListInv
<1>2. n = active \/ n \in Held
  BY DEF Held
<1>3. ASSUME n # active, req[n] <= enqueued
      PROVE  Reaches(DurableFlushing, n)
  <2>0. n \in Held /\ req[n] \in Nat /\ req[n] > released
    BY <1>0, <1>2, <1>3 DEF NumbersInv
  <2>1. DurableFlushing \in Held /\ req[DurableFlushing] = released + 1
    BY <1>0, <1>3, <2>0 DEF ListInv, Links
  <2> SUFFICES ASSUME NEW S \in SUBSET Nodes, DurableFlushing \in S,
                      \A m \in S : DurableNext(m) \in S \cup {NULL}
               PROVE  n \in S
    BY <1>1, <2>1 DEF Reaches
  <2>2. \A m \in Held : req[m] = released + 1 /\ released + 1 <= enqueued => m \in S
    BY <1>0, <2>1 DEF NumbersInv
  <2>3. \A m \in Held : req[m] > released /\ req[m] <= enqueued => m \in S
    BY <1>0, <2>2, ChainClosed
  <2> QED
    BY <1>3, <2>0, <2>3
<1>4. ASSUME ~(n # active /\ req[n] <= enqueued)
      PROVE  ~Reaches(DurableFlushing, n)
  <2> SUFFICES ASSUME DurableFlushing # NULL PROVE ~Reaches(DurableFlushing, n)
    BY DEF Reaches
  <2> DEFINE S == {m \in Held : req[m] <= enqueued}
  <2>1. S \in SUBSET Nodes /\ DurableFlushing \in S /\ n \notin S
    BY <1>0, <1>1, <1>4 DEF ListInv, Links
  <2>2. ASSUME NEW m \in S
        PROVE  DurableNext(m) \in S \cup {NULL}
    BY <1>0, <1>1 DEF ListInv, Links, TypeOK
  <2> HIDE DEF S
  <2> QED
    BY <2>1, <2>2 DEF Reaches
<1> QED
  BY <1>3, <1>4

(* No write is ever lost: for every heap, every interleaving of the two    *)
(* threads and every sequence of crashes, a published write has been       *)
(* accepted by the flush callback or is on a list a restart will find.     *)
THEOREM BurstBufferDurability == Spec => []NoWriteLost
<1>1. IndInv => NoWriteLost
  <2> SUFFICES ASSUME IndInv, NEW i \in 1 .. written, i \notin delivered
               PROVE  \E n \in Held : /\ req[n] = i
                                      /\ Reaches(active, n) \/ Reaches(DurableFlushing, n)
    BY DEF NoWriteLost
  <2>1. i \in released + 1 .. written
    BY DEF IndInv, FlushInv, TypeOK
  <2>2. PICK n \in Held : req[n] = i
    BY <2>1 DEF IndInv, NumbersInv
  <2>3. n \in allocated /\ n # active
    BY <2>2 DEF Held
  <2>4. req[n] > enqueued \/ req[n] <= enqueued
    BY <2>2 DEF IndInv, TypeOK
  <2> QED
    BY <2>2, <2>3, <2>4, ActiveReaches, FlushingReaches
<1> QED
  BY <1>1, BurstBufferInvariant, PTL

(* Every allocated node is on exactly one of the two lists: the pool never *)
(* leaks a node and the flusher never frees one the writer can reach.      *)
THEOREM BurstBufferNoLeak == Spec => []NoLeak
<1>1. IndInv => NoLeak
  <2> SUFFICES ASSUME IndInv, NEW n \in allocated
               PROVE  Reaches(active, n) # Reaches(DurableFlushing, n)
    BY DEF NoLeak
  <2>1. n = active \/ req[n] > enqueued <=> ~(n # active /\ req[n] <= enqueued)
    BY DEF IndInv, TypeOK
  <2>2. Reaches(active, n) <=> ~Reaches(DurableFlushing, n)
    BY <2>1, ActiveReaches, FlushingReaches
  <2> QED
    BY <2>2 DEF Reaches
<1> QED
  BY <1>1, BurstBufferInvariant, PTL

(* tail_ is the last node of the active list whenever the writer starts an *)
(* operation, so pwrite never overwrites a link.                           *)
THEOREM BurstBufferTail == Spec => []TailIsLast
<1>1. IndInv => TailIsLast
  <2> SUFFICES ASSUME IndInv, WriterAt("idle")
               PROVE  tail \in allocated /\ next[tail] = NULL /\ Reaches(active, tail)
    BY DEF TailIsLast
  <2>1. /\ phase = "running" /\ wpc = "idle" /\ TailAt(written)
        /\ enqueued \in Nat /\ written \in Nat /\ enqueued <= written
        /\ ListInv
    BY DEF WriterAt, IndInv, TailInv, TypeOK, NumbersInv
  <2>2. tail \in allocated /\ active # NULL /\ DurableNext(active) = next[active]
        /\ \A m \in Held : DurableNext(m) = next[m]
    BY <2>1, Pointers
  <2>3. CASE written > enqueued
    <3>1. tail \in Held /\ req[tail] = written
      BY <2>1, <2>3 DEF TailAt
    <3>2. next[tail] = NULL
      BY <2>1, <2>2, <2>3, <3>1 DEF ListInv, Links
    <3> QED
      BY <2>2, <2>3, <3>1, <3>2, ActiveReaches
  <2>4. CASE written = enqueued
    <3>1. tail = active
      BY <2>1, <2>4 DEF TailAt
    <3>2. next[tail] = NULL
      BY <2>1, <2>2, <2>4, <3>1 DEF ListInv, Links
    <3> QED
      BY <2>2, <3>1, <3>2, ActiveReaches
  <2> QED
    BY <2>1, <2>3, <2>4
<1> QED
  BY <1>1, BurstBufferInvariant, PTL
-----------------------------------------------------------------------------
(* The refinement.  Seen through the numbers of the writes, the two lists  *)
(* are intervals: the walks of the refinement mapping compute them.        *)

Numbers(lo, hi) == [k \in 1 .. hi - lo |-> lo + k]

\* The writes lo + 1 .. hi make up a list: some node holds each, and its link leads to
\* the node of the next.
IsList(lo, hi) ==
  /\ lo \in Nat /\ hi \in Nat /\ lo <= hi /\ written \in Nat /\ hi <= written
  /\ NULL \notin Held
  /\ \A n \in Held : req[n] \in Nat
  /\ \A m, n \in Held : req[m] = req[n] => m = n
  /\ \A i \in lo + 1 .. hi : \E n \in Held : req[n] = i
  /\ \A n \in Held : req[n] \in lo + 1 .. hi => Links(DurableNext(n), req[n] + 1, hi)

(* A walk from the node of write lo + 1 meets the nodes of the next writes *)
(* one by one and then null.                                               *)
LEMMA WalkLinks ==
  ASSUME NEW p, NEW lo, NEW hi, IsList(lo, hi), Links(p, lo + 1, hi)
  PROVE  \A k \in 0 .. written : Links(Walk(p)[k], lo + k + 1, hi)
<1> DEFINE Hop(g, k) == IF k = 0 THEN p
                        ELSE IF g[k - 1] = NULL THEN NULL ELSE DurableNext(g[k - 1])
           Eq(g) == g = [k \in 0 .. written |-> Hop(g, k)]
           node(i) == CHOOSE n \in Held : req[n] = i
           f == [k \in 0 .. written |-> IF lo + k + 1 <= hi THEN node(lo + k + 1) ELSE NULL]
           w == Walk(p)
<1>0. /\ lo \in Nat /\ hi \in Nat /\ lo <= hi /\ written \in Nat /\ hi <= written
      /\ NULL \notin Held
  BY DEF IsList
<1>1. ASSUME NEW i \in lo + 1 .. hi PROVE node(i) \in Held /\ req[node(i)] = i
  <2>1. \E n \in Held : req[n] = i
    BY DEF IsList
  <2> QED
    BY <2>1
<1>2. ASSUME NEW q, NEW i \in Nat, i > lo, Links(q, i, hi)
      PROVE  q = IF i <= hi THEN node(i) ELSE NULL
  <2>1. CASE i <= hi
    <3>1. i \in lo + 1 .. hi
      BY <1>0, <1>2, <2>1
    <3>2. node(i) \in Held /\ req[node(i)] = i
      BY <1>1, <3>1
    <3>3. q \in Held /\ req[q] = i
      BY <1>2, <2>1 DEF Links
    <3> HIDE DEF node
    <3> QED
      BY <2>1, <3>2, <3>3 DEF IsList
  <2>2. CASE ~(i <= hi)
    BY <1>2, <2>2 DEF Links
  <2> QED
    BY <2>1, <2>2
<1> HIDE DEF node
<1>3. ASSUME NEW k \in 1 .. written
      PROVE  f[k] = IF f[k - 1] = NULL THEN NULL ELSE DurableNext(f[k - 1])
  <2>1. /\ k - 1 \in 0 .. written /\ k \in 0 .. written /\ lo + (k - 1) + 1 = lo + k
        /\ k \in Nat /\ lo + k \in Nat /\ lo + k + 1 \in Nat /\ lo + k >= lo + 1
        /\ lo + k + 1 > lo
    BY <1>0
  <2>2. f[k - 1] = IF lo + k <= hi THEN node(lo + k) ELSE NULL
    BY <2>1
  <2>3. f[k] = IF lo + k + 1 <= hi THEN node(lo + k + 1) ELSE NULL
    BY <2>1
  <2> HIDE DEF f
  <2>4. CASE lo + k <= hi
    <3>1. lo + k \in lo + 1 .. hi
      BY <1>0, <2>1, <2>4
    <3>2. node(lo + k) \in Held /\ req[node(lo + k)] = lo + k
      BY <1>1, <3>1
    <3>3. f[k - 1] = node(lo + k) /\ f[k - 1] # NULL
      BY <1>0, <2>2, <2>4, <3>2
    <3>4. Links(DurableNext(node(lo + k)), lo + k + 1, hi)
      BY <3>1, <3>2 DEF IsList
    <3>5. DurableNext(node(lo + k)) = f[k]
      BY <1>2, <2>1, <2>3, <3>4
    <3> QED
      BY <3>3, <3>5
  <2>5. CASE ~(lo + k <= hi)
    BY <1>0, <2>1, <2>2, <2>3, <2>5
  <2> QED
    BY <2>4, <2>5
<1>4. f[0] = p
  <2>1. lo + 1 \in Nat /\ lo + 1 > lo /\ lo + 0 + 1 = lo + 1 /\ 0 \in 0 .. written
    BY <1>0
  <2>2. p = IF lo + 1 <= hi THEN node(lo + 1) ELSE NULL
    BY <1>2, <2>1
  <2> QED
    BY <2>1, <2>2
<1>5. Eq(f)
  <2>1. ASSUME NEW k \in 0 .. written PROVE f[k] = Hop(f, k)
    <3>1. CASE k = 0
      BY <1>4, <3>1
    <3>2. CASE k # 0
      <4>1. k \in 1 .. written
        BY <1>0, <3>2
      <4> HIDE DEF f
      <4> QED
        BY <1>3, <3>2, <4>1
    <3> QED
      BY <3>1, <3>2
  <2>2. f = [k \in 0 .. written |-> f[k]]
    OBVIOUS
  <2> HIDE DEF f
  <2>3. [k \in 0 .. written |-> f[k]] = [k \in 0 .. written |-> Hop(f, k)]
    BY <2>1
  <2> QED
    BY <2>2, <2>3
<1>6. w = CHOOSE g : Eq(g)
  BY DEF Walk
<1>7. Eq(w)
  <2> HIDE DEF Eq, f, w
  <2> QED
    BY <1>5, <1>6
<1>8. /\ w[0] = p
      /\ \A k \in 1 .. written : w[k] = IF w[k - 1] = NULL THEN NULL ELSE DurableNext(w[k - 1])
  <2> HIDE DEF w, f
  <2> QED
    BY <1>0, <1>7
<1> HIDE DEF w, f, Eq, Hop
<1> DEFINE Bad == {k \in 0 .. written : ~Links(w[k], lo + k + 1, hi)}
<1>9. Bad = {}
  <2> SUFFICES ASSUME Bad # {} PROVE FALSE
    OBVIOUS
  <2>1. PICK k \in Bad : \A y \in Bad : k <= y
    <3>1. Bad \subseteq Nat
      BY <1>0
    <3> HIDE DEF Bad
    <3> QED
      BY <3>1, LeastNumber
  <2>2. k # 0
    <3>1. lo + 0 + 1 = lo + 1
      BY <1>0
    <3> QED
      BY <1>8, <3>1
  <2>3. k \in 1 .. written /\ k - 1 \in 0 .. written /\ ~(k <= k - 1)
        /\ lo + (k - 1) + 1 = lo + k
    BY <1>0, <2>2
  <2>4. Links(w[k - 1], lo + k, hi)
    BY <2>1, <2>3
  <2>5. Links(w[k], lo + k + 1, hi)
    <3>1. CASE lo + k <= hi
      <4>1. w[k - 1] \in Held /\ req[w[k - 1]] = lo + k
        BY <2>4, <3>1 DEF Links
      <4>2. lo + k \in lo + 1 .. hi
        BY <1>0, <2>3, <3>1
      <4>3. Links(DurableNext(w[k - 1]), lo + k + 1, hi)
        BY <4>1, <4>2 DEF IsList
      <4> QED
        BY <1>0, <1>8, <2>3, <4>1, <4>3
    <3>2. CASE ~(lo + k <= hi)
      BY <1>0, <1>8, <2>3, <2>4, <3>2 DEF Links
    <3> QED
      BY <3>1, <3>2
  <2> QED
    BY <2>5
<1> QED
  BY <1>9 DEF w

(* The list that begins at the node of write lo + 1 and ends with write hi *)
(* holds the writes between, in order.                                     *)
LEMMA ListedIs ==
  ASSUME NEW p, NEW lo, NEW hi, IsList(lo, hi), Links(p, lo + 1, hi)
  PROVE  Listed(p) = Numbers(lo, hi)
<1> DEFINE w == Walk(p)
           On == {k \in 0 .. written - 1 : w[k] # NULL}
<1>0. /\ lo \in Nat /\ hi \in Nat /\ lo <= hi /\ written \in Nat /\ hi <= written
      /\ NULL \notin Held
  BY DEF IsList
<1>1. \A k \in 0 .. written : Links(w[k], lo + k + 1, hi)
  BY WalkLinks
<1>2. Listed(p) = [k \in 1 .. Cardinality(On) |-> req[w[k - 1]]]
  BY DEF Listed
<1> HIDE DEF w
<1>3. On = 0 .. (hi - lo) - 1
  <2>1. ASSUME NEW k \in 0 .. written - 1 PROVE w[k] # NULL <=> k \in 0 .. (hi - lo) - 1
    <3>1. k \in 0 .. written
      BY <1>0
    <3>2. Links(w[k], lo + k + 1, hi)
      BY <1>1, <3>1
    <3>3. lo + k + 1 <= hi <=> k \in 0 .. (hi - lo) - 1
      BY <1>0
    <3> QED
      BY <1>0, <3>2, <3>3 DEF Links
  <2>2. 0 .. (hi - lo) - 1 \subseteq 0 .. written - 1
    BY <1>0
  <2> QED
    BY <2>1, <2>2
<1> HIDE DEF On
<1>4. Cardinality(On) = hi - lo
  <2>1. Cardinality(0 .. (hi - lo) - 1)
          = IF 0 > (hi - lo) - 1 THEN 0 ELSE ((hi - lo) - 1) - 0 + 1
    BY <1>0, FS_Interval
  <2> QED
    BY <1>0, <1>3, <2>1
<1>5. ASSUME NEW k \in 1 .. hi - lo PROVE req[w[k - 1]] = lo + k
  <2>1. k - 1 \in 0 .. written /\ lo + (k - 1) + 1 = lo + k /\ lo + k <= hi
    BY <1>0
  <2>2. Links(w[k - 1], lo + k, hi)
    BY <1>1, <2>1
  <2> QED
    BY <2>1, <2>2 DEF Links
<1> QED
  BY <1>2, <1>4, <1>5 DEF Numbers

\* How many writes of the batch the pass under way has got accepted.
Accepted ==
  IF fpc = "idle" THEN 0 ELSE IF fpc = "scan" THEN Position - 1 - released ELSE enqueued - released

\* What the refinement mapping computes.
Mapping ==
  /\ (IF active = NULL THEN <<>> ELSE Listed(DurableNext(active))) = Numbers(enqueued, written)
  /\ Listed(DurableFlushing) = Numbers(released, enqueued)
  /\ (CASE fpc = "idle" -> 0
        [] fpc = "scan" -> Len(Listed(DurableFlushing)) - Len(Listed(cur))
        [] OTHER        -> Len(Listed(DurableFlushing))) = Accepted

LEMMA NumbersAre ==
  ASSUME NEW lo \in Nat, NEW hi \in Nat, lo <= hi
  PROVE  /\ Len(Numbers(lo, hi)) = hi - lo
         /\ Numbers(lo, lo) = <<>>
         /\ Append(Numbers(lo, hi), hi + 1) = Numbers(lo, hi + 1)
<1>1. Numbers(lo, hi) \in Seq(Nat) /\ Len(Numbers(lo, hi)) = hi - lo
  <2>1. Numbers(lo, hi) \in [1 .. hi - lo -> Nat]
    BY DEF Numbers
  <2> QED
    BY <2>1
<1>2. Numbers(lo, lo) = <<>>
  BY DEF Numbers
<1>3. Append(Numbers(lo, hi), hi + 1) = Numbers(lo, hi + 1)
  <2> DEFINE s == Numbers(lo, hi)
             t == Append(s, hi + 1)
  <2>1. \A k \in 1 .. hi - lo : s[k] = lo + k
    BY DEF Numbers
  <2>2. s \in Seq(Nat) /\ Len(s) = hi - lo
    BY <1>1
  <2> HIDE DEF s
  <2>3. t = [k \in 1 .. (hi - lo) + 1 |-> IF k = (hi - lo) + 1 THEN hi + 1 ELSE s[k]]
    BY <2>2
  <2>4. (hi - lo) + 1 = (hi + 1) - lo /\ lo + ((hi - lo) + 1) = hi + 1
    OBVIOUS
  <2>5. t = [k \in 1 .. (hi + 1) - lo |-> lo + k]
    BY <2>1, <2>3, <2>4
  <2> QED
    BY <2>5 DEF Numbers, s
<1> QED
  BY <1>1, <1>2, <1>3

LEMMA MappingHolds == IndInv => Mapping
<1> SUFFICES ASSUME IndInv PROVE Mapping
  OBVIOUS
<1>0. /\ TypeOK /\ NumbersInv /\ ListInv /\ FlushInv
      /\ released \in Nat /\ enqueued \in Nat /\ written \in Nat
      /\ released <= enqueued /\ enqueued <= written
  BY DEF IndInv, TypeOK, NumbersInv
<1>1. /\ Held \subseteq Nodes /\ NULL \notin Held
      /\ \A n \in Held : req[n] \in Nat
      /\ \A m, n \in Held : req[m] = req[n] => m = n
      /\ \A i \in released + 1 .. written : \E n \in Held : req[n] = i
  BY <1>0, Pointers DEF TypeOK, NumbersInv
<1>2. IsList(enqueued, written)
  <2>1. ASSUME NEW n \in Held, req[n] \in enqueued + 1 .. written
        PROVE  Links(DurableNext(n), req[n] + 1, written)
    BY <1>0, <1>1, <2>1 DEF ListInv
  <2>2. \A i \in enqueued + 1 .. written : i \in released + 1 .. written
    BY <1>0
  <2> QED
    BY <1>0, <1>1, <2>1, <2>2 DEF IsList
<1>3. \A lo \in released .. enqueued : IsList(lo, enqueued)
  <2> SUFFICES ASSUME NEW lo \in released .. enqueued PROVE IsList(lo, enqueued)
    OBVIOUS
  <2>1. ASSUME NEW n \in Held, req[n] \in lo + 1 .. enqueued
        PROVE  Links(DurableNext(n), req[n] + 1, enqueued)
    BY <1>0, <1>1, <2>1 DEF ListInv
  <2>2. \A i \in lo + 1 .. enqueued : i \in released + 1 .. written
    BY <1>0
  <2> QED
    BY <1>0, <1>1, <2>1, <2>2 DEF IsList
<1>4. (IF active = NULL THEN <<>> ELSE Listed(DurableNext(active))) = Numbers(enqueued, written)
  <2>1. CASE active = NULL
    <3>1. written = 0 /\ enqueued = 0
      BY <1>0, <2>1 DEF ListInv
    <3>2. Numbers(enqueued, written) = <<>>
      BY <3>1 DEF Numbers
    <3> QED
      BY <2>1, <3>2
  <2>2. CASE active # NULL
    <3>1. Links(DurableNext(active), enqueued + 1, written)
      BY <1>0, <2>2 DEF ListInv
    <3>2. Listed(DurableNext(active)) = Numbers(enqueued, written)
      BY <1>2, <3>1, ListedIs
    <3> QED
      BY <2>2, <3>2
  <2> QED
    BY <2>1, <2>2
<1>5. Listed(DurableFlushing) = Numbers(released, enqueued)
  <2>1. Links(DurableFlushing, released + 1, enqueued)
    BY <1>0 DEF ListInv
  <2>2. IsList(released, enqueued)
    BY <1>0, <1>3
  <2> QED
    BY <2>1, <2>2, ListedIs
<1>6. ASSUME fpc = "scan"
      PROVE  Position - 1 \in Nat /\ Len(Listed(cur)) = enqueued - (Position - 1)
  <2>1. /\ Position - 1 \in released .. enqueued /\ (Position - 1) + 1 = Position
        /\ Links(cur, Position, enqueued)
    <3>1. CASE cur = NULL
      BY <1>0, <3>1 DEF Position, Links
    <3>2. CASE cur # NULL
      <4>1. cur \in Held /\ req[cur] <= enqueued /\ req[cur] \in released + 1 .. written
        BY <1>0, <3>2 DEF FlushInv, NumbersInv
      <4> QED
        BY <1>0, <3>2, <4>1 DEF Position, Links
    <3> QED
      BY <3>1, <3>2
  <2>2. IsList(Position - 1, enqueued)
    BY <1>3, <2>1
  <2>3. Links(cur, (Position - 1) + 1, enqueued)
    BY <2>1
  <2>4. Listed(cur) = Numbers(Position - 1, enqueued)
    <3> HIDE DEF Position
    <3> QED
      BY <2>2, <2>3, ListedIs
  <2>5. Position - 1 \in Nat /\ Position - 1 <= enqueued
    BY <1>0, <2>1
  <2> HIDE DEF Position
  <2>6. Len(Listed(cur)) = enqueued - (Position - 1)
    BY <1>0, <2>4, <2>5, NumbersAre
  <2> QED
    BY <2>5, <2>6
<1>7. Len(Listed(DurableFlushing)) = enqueued - released
  BY <1>0, <1>5, NumbersAre
<1>8. (CASE fpc = "idle" -> 0
         [] fpc = "scan" -> Len(Listed(DurableFlushing)) - Len(Listed(cur))
         [] OTHER        -> Len(Listed(DurableFlushing))) = Accepted
  <2>1. CASE fpc = "idle"
    BY <2>1 DEF Accepted
  <2>2. CASE fpc = "scan"
    <3>1. Len(Listed(DurableFlushing)) - Len(Listed(cur)) = Position - 1 - released
      BY <1>0, <1>6, <1>7, <2>2
    <3> QED
      BY <2>2, <3>1 DEF Accepted
  <2>3. CASE fpc \notin {"idle", "scan"}
    BY <1>7, <2>3 DEF Accepted
  <2> QED
    BY <2>1, <2>2, <2>3
<1> QED
  BY <1>4, <1>5, <1>8 DEF Mapping

LEMMA MappingNext == IndInv' => Mapping'
BY MappingHolds, PTL

(* The steps of the durable queue, told by the numbers of the writes.      *)
LEMMA StepsByNumber ==
  ASSUME IndInv, IndInv', Mapping, Mapping'
  PROVE  /\ (UNCHANGED <<written, enqueued, released>> /\ Accepted' = Accepted)
              => UNCHANGED Promise!vars
         /\ (UNCHANGED <<written, enqueued, released>> /\ Accepted' = 0) => Promise!Interrupt
         /\ (/\ UNCHANGED <<written, enqueued, released>>
             /\ Accepted < enqueued - released /\ Accepted' = Accepted + 1) => Promise!Accept
         /\ (/\ written' = written + 1 /\ UNCHANGED <<enqueued, released>>
             /\ Accepted' = Accepted) => Promise!Write
         /\ (/\ released = enqueued /\ enqueued' = written /\ UNCHANGED <<written, released>>
             /\ Accepted' = Accepted) => Promise!Rotate
         /\ (/\ Accepted = enqueued - released /\ Accepted' = 0
             /\ released' = enqueued /\ UNCHANGED <<written, enqueued>>) => Promise!Release
<1> DEFINE pending == IF active = NULL THEN <<>> ELSE Listed(DurableNext(active))
           batch   == Listed(DurableFlushing)
           seen    == CASE fpc = "idle" -> 0
                        [] fpc = "scan" -> Len(Listed(DurableFlushing)) - Len(Listed(cur))
                        [] OTHER        -> Len(Listed(DurableFlushing))
<1>0. /\ released \in Nat /\ enqueued \in Nat /\ written \in Nat
      /\ released <= enqueued /\ enqueued <= written
  BY DEF IndInv, TypeOK, NumbersInv
<1>1. /\ pending = Numbers(enqueued, written) /\ batch = Numbers(released, enqueued)
      /\ seen = Accepted
  BY DEF Mapping
<1>2. /\ pending' = Numbers(enqueued', written') /\ batch' = Numbers(released', enqueued')
      /\ seen' = Accepted'
  BY DEF Mapping
<1>3. Len(batch) = enqueued - released
  BY <1>0, <1>1, NumbersAre
<1>4. /\ Promise!vars = <<written, pending, batch, seen>>
      /\ Promise!vars' = <<written', pending', batch', seen'>>
  BY DEF Promise!vars
<1>5. /\ Promise!Interrupt <=> (seen' = 0 /\ UNCHANGED <<written, pending, batch>>)
      /\ Promise!Accept <=> (/\ seen < Len(batch) /\ seen' = seen + 1
                             /\ UNCHANGED <<written, pending, batch>>)
      /\ Promise!Write <=> (/\ written' = written + 1 /\ pending' = Append(pending, written')
                            /\ UNCHANGED <<batch, seen>>)
      /\ Promise!Rotate <=> (/\ batch = <<>> /\ batch' = pending /\ pending' = <<>>
                             /\ UNCHANGED <<written, seen>>)
      /\ Promise!Release <=> (/\ seen = Len(batch) /\ batch' = <<>> /\ seen' = 0
                              /\ UNCHANGED <<written, pending>>)
  BY DEF Promise!Interrupt, Promise!Accept, Promise!Write, Promise!Rotate, Promise!Release
<1> HIDE DEF pending, batch, seen
<1>6. (UNCHANGED <<written, enqueued, released>> /\ Accepted' = Accepted)
        => UNCHANGED Promise!vars
  BY <1>1, <1>2, <1>4
<1>7. (UNCHANGED <<written, enqueued, released>> /\ Accepted' = 0) => Promise!Interrupt
  BY <1>1, <1>2, <1>5
<1>8. (/\ UNCHANGED <<written, enqueued, released>>
       /\ Accepted < enqueued - released /\ Accepted' = Accepted + 1) => Promise!Accept
  BY <1>1, <1>2, <1>3, <1>5
<1>9. (/\ written' = written + 1 /\ UNCHANGED <<enqueued, released>>
       /\ Accepted' = Accepted) => Promise!Write
  BY <1>0, <1>1, <1>2, <1>5, NumbersAre
<1>10. (/\ released = enqueued /\ enqueued' = written /\ UNCHANGED <<written, released>>
        /\ Accepted' = Accepted) => Promise!Rotate
  BY <1>0, <1>1, <1>2, <1>5, NumbersAre
<1>11. (/\ Accepted = enqueued - released /\ Accepted' = 0
        /\ released' = enqueued /\ UNCHANGED <<written, enqueued>>) => Promise!Release
  BY <1>0, <1>1, <1>2, <1>3, <1>5, NumbersAre
<1> QED
  BY <1>6, <1>7, <1>8, <1>9, <1>10, <1>11

(* Every step of the threads, the setup and the end of the process is a    *)
(* step of the durable queue or leaves it alone.                           *)
LEMMA QueueStep ==
  ASSUME IndInv, IndInv', Mapping, Mapping', [Next]_vars
  PROVE  [Promise!Next]_(Promise!vars)
<1> USE NodesAssumption DEF heap, hist, WriterAt, FlusherAt
<1>0. /\ TypeOK /\ NumbersInv /\ ListInv /\ UndoInv /\ LocalInv /\ FlushInv
      /\ released \in Nat /\ enqueued \in Nat /\ written \in Nat
      /\ released <= enqueued /\ enqueued <= written
  BY DEF IndInv, TypeOK, NumbersInv
<1> DEFINE Still == UNCHANGED <<written, enqueued, released>>
<1>1. CASE UNCHANGED vars
  <2>1. Still /\ Accepted' = Accepted
    BY <1>1 DEF vars, local, Accepted, Position
  <2> QED
    BY <2>1, StepsByNumber
<1>2. CASE Setup
  <2>1. Still /\ fpc' = "idle" /\ fpc = "idle"
    BY <1>0, <1>2 DEF Setup, Open, CreateSentinel, SentinelFails, FindSentinel, WalkTail, LocalInv
  <2>2. Accepted' = Accepted
    BY <2>1 DEF Accepted
  <2> QED
    BY <2>1, <2>2, StepsByNumber
<1>3. ASSUME NEW n \in Nodes, PwriteAlloc(n) PROVE Promise!Write
  <2>1. /\ written' = written + 1 /\ UNCHANGED <<enqueued, released, fpc, cur>>
        /\ req' = [req EXCEPT ![n] = written + 1] /\ n \notin allocated
    BY <1>3 DEF PwriteAlloc, Construct
  <2>2. cur # NULL => cur \in Held /\ cur # n /\ cur \in Nodes
    BY <1>0, <2>1, Pointers DEF FlushInv, Held
  <2>3. Accepted' = Accepted
    BY <1>0, <2>1, <2>2 DEF Accepted, Position, TypeOK
  <2> QED
    BY <2>1, <2>3, StepsByNumber
<1>4. CASE \/ PwriteAdvance \/ PwriteFails \/ EnqueueLock \/ EnqueueBusy \/ EnqueueMove
           \/ EnqueueCut \/ EnqueueReset
  <2>1. Still /\ UNCHANGED <<fpc, cur, req>>
    BY <1>4 DEF PwriteAdvance, PwriteFails, EnqueueLock, EnqueueBusy, EnqueueMove, EnqueueCut,
                EnqueueReset, vars, local
  <2>2. Accepted' = Accepted
    BY <2>1 DEF Accepted, Position
  <2> QED
    BY <2>1, <2>2, StepsByNumber
<1>5. CASE EnqueueCommit
  <2>1. /\ phase = "running" /\ wpc = "cut" /\ enqueued' = written
        /\ UNCHANGED <<written, released, fpc>>
    BY <1>5 DEF EnqueueCommit
  <2>2. fpc = "idle"
    BY <1>0, <2>1 DEF LocalInv, WriterHolds, FlusherHolds, TypeOK
  <2>3. DurableFlushing = NULL
    BY <1>0, <2>1 DEF UndoInv, DurableFlushing
  <2>4. released = enqueued
    BY <1>0, <2>3, Pointers DEF ListInv, Links
  <2>5. Accepted' = Accepted
    BY <2>1, <2>2 DEF Accepted
  <2> QED
    BY <2>1, <2>4, <2>5, StepsByNumber DEF Promise!Next
<1>6. CASE FlushLock
  <2>1. /\ Still /\ fpc = "idle" /\ fpc' = "scan" /\ cur' = flushing /\ req' = req
        /\ phase = "running" /\ mtx = "free"
    BY <1>6 DEF FlushLock
  <2>2. DurableFlushing = flushing
    BY <1>0, <2>1, Pointers DEF LocalInv, WriterHolds, TypeOK
  <2>3. Links(flushing, released + 1, enqueued)
    BY <1>0, <2>2 DEF ListInv
  <2>4. Position' = released + 1
    BY <1>0, <2>1, <2>3, Pointers DEF Position, Links
  <2>5. Accepted' = Accepted
    BY <1>0, <2>1, <2>4 DEF Accepted
  <2> QED
    BY <2>1, <2>5, StepsByNumber
<1>7. CASE FlushAccept
  <2>1. /\ Still /\ fpc = "scan" /\ fpc' = "scan" /\ cur # NULL /\ cur' = next[cur]
        /\ req' = req /\ phase = "running"
    BY <1>7 DEF FlushAccept
  <2>2. /\ cur \in Held /\ req[cur] <= enqueued /\ req[cur] \in released + 1 .. written
        /\ next[cur] = DurableNext(cur)
    BY <1>0, <2>1, Pointers DEF FlushInv, NumbersInv
  <2>3. Links(next[cur], req[cur] + 1, enqueued)
    BY <1>0, <2>2 DEF ListInv
  <2>4. Position = req[cur] /\ Position' = req[cur] + 1
    BY <1>0, <2>1, <2>2, <2>3, Pointers DEF Position, Links
  <2>5. Accepted < enqueued - released /\ Accepted' = Accepted + 1
    BY <1>0, <2>1, <2>2, <2>4 DEF Accepted
  <2> QED
    BY <2>1, <2>5, StepsByNumber DEF Promise!Next
<1>8. CASE FlushStop \/ Close \/ Crash
  <2>1. Still /\ Accepted' = 0
    BY <1>8 DEF FlushStop, Close, Crash, ProcessEnds, Accepted
  <2> QED
    BY <2>1, StepsByNumber DEF Promise!Next
<1>9. CASE FlushScanned \/ FlushDelete \/ FlushClear
  <2>1. Still
    BY <1>9 DEF FlushScanned, FlushDelete, FlushClear
  <2>2. Accepted' = Accepted
    <3>1. CASE FlushScanned
      BY <1>0, <3>1 DEF FlushScanned, Accepted, Position
    <3>2. CASE FlushDelete \/ FlushClear
      BY <3>2 DEF FlushDelete, FlushClear, Accepted
    <3> QED
      BY <1>9, <3>1, <3>2
  <2> QED
    BY <2>1, <2>2, StepsByNumber
<1>10. CASE FlushCommit
  <2>1. /\ Accepted = enqueued - released /\ Accepted' = 0
        /\ released' = enqueued /\ UNCHANGED <<written, enqueued>>
    BY <1>10 DEF FlushCommit, Accepted
  <2> QED
    BY <2>1, StepsByNumber DEF Promise!Next
<1>11. (\E n \in Nodes : PwriteAlloc(n)) => Promise!Next
  BY <1>3 DEF Promise!Next
<1> QED
  BY <1>1, <1>2, <1>4, <1>5, <1>6, <1>7, <1>8, <1>9, <1>10, <1>11 DEF Next, Writer, Flusher

(* The persistent lists, the undo log and the two threads implement the    *)
(* durable queue, crashes and roll-backs at any step included: a write is  *)
(* queued at one instant, a batch is handed over whole and given up only   *)
(* after one uninterrupted pass.                                           *)
THEOREM BurstBufferIsAQueue == Spec => ImplementsDurableQueue
<1>1. Init => Promise!Init
  <2> SUFFICES ASSUME Init PROVE Promise!Init
    OBVIOUS
  <2>1. Mapping
    BY IndInvInit, MappingHolds
  <2>2. Numbers(0, 0) = <<>>
    BY NumbersAre
  <2>3. written = 0 /\ enqueued = 0 /\ released = 0 /\ Accepted = 0
    BY DEF Init, Accepted
  <2> QED
    BY <2>1, <2>2, <2>3 DEF Mapping, Promise!Init
<1>2. IndInv /\ IndInv' /\ [Next]_vars => [Promise!Next]_(Promise!vars)
  BY MappingHolds, MappingNext, QueueStep
<1> QED
  BY <1>1, <1>2, BurstBufferInvariant, PTL DEF Spec, ImplementsDurableQueue, Promise!Spec
=============================================================================
