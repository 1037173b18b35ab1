--------------------------- MODULE MCStripedBench ----------------------------
(* Small command lines for the three benchmark programs. *)
EXTENDS StripedBench

Line(program, total, s, block, nthreads, nelements, op) ==
  [program |-> program, total |-> total, stripe |-> s, block |-> block,
   nthreads |-> nthreads, nelements |-> nelements, op |-> op]

\* Two stripes with two offsets to shuffle, three threads, blocks of several bytes,
\* a single thread, and nothing to do.
Lines(p) ==
  {Line(p, 8, 4, 1, 2, 8, "write"), Line(p, 3, 3, 1, 3, 4, "write"),
   Line(p, 12, 6, 3, 2, 4, "write"), Line(p, 6, 3, 1, 1, 6, "write"),
   Line(p, 0, 2, 1, 2, 0, "write")}

\* One line for each way to be refused.
Refused(p) ==
  {Line(p, 6, 4, 1, 2, 9, "read"), Line(p, 4, 2, 3, 1, 9, "read"),
   Line(p, 6, 3, 2, 1, 9, "read"), Line(p, 4, 4, 1, 3, 9, "read"),
   Line(p, 4, 4, 4, 2, 9, "read"), Line(p, 4, 2, 1, 1, 9, "none"),
   Line(p, 4, 2, 1, 1, 9, "both"), Line(p, 4, 4, 1, 2, 3, "read")}

Bad(p) == {Line(p, 4, 2, 1, 1, 9, "bad")}

Pmem2Lines == Lines("pmem2") \cup Refused("pmem2") \cup Bad("pmem2")
                \cup {Line("pmem2", 4, 2, 1, 2, 0, "dry")}
BlkLines   == Lines("blk") \cup Refused("blk") \cup Bad("blk")
ObjLines   == {Line("obj", 8, 4, 1, 2, 0, "write"), Line("obj", 3, 3, 1, 3, 0, "write"),
               Line("obj", 3, 3, 1, 3, 0, "alloc"), Line("obj", 8, 4, 1, 2, 0, "read")}
                \cup Refused("obj")

\* Strip units that are not a whole number of blocks.
UnevenLines == {Line("pmem2", 24, 24, 4, 4, 6, "write")}
=============================================================================
