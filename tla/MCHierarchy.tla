------------------------------ MODULE MCHierarchy ------------------------------
(***************************************************************************)
(* Small hierarchies with the shapes of examples.py, tests/test.py and the *)
(* README, for TLC.  Lines have two bytes unless a hierarchy says other-   *)
(* wise, so that a line can be stored to in part.                          *)
(***************************************************************************)
EXTENDS Statistics

Level(sets, ways, policy, load_from, store_to, victims_to) ==
  [sets |-> sets, ways |-> ways, cl_size |-> 2, subblock_bits |-> 1,
   replacement_policy |-> policy,
   write_back |-> TRUE, write_allocate |-> TRUE, write_combining |-> FALSE,
   load_from |-> load_from, store_to |-> store_to, victims_to |-> victims_to]

NoAllocate(k)   == [k EXCEPT !.write_allocate = FALSE]
WriteThrough(k) == [k EXCEPT !.write_allocate = FALSE, !.write_back = FALSE]
Combining(k)    == [k EXCEPT !.write_allocate = FALSE, !.write_combining = TRUE,
                             !.subblock_bits = 2]
WideLines(k)    == [k EXCEPT !.cl_size = 4]

\* README "Inclusive cache hierarchies": write-back and write-allocate.
TwoLevels == << Level(1, 2, "LRU", 2, 2, 0), Level(1, 2, "FIFO", 0, 0, 0) >>

\* Skylake of tests/test.py:682-707.
Skylake == << WriteThrough(Level(1, 1, "LRU", 2, 2, 0)),
              Level(1, 2, "LRU", 0, 3, 3),
              NoAllocate(Level(1, 2, "LRU", 0, 0, 0)) >>

\* Bulldozer of tests/test.py:552-586: 2 is the WCC, 3 is L2, 4 is L3.
Bulldozer == << WriteThrough(Level(1, 1, "LRU", 3, 2, 0)),
                Combining(Level(1, 1, "LRU", 0, 3, 0)),
                Level(1, 1, "LRU", 0, 4, 4),
                NoAllocate(Level(2, 1, "LRU", 0, 0, 0)) >>

\* MRU before RR with wider lines; of three ways RR uses 0 and 2.
MruRandom == << WriteThrough(Level(1, 2, "MRU", 2, 2, 0)),
                WideLines(Level(1, 3, "RR", 0, 0, 0)) >>

MRUOnly == << Level(1, 2, "MRU", 0, 0, 0) >>

\* A write-combining cache, with one way and with two, before a second level.
Combine1 == << Combining(Level(1, 1, "LRU", 2, 2, 0)), Level(1, 2, "LRU", 0, 0, 0) >>
Combine2 == << Combining(Level(1, 2, "LRU", 2, 2, 0)), Level(1, 2, "LRU", 0, 0, 0) >>

LineRanges  == [addr : {0, 2, 4}, length : {2}]
HalfLines   == [addr : {0, 1, 2, 4}, length : {1}]
PartsOfTwo  == [addr : 0..3, length : {1}]
TwoLines    == [addr : {0, 2}, length : {2}]
\* Within a line, across a boundary, and over three lines.
MixedRanges == {[addr |-> a, length |-> n] : a \in {0, 1, 3}, n \in {1, 2, 4}}

\* Counters are written and never read by the simulator, so the runs without a
\* bound on calls tell states apart by what the properties say about them: the
\* differences that should vanish, and which levels have counters at all.
\* While the counters are being reset no property looks at them, and
\* afterwards they are all zero, whatever they were.
Balances ==
  << Minus(Total(Levels, "EVICT"),
           Plus(Total(Levels \ {FirstLevel}, "STORE"), memory["stores"])),
     [c \in Levels \ {FirstLevel} |->
        Minus(stats[c]["LOAD"], Plus(stats[c]["HIT"], stats[c]["MISS"]))],
     {c \in VictimCaches \ {None} : stats[c]["MISS"].count = 0},
     [k \in DOMAIN memory |-> Minus(MemoryStats[k], memory[k])] >>

WithoutStats == <<placement, bits, stack, walk, owed>>
WithBalances ==
  <<WithoutStats, IF walk.job = "reset_stats" THEN <<>> ELSE Balances>>
WithZeros    == <<WithBalances, {c \in Levels : stats[c] = Zero}>>
=============================================================================
