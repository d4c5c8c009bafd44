------------------------------ MODULE Statistics ------------------------------
(***************************************************************************)
(* The counters of all levels together, and MainMemory of                  *)
(* cachesim/cache.py, which has no counters of its own: its statistics are *)
(* computed from those of the last levels.                                 *)
(***************************************************************************)
EXTENDS Hierarchy, FiniteSetsExt

Plus(x, y)  == [count |-> x.count + y.count, byte |-> x.byte + y.byte]
Minus(x, y) == [count |-> x.count - y.count, byte |-> x.byte - y.byte]

\* mutant: hits of the victim cache are not subtracted
MemoryStats_NoVictims ==
  [loads  |-> stats[LastLoad]["MISS"], stores |-> stats[LastStore]["EVICT"]]

\* MainMemory.stats: misses of the last level that loads, less the hits in its
\* victim cache, and evictions of the last level that stores.
MemoryStats ==
  LET miss    == stats[LastLoad]["MISS"]
      victims == Cache[LastLoad].victims_to
  IN  [loads  |-> IF victims = None THEN miss ELSE Minus(miss, stats[victims]["HIT"]),
       stores |-> stats[LastStore]["EVICT"]]

Total(S, k) ==
  [count |-> MapThenSumSet(LAMBDA c : stats[c][k].count, S),
   byte  |-> MapThenSumSet(LAMBDA c : stats[c][k].byte, S)]

-----------------------------------------------------------------------------
\* Every eviction of a level is a store to the level below or to main memory,
\* and no other store reaches these: nothing is counted twice or dropped, at
\* any moment of any call, although the two counters are updated in different
\* functions (backend.c:245-303, 461, 524).
EvictsAreStoresBelow ==
  walk.job # "reset_stats" =>
    Total(Levels, "EVICT") = Plus(Total(Levels \ {FirstLevel}, "STORE"), memory["stores"])

\* A load of a lower level is exactly one line: between two calls its LOAD
\* counter is HIT plus MISS, in number and in bytes.
LoadsHitOrMiss ==
  Idle => \A c \in Levels \ {FirstLevel} :
    stats[c]["LOAD"] = Plus(stats[c]["HIT"], stats[c]["MISS"])

\* The numbers printed for main memory are the accesses that went past the
\* last level (README.rst:69 "each row refers to one memory-level").
MemoryStatsExact ==
  Idle => \A k \in {"loads", "stores"} : MemoryStats[k] = memory[k]

\* "load stats will equal hit stats in victim caches and misses should always
\* be zero" (README.rst:75).
VictimLoadsHit ==
  Idle => \A c \in VictimCaches \ {None} :
    /\ stats[c]["LOAD"] = stats[c]["HIT"]
    /\ stats[c]["MISS"] = [count |-> 0, byte |-> 0]

\* reset_stats (cache.py:101 "in all cache levels") leaves no counter behind.
ResetReachesAll ==
  [][WalkEnd /\ walk.job = "reset_stats" => \A c \in Levels : stats[c] = Zero]_vars
=============================================================================
