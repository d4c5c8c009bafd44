------------------------------ MODULE Hierarchy ------------------------------
(***************************************************************************)
(* The cache hierarchy simulated by cachesim/backend.c: Cache__load,       *)
(* Cache__store and Cache__inject, their effects on every level, and the   *)
(* calls CacheSimulator (cachesim/cache.py) offers on top of them.         *)
(*                                                                         *)
(* The program is single threaded and recursive: a load, a store or an     *)
(* injection of one level calls the loads, stores and injections of other  *)
(* levels half-way through its own work.  The model makes the recursion    *)
(* explicit: `stack' holds one frame per active C function (and per line   *)
(* loop in it), only the top frame makes progress, and one step is the     *)
(* work between two calls.  What a frame still has to do when a callee     *)
(* returns is therefore visible in the state, and the invariants speak     *)
(* about hierarchies caught in the middle of an operation.                 *)
(***************************************************************************)
EXTENDS Integers, Sequences

CONSTANTS
  NumLevels,  \* number of Cache objects; links lead to greater numbers only
  Cache,      \* [level -> configuration], the read-only part of struct Cache
  LastLoad,   \* MainMemory.last_level_load
  LastStore,  \* MainMemory.last_level_store
  Ranges,     \* the address ranges the user loads and stores
  MaxCalls    \* bound on the number of API calls

Levels     == 1..NumLevels
None       == 0               \* NULL in C, None in Python
FirstLevel == 1               \* CacheSimulator.first_level

Policies == {"FIFO", "LRU", "MRU", "RR"}

Configuration ==
  [sets : Nat \ {0}, ways : Nat \ {0}, cl_size : Nat \ {0},
   subblock_bits : Nat \ {0}, replacement_policy : Policies,
   write_back : BOOLEAN, write_allocate : BOOLEAN, write_combining : BOOLEAN,
   load_from : Nat, store_to : Nat, victims_to : Nat]

AddrRange == [addr : Nat, length : Nat]

\* A cache is constructed after the caches it refers to, so links are acyclic;
\* the three write policies and the restriction on write combining are the
\* assertions of Cache.__init__, those on the last levels are MainMemory's.  A
\* write-combining cache whose lines are not divided has no bitfield to write to.
ASSUME HierarchyAssumption ==
  /\ NumLevels \in Nat \ {0}
  /\ Cache \in [Levels -> Configuration]
  /\ \A c \in Levels :
       /\ \A l \in {Cache[c].load_from, Cache[c].store_to, Cache[c].victims_to} :
            l = None \/ l \in c + 1 .. NumLevels
       /\ Cache[c].write_allocate => Cache[c].write_back
       /\ Cache[c].write_combining => Cache[c].write_back /\ ~Cache[c].write_allocate
       /\ Cache[c].write_combining => Cache[c].subblock_bits > 1
  /\ LastLoad \in Levels /\ Cache[LastLoad].load_from = None
  /\ LastStore \in Levels /\ Cache[LastStore].store_to = None
  /\ Ranges \subseteq AddrRange
  /\ MaxCalls \in Nat

VARIABLES
  placement,  \* [level -> [set -> [way -> entry]]], Cache.placement
  bits,       \* [level -> the set bits of Cache.subblock_bitfield, flat]
  stats,      \* [level -> counters], the five struct stats of a Cache
  stack,      \* frames of the active C functions, the running one last
  walk,       \* a loop of CacheSimulator over levels(), if one is active
  memory,     \* history: accesses that went past the last level
  owed,       \* history: bytes the user stored that memory has not received
  calls       \* number of API calls made

vars == <<placement, bits, stats, stack, walk, memory, owed, calls>>

-----------------------------------------------------------------------------
(* Lines, sets and ranges (backend.c:109-145). *)

Smaller(a, b) == IF a < b THEN a ELSE b
Larger(a, b)  == IF a > b THEN a ELSE b

Sets(c) == 0 .. Cache[c].sets - 1
Ways(c) == 0 .. Cache[c].ways - 1

ClId(c, addr) == addr \div Cache[c].cl_size
SetId(c, cl)  == cl % Cache[c].sets

Bytes(range) == range.addr .. range.addr + range.length - 1

\* mutant: the line number taken for an address
LineRange_IdAsAddr(c, cl) == [addr |-> cl, length |-> Cache[c].cl_size]

LineRange(c, cl) == [addr |-> cl * Cache[c].cl_size, length |-> Cache[c].cl_size]

\* mutant: one byte too few, as __range_from_addrs has it
ClipRange_Short(c, cl, range) ==
  LET start == Larger(cl * Cache[c].cl_size, range.addr)
  IN  [addr |-> start, length |-> Smaller(Cache[c].cl_size, range.length) - 1]

\* The part of range that a write-through store of line cl hands on.
ClipRange(c, cl, range) ==
  LET start == Larger(cl * Cache[c].cl_size, range.addr)
      end   == range.addr + range.length
  IN  [addr   |-> start,
       length |-> IF start + Cache[c].cl_size < end THEN Cache[c].cl_size
                                                    ELSE end - start]

\* mutants: the last byte is forgotten; the byte after it is included
LastCl_Short(c, range) == ClId(c, range.addr + range.length - 2)
LastCl_Long(c, range)  == ClId(c, range.addr + range.length)

LastCl(c, range) == ClId(c, range.addr + range.length - 1)

-----------------------------------------------------------------------------
(* The ways of a set are a queue, youngest first. *)

Entry == [cl_id : Nat, dirty : BOOLEAN, invalid : BOOLEAN]

Holds(e, cl) == ~e.invalid /\ e.cl_id = cl

\* mutant: the search stops before the last way
Location_LastWayMissed(c, cl) ==
  LET hits == {w \in Ways(c) \ {Cache[c].ways - 1} :
                 Holds(placement[c][SetId(c, cl)][w], cl)}
  IN  IF hits = {} THEN -1 ELSE CHOOSE w \in hits : \A v \in hits : w <= v

\* The first way of its set that holds line cl of cache c, -1 if none does.
Location(c, cl) ==
  LET hits == {w \in Ways(c) : Holds(placement[c][SetId(c, cl)][w], cl)}
  IN  IF hits = {} THEN -1 ELSE CHOOSE w \in hits : \A v \in hits : w <= v

\* mutant: the last of the moving entries is overwritten by its neighbour
PushFront_Short(q, k, e) ==
  [w \in DOMAIN q |-> IF w = 0 THEN e ELSE IF w < k THEN q[w - 1] ELSE q[w]]

\* Ways 0..k-1 of queue q move back by one and e takes the front.
PushFront(q, k, e) ==
  [w \in DOMAIN q |-> IF w = 0 THEN e ELSE IF w <= k THEN q[w - 1] ELSE q[w]]

BitBase(c, s, w) == (s * Cache[c].ways + w) * Cache[c].subblock_bits

SlotBits(c, s, w) == BitBase(c, s, w) .. BitBase(c, s, w) + Cache[c].subblock_bits - 1

\* The bits of ways 0..k-1 move back with their lines; those of way 0 stay.
PushBits(c, s, k) ==
  IF ~Cache[c].write_combining THEN bits[c]
  ELSE LET n     == Cache[c].subblock_bits
           first == BitBase(c, s, 0)
       IN  {b \in bits[c] : b < first + n \/ b >= first + (k + 1) * n}
             \cup {b + n : b \in {x \in bits[c] : first <= x /\ x < first + k * n}}

\* The bitfield as allocated.  The loop that is to clear all bits counts to
\* the number of bytes of the field, so only that many bits of the fresh memory
\* are cleared and the others have any value.
BitsOf(c)    == Cache[c].sets * Cache[c].ways * Cache[c].subblock_bits
FreshBits(c) ==
  IF Cache[c].write_combining
  THEN SUBSET ((BitsOf(c) + 7) \div 8 .. BitsOf(c) - 1)
  ELSE {{}}

-----------------------------------------------------------------------------
(* Replacement (backend.c:172-233). *)

Digit(n, k) == (n \div 2^k) % 2

\* The slots an injection may write: rand() & (ways - 1) for RR, which is any
\* number whose binary digits are among those of ways - 1.
ReplaceIdx(c) ==
  CASE Cache[c].replacement_policy \in {"FIFO", "LRU"} -> {0}
    [] Cache[c].replacement_policy = "MRU" -> {Cache[c].ways - 1}
    [] Cache[c].replacement_policy = "RR" ->
         {w \in Ways(c) : \A k \in Ways(c) : Digit(w, k) <= Digit(Cache[c].ways - 1, k)}

\* The entry that is treated as replaced when slot idx of queue q is chosen.
ReplaceEntry(c, q, idx) ==
  CASE Cache[c].replacement_policy \in {"FIFO", "LRU"} -> q[Cache[c].ways - 1]
    [] Cache[c].replacement_policy = "MRU" -> q[0]
    [] Cache[c].replacement_policy = "RR"  -> q[idx]

\* mutant: the end of the queue is overwritten, whatever slot is chosen
Injected_InPlace(c, q, idx, e) == [q EXCEPT ![Cache[c].ways - 1] = e]

\* The queue after e is injected.  The reordering loop of MRU
\* (i = 0; i > ways-1) never runs, so MRU and RR overwrite slot idx in place.
Injected(c, q, idx, e) ==
  IF Cache[c].replacement_policy \in {"FIFO", "LRU"}
  THEN PushFront(q, Cache[c].ways - 1, e)
  ELSE [q EXCEPT ![idx] = e]

InjectedBits(c, s) ==
  IF Cache[c].replacement_policy \in {"FIFO", "LRU"}
  THEN PushBits(c, s, Cache[c].ways - 1) ELSE bits[c]

\* Cache__inject stores the whole line non-temporally if none of the bits of
\* the slot it reports is set.
NonTemporalEvict(c, slot, after) ==
  Cache[c].write_combining /\ slot \cap after = {}

\* Cache.force_write_back does so if all of them are set.
NonTemporalFlush(c, slot) ==
  Cache[c].write_combining /\ slot \subseteq bits[c]

-----------------------------------------------------------------------------
(* Counters and frames. *)

Counters == {"LOAD", "STORE", "HIT", "MISS", "EVICT"}
Counter  == [count : Nat, byte : Nat]
Zero     == [k \in Counters |-> [count |-> 0, byte |-> 0]]

NoAccess == [k \in {"loads", "stores"} |-> [count |-> 0, byte |-> 0]]

Bump(st, c, k, n) ==
  [st EXCEPT ![c][k] = [count |-> @.count + 1, byte |-> @.byte + n]]

\* fn says which function, and which point of it, the frame stands for:
\*   load   Cache__load about to look up line cl
\*   fill   ... after the lower level delivered line cl
\*   store  Cache__store about to treat line cl
\*   write  ... with line cl at way loc (-1: not cached)
\*   inject Cache__inject of entry (cl, dirty) called on a victim cache
\*   credit Cache__inject after its victim cache returned
\*   flush  Cache.force_write_back at set cl, way loc
\*   clean  ... after the write-back of that slot
\* loc of a load frame is placement_idx, the value the function returns.
Functions_ == {"load", "fill", "store", "write", "inject", "credit", "flush", "clean"}

Frame ==
  [fn : Functions_, c : Levels, cl : Nat, range : AddrRange,
   nt : BOOLEAN, dirty : BOOLEAN, loc : Nat \cup {-1}]

LoadCall(c, range) ==
  [fn |-> "load", c |-> c, cl |-> ClId(c, range.addr), range |-> range,
   nt |-> FALSE, dirty |-> FALSE, loc |-> -1]

StoreCall(c, range, nt) ==
  [fn |-> "store", c |-> c, cl |-> ClId(c, range.addr), range |-> range,
   nt |-> nt, dirty |-> FALSE, loc |-> -1]

InjectCall(c, e) ==
  [fn |-> "inject", c |-> c, cl |-> e.cl_id, range |-> LineRange(c, e.cl_id),
   nt |-> FALSE, dirty |-> e.dirty, loc |-> -1]

CreditFrame(c) ==
  [fn |-> "credit", c |-> c, cl |-> 0, range |-> LineRange(c, 0),
   nt |-> FALSE, dirty |-> FALSE, loc |-> -1]

FlushCall(c) ==
  [fn |-> "flush", c |-> c, cl |-> 0, range |-> LineRange(c, 0),
   nt |-> FALSE, dirty |-> FALSE, loc |-> 0]

Top         == stack[Len(stack)]
Callers     == SubSeq(stack, 1, Len(stack) - 1)
Continue(f) == Append(Callers, f)

Running(fn) == stack # <<>> /\ Top.fn = fn

TopSet  == SetId(Top.c, Top.cl)
TopLine == Cache[Top.c].cl_size

\* mutant: the returned way is not used
Returned_Dropped(callers, loc) == callers

\* Cache__load returns placement_idx; only the write-allocate branch of
\* Cache__store looks at it.
Returned(callers, loc) ==
  IF callers # <<>> /\ callers[Len(callers)].fn = "write"
  THEN [callers EXCEPT ![Len(callers)].loc = loc]
  ELSE callers

\* An access that went past the last level, for the record.
Accessed(k, range) ==
  [memory EXCEPT ![k] = [count |-> @.count + 1, byte |-> @.byte + range.length]]

\* mutant: the callee does not count the store
PassDown_Uncounted(c, range, nt, st, callers) ==
  LET below == Cache[c].store_to IN
  IF below = None
  THEN /\ memory' = Accessed("stores", range)
       /\ owed'   = owed \ Bytes(range)
       /\ stats'  = st
       /\ stack'  = callers
  ELSE /\ stats'  = st
       /\ stack'  = Append(callers, StoreCall(below, range, nt))
       /\ UNCHANGED <<memory, owed>>

\* Cache c stores range one level down, after its own counters became st.
\* Past the last level there is no call: the bytes are in main memory.
PassDown(c, range, nt, st, callers) ==
  LET below == Cache[c].store_to IN
  IF below = None
  THEN /\ memory' = Accessed("stores", range)
       /\ owed'   = owed \ Bytes(range)
       /\ stats'  = st
       /\ stack'  = callers
  ELSE /\ stats'  = Bump(st, below, "STORE", range.length)
       /\ stack'  = Append(callers, StoreCall(below, range, nt))
       /\ UNCHANGED <<memory, owed>>

\* Cache c requests range from the level source: past the last level there is
\* no call, main memory hits every time.
Fetch(source, range, st, callers) ==
  IF source = None
  THEN /\ memory' = Accessed("loads", range)
       /\ stats'  = st
       /\ stack'  = callers
  ELSE /\ stats'  = Bump(st, source, "LOAD", range.length)
       /\ stack'  = Append(callers, LoadCall(source, range))
       /\ UNCHANGED memory

\* Cache__inject: entry e enters slot idx, and the replaced entry is written
\* back, delivered to the victim cache, or dropped.
Inject(c, e, idx, callers) ==
  LET s         == SetId(c, e.cl_id)
      old       == ReplaceEntry(c, placement[c][s], idx)
      writeBack == ~old.invalid /\ Cache[c].write_back /\ old.dirty
      deliver   == ~old.invalid /\ ~writeBack /\ Cache[c].victims_to # None
      slot      == SlotBits(c, s, idx)
      after     == InjectedBits(c, s)
      cleared   == IF Cache[c].write_combining /\ Cache[c].store_to # None
                   THEN after \ slot ELSE after
  IN  /\ placement' = [placement EXCEPT ![c][s] = Injected(c, @, idx, e)]
      /\ \/ /\ writeBack
            /\ bits' = [bits EXCEPT ![c] = cleared]
            /\ PassDown(c, LineRange(c, old.cl_id), NonTemporalEvict(c, slot, after),
                        Bump(stats, c, "EVICT", Cache[c].cl_size), callers)
         \/ /\ deliver
            /\ bits'  = [bits EXCEPT ![c] = after]
            /\ stack' = Append(Append(callers, CreditFrame(c)),
                               InjectCall(Cache[c].victims_to, old))
            /\ UNCHANGED <<stats, memory, owed>>
         \/ /\ ~writeBack /\ ~deliver
            /\ bits'  = [bits EXCEPT ![c] = after]
            /\ stack' = callers
            /\ UNCHANGED <<stats, memory, owed>>

-----------------------------------------------------------------------------
(* Cache__load, one line at a time. *)

Idle == stack = <<>> /\ walk.job = "none"

Init ==
  /\ placement = [c \in Levels |-> [s \in Sets(c) |-> [w \in Ways(c) |->
                    [cl_id |-> 0, dirty |-> FALSE, invalid |-> TRUE]]]]
  /\ bits \in [Levels -> UNION {FreshBits(c) : c \in Levels}]
  /\ \A c \in Levels : bits[c] \in FreshBits(c)
  /\ stats  = [c \in Levels |-> Zero]
  /\ stack  = <<>>
  /\ walk   = [job |-> "none", p |-> None, pending |-> <<>>]
  /\ memory = NoAccess
  /\ owed   = {}
  /\ calls  = 0

\* CacheSimulator.load; an iterable of addresses is a sequence of such calls.
Load(range) ==
  /\ Idle /\ calls < MaxCalls
  /\ stats' = Bump(stats, FirstLevel, "LOAD", range.length)
  /\ stack' = <<LoadCall(FirstLevel, range)>>
  /\ calls' = calls + 1
  /\ UNCHANGED <<placement, bits, walk, memory, owed>>

\* mutant: the line is copied to the front and stays where it was
LoadHit_Copied ==
  LET loc == Location(Top.c, Top.cl) IN
  /\ Running("load") /\ Top.cl <= LastCl(Top.c, Top.range)
  /\ loc # -1
  /\ stats' = Bump(stats, Top.c, "HIT", Smaller(TopLine, Top.range.length))
  /\ placement' = [placement EXCEPT ![Top.c][TopSet][0] = placement[Top.c][TopSet][loc]]
  /\ stack' = Continue([Top EXCEPT !.cl = @ + 1, !.loc = 0])
  /\ UNCHANGED <<bits, walk, memory, owed, calls>>

LoadHit ==
  LET loc == Location(Top.c, Top.cl)
      policy == Cache[Top.c].replacement_policy
  IN  /\ Running("load") /\ Top.cl <= LastCl(Top.c, Top.range)
      /\ loc # -1
      /\ stats' = Bump(stats, Top.c, "HIT", Smaller(TopLine, Top.range.length))
      /\ \/ /\ policy \in {"FIFO", "RR"}
            /\ stack' = Continue([Top EXCEPT !.cl = @ + 1, !.loc = Cache[Top.c].ways - 1])
            /\ UNCHANGED <<placement, bits>>
         \/ /\ policy \in {"LRU", "MRU"}
            /\ placement' = [placement EXCEPT ![Top.c][TopSet] = PushFront(@, loc, @[loc])]
            /\ bits'  = [bits EXCEPT ![Top.c] = PushBits(Top.c, TopSet, loc)]
            /\ stack' = Continue([Top EXCEPT !.cl = @ + 1, !.loc = 0])
      /\ UNCHANGED <<walk, memory, owed, calls>>

\* mutant: the victim cache is loaded from without looking whether it has the line
LoadMiss_AlwaysVictim ==
  LET victims == Cache[Top.c].victims_to
  IN  /\ Running("load") /\ Top.cl <= LastCl(Top.c, Top.range)
      /\ Location(Top.c, Top.cl) = -1
      /\ Fetch(IF victims # None THEN victims ELSE Cache[Top.c].load_from,
               LineRange(Top.c, Top.cl),
               Bump(stats, Top.c, "MISS", Smaller(TopLine, Top.range.length)),
               Continue([Top EXCEPT !.fn = "fill"]))
      /\ UNCHANGED <<placement, bits, walk, owed, calls>>

\* On a miss the victim cache is asked first, and only if it has the line is it
\* loaded from; otherwise the request goes to load_from.
LoadMiss ==
  LET victims   == Cache[Top.c].victims_to
      victimHit == victims # None /\ Location(victims, Top.cl) # -1
  IN  /\ Running("load") /\ Top.cl <= LastCl(Top.c, Top.range)
      /\ Location(Top.c, Top.cl) = -1
      /\ Fetch(IF victimHit THEN victims ELSE Cache[Top.c].load_from,
               LineRange(Top.c, Top.cl),
               Bump(stats, Top.c, "MISS", Smaller(TopLine, Top.range.length)),
               Continue([Top EXCEPT !.fn = "fill"]))
      /\ UNCHANGED <<placement, bits, walk, owed, calls>>

LoadFill ==
  /\ Running("fill")
  /\ \E idx \in ReplaceIdx(Top.c) :
       Inject(Top.c, [cl_id |-> Top.cl, dirty |-> FALSE, invalid |-> FALSE], idx,
              Continue([Top EXCEPT !.fn = "load", !.cl = @ + 1, !.loc = idx]))
  /\ UNCHANGED <<walk, calls>>

LoadReturn ==
  /\ Running("load") /\ Top.cl > LastCl(Top.c, Top.range)
  /\ stack' = Returned(Callers, Top.loc)
  /\ UNCHANGED <<placement, bits, stats, walk, memory, owed, calls>>

-----------------------------------------------------------------------------
(* Cache__store, one line at a time. *)

Store(range) ==
  /\ Idle /\ calls < MaxCalls
  /\ stats' = Bump(stats, FirstLevel, "STORE", range.length)
  /\ stack' = <<StoreCall(FirstLevel, range, FALSE)>>
  /\ owed'  = owed \cup Bytes(range)
  /\ calls' = calls + 1
  /\ UNCHANGED <<placement, bits, walk, memory>>

Storing == Running("store") /\ Top.cl <= LastCl(Top.c, Top.range)

Allocating == Cache[Top.c].write_allocate /\ ~Top.nt

\* Write-allocate miss: the line is loaded by this cache first, and the way it
\* ends up in is what that load returns.
StoreAllocate ==
  /\ Storing /\ Allocating /\ Location(Top.c, Top.cl) = -1
  /\ stats' = Bump(stats, Top.c, "LOAD", TopLine)
  /\ stack' = Append(Continue([Top EXCEPT !.fn = "write"]),
                     LoadCall(Top.c, LineRange(Top.c, Top.cl)))
  /\ UNCHANGED <<placement, bits, walk, memory, owed, calls>>

\* Miss without write-allocate in a write-back cache: the line enters dirty.
StoreInject ==
  /\ Storing /\ ~Allocating /\ Location(Top.c, Top.cl) = -1
  /\ Cache[Top.c].write_back
  /\ \E idx \in ReplaceIdx(Top.c) :
       Inject(Top.c, [cl_id |-> Top.cl, dirty |-> TRUE, invalid |-> FALSE], idx,
              Continue([Top EXCEPT !.fn = "write", !.loc = idx]))
  /\ UNCHANGED <<walk, calls>>

StoreLookup ==
  /\ Storing
  /\ \/ Location(Top.c, Top.cl) # -1
     \/ ~Allocating /\ ~Cache[Top.c].write_back
  /\ stack' = Continue([Top EXCEPT !.fn = "write", !.loc = Location(Top.c, Top.cl)])
  /\ UNCHANGED <<placement, bits, stats, walk, memory, owed, calls>>

\* The sub-blocks of line cl that the store touches, as bits of its way.  The
\* code numbers them by byte, whatever the size of a sub-block.
TouchedBits(f) ==
  LET base  == BitBase(f.c, SetId(f.c, f.cl), f.loc)
      line  == f.cl * Cache[f.c].cl_size
      start == Larger(f.range.addr, line)
      end   == Smaller(f.range.addr + f.range.length, line + Cache[f.c].cl_size)
  IN  {base + b : b \in start - line .. end - line - 1}

MarkTouched ==
  bits' = IF Cache[Top.c].write_combining
          THEN [bits EXCEPT ![Top.c] = @ \cup TouchedBits(Top)] ELSE bits

NextLine == [Top EXCEPT !.fn = "store", !.cl = @ + 1, !.loc = -1]

WriteHere == Cache[Top.c].write_back /\ Top.loc # -1

StoreDirty ==
  /\ Running("write") /\ WriteHere
  /\ MarkTouched
  /\ placement' = [placement EXCEPT ![Top.c][TopSet][Top.loc].dirty = TRUE]
  /\ stack' = Continue(NextLine)
  /\ UNCHANGED <<stats, walk, memory, owed, calls>>

\* Write-through, or the line is not cached: only a store to another level is
\* an EVICT, one that goes straight to memory is not counted.
StoreForward ==
  LET range == ClipRange(Top.c, Top.cl, Top.range) IN
  /\ Running("write") /\ ~WriteHere
  /\ MarkTouched
  /\ PassDown(Top.c, range, Top.nt,
              IF Cache[Top.c].store_to = None THEN stats
              ELSE Bump(stats, Top.c, "EVICT", range.length),
              Continue(NextLine))
  /\ UNCHANGED <<placement, walk, calls>>

StoreReturn ==
  /\ Running("store") /\ Top.cl > LastCl(Top.c, Top.range)
  /\ stack' = Callers
  /\ UNCHANGED <<placement, bits, stats, walk, memory, owed, calls>>

-----------------------------------------------------------------------------
(* Cache__inject called on a victim cache, and what its caller does after. *)

InjectVictim ==
  /\ Running("inject")
  /\ \E idx \in ReplaceIdx(Top.c) :
       Inject(Top.c, [cl_id |-> Top.cl, dirty |-> Top.dirty, invalid |-> FALSE],
              idx, Callers)
  /\ UNCHANGED <<walk, calls>>

\* mutant: only the evicting side counts the delivery
CreditVictim_OneSided ==
  /\ Running("credit")
  /\ stats' = Bump(stats, Top.c, "EVICT", TopLine)
  /\ stack' = Callers
  /\ UNCHANGED <<placement, bits, walk, memory, owed, calls>>

CreditVictim ==
  /\ Running("credit")
  /\ stats' = Bump(Bump(stats, Top.c, "EVICT", TopLine),
                   Cache[Top.c].victims_to, "STORE", TopLine)
  /\ stack' = Callers
  /\ UNCHANGED <<placement, bits, walk, memory, owed, calls>>

-----------------------------------------------------------------------------
(* Cache.force_write_back: every slot of every set in turn. *)

Slot == placement[Top.c][Top.cl][Top.loc]

\* mutants: one way too many; only the first way of each set; never the next set
NextSlot_Long(f) ==
  IF f.loc < Cache[f.c].ways THEN [f EXCEPT !.fn = "flush", !.loc = @ + 1]
  ELSE [f EXCEPT !.fn = "flush", !.cl = @ + 1, !.loc = 0]
NextSlot_FirstWay(f) == [f EXCEPT !.fn = "flush", !.cl = @ + 1]
NextSlot_SameSet(f)  ==
  [f EXCEPT !.fn = "flush", !.loc = (@ + 1) % Cache[f.c].ways]

NextSlot(f) ==
  IF f.loc < Cache[f.c].ways - 1 THEN [f EXCEPT !.fn = "flush", !.loc = @ + 1]
  ELSE [f EXCEPT !.fn = "flush", !.cl = @ + 1, !.loc = 0]

FlushSlot ==
  LET slot == SlotBits(Top.c, Top.cl, Top.loc) IN
  /\ Running("flush") /\ Top.cl \in Sets(Top.c)
  /\ \/ /\ ~Slot.invalid /\ Slot.dirty
        /\ bits' = IF Cache[Top.c].write_combining /\ Cache[Top.c].store_to # None
                   THEN [bits EXCEPT ![Top.c] = @ \ slot] ELSE bits
        /\ PassDown(Top.c, LineRange(Top.c, Slot.cl_id), NonTemporalFlush(Top.c, slot),
                    Bump(stats, Top.c, "EVICT", TopLine),
                    Continue([Top EXCEPT !.fn = "clean"]))
     \/ /\ Slot.invalid \/ ~Slot.dirty
        /\ stack' = Continue(NextSlot(Top))
        /\ UNCHANGED <<bits, stats, memory, owed>>
  /\ UNCHANGED <<placement, walk, calls>>

FlushClean ==
  /\ Running("clean")
  /\ placement' = [placement EXCEPT ![Top.c][Top.cl][Top.loc].dirty = FALSE]
  /\ stack' = Continue(NextSlot(Top))
  /\ UNCHANGED <<bits, stats, walk, memory, owed, calls>>

FlushReturn ==
  /\ Running("flush") /\ Top.cl \notin Sets(Top.c)
  /\ stack' = Callers
  /\ UNCHANGED <<placement, bits, stats, walk, memory, owed, calls>>

-----------------------------------------------------------------------------
(* CacheSimulator's loops over levels(): force_write_back, reset_stats and  *)
(* mark_all_invalid, which ends with reset_stats.                           *)

Jobs == {"force_write_back", "reset_stats", "mark_all_invalid"}

StartWalk(job) ==
  /\ Idle /\ calls < MaxCalls
  /\ walk'  = [job |-> job, p |-> FirstLevel, pending |-> <<>>]
  /\ owed'  = IF job = "mark_all_invalid" THEN {} ELSE owed  \* dropped on purpose
  /\ calls' = calls + 1
  /\ UNCHANGED <<placement, bits, stats, stack, memory>>

\* mutant: store paths of their own are left out
Yield_NoStoreTo(p) ==
  LET k == Cache[p] IN
  <<p>> \o (IF k.victims_to # None /\ k.victims_to # k.load_from
            THEN <<k.victims_to>> ELSE <<>>)

\* What levels() yields for one cache on the load_from chain.
Yield(p) ==
  LET k == Cache[p] IN
  <<p>> \o (IF k.victims_to # None /\ k.victims_to # k.load_from
            THEN <<k.victims_to>> ELSE <<>>)
        \o (IF /\ k.store_to # None
               /\ k.store_to # k.load_from /\ k.store_to # k.victims_to
            THEN <<k.store_to>> ELSE <<>>)

Walking == stack = <<>> /\ walk.job # "none"

WalkOn ==
  /\ Walking /\ walk.pending = <<>> /\ walk.p # None
  /\ walk' = [walk EXCEPT !.p = Cache[@].load_from, !.pending = Yield(walk.p)]
  /\ UNCHANGED <<placement, bits, stats, stack, memory, owed, calls>>

Visiting(job) == Walking /\ walk.pending # <<>> /\ walk.job = job

Visited == [walk EXCEPT !.pending = Tail(@)]

VisitFlush ==
  /\ Visiting("force_write_back")
  /\ stack' = <<FlushCall(Head(walk.pending))>>
  /\ walk'  = Visited
  /\ UNCHANGED <<placement, bits, stats, memory, owed, calls>>

\* mutant: evictions are not reset
VisitReset_KeepsEvict ==
  /\ Visiting("reset_stats")
  /\ stats' = [stats EXCEPT ![Head(walk.pending)] =
                [Zero EXCEPT !["EVICT"] = stats[Head(walk.pending)]["EVICT"]]]
  /\ walk'  = Visited
  /\ UNCHANGED <<placement, bits, stack, memory, owed, calls>>

VisitReset ==
  /\ Visiting("reset_stats")
  /\ stats' = [stats EXCEPT ![Head(walk.pending)] = Zero]
  /\ walk'  = Visited
  /\ UNCHANGED <<placement, bits, stack, memory, owed, calls>>

\* mutant: the loop counts to the number of sets, not of entries
VisitInvalidate_OneWay ==
  /\ Visiting("mark_all_invalid")
  /\ placement' = [placement EXCEPT ![Head(walk.pending)] =
                     [s \in DOMAIN @ |-> [@[s] EXCEPT ![0].invalid = TRUE]]]
  /\ walk' = Visited
  /\ UNCHANGED <<bits, stats, stack, memory, owed, calls>>

VisitInvalidate ==
  /\ Visiting("mark_all_invalid")
  /\ placement' = [placement EXCEPT ![Head(walk.pending)] =
                     [s \in DOMAIN @ |-> [w \in DOMAIN @[s] |->
                        [@[s][w] EXCEPT !.invalid = TRUE]]]]
  /\ walk' = Visited
  /\ UNCHANGED <<bits, stats, stack, memory, owed, calls>>

WalkDone == Walking /\ walk.pending = <<>> /\ walk.p = None

WalkEnd ==
  /\ WalkDone
  /\ walk' = IF walk.job = "mark_all_invalid"
             THEN [walk EXCEPT !.job = "reset_stats", !.p = FirstLevel]
             ELSE [walk EXCEPT !.job = "none"]
  /\ memory' = IF walk.job = "reset_stats" THEN NoAccess ELSE memory
  /\ UNCHANGED <<placement, bits, stats, stack, owed, calls>>

-----------------------------------------------------------------------------
Call ==
  \/ \E range \in Ranges : Load(range) \/ Store(range)
  \/ \E job \in Jobs : StartWalk(job)

LoadStep   == LoadHit \/ LoadMiss \/ LoadFill \/ LoadReturn
StoreStep  == \/ StoreAllocate \/ StoreInject \/ StoreLookup
              \/ StoreDirty \/ StoreForward \/ StoreReturn
VictimStep == InjectVictim \/ CreditVictim
FlushStep  == FlushSlot \/ FlushClean \/ FlushReturn
WalkStep   == WalkOn \/ VisitFlush \/ VisitReset \/ VisitInvalidate \/ WalkEnd

Step == LoadStep \/ StoreStep \/ VictimStep \/ FlushStep \/ WalkStep

Next == Call \/ Step

Spec == Init /\ [][Next]_vars

\* Once a call is under way the interpreter runs it to its end.
FairSpec == Spec /\ WF_vars(Step)

-----------------------------------------------------------------------------
FrameOK(f) ==
  /\ f.fn \in {"flush", "clean"} => f.loc \in Ways(f.c)
  /\ f.fn = "clean"  => f.cl \in Sets(f.c)
  /\ f.fn = "write"  => f.cl <= LastCl(f.c, f.range)
  /\ f.fn = "credit" => Cache[f.c].victims_to # None

FramesOK(st) == st \in Seq(Frame) /\ \A i \in 1..Len(st) : FrameOK(st[i])

PlacementOK ==
  /\ placement = [c \in Levels |-> placement[c]]
  /\ \A c \in Levels : placement[c] \in [Sets(c) -> [Ways(c) -> Entry]]

CounterTable == [Levels -> [Counters -> Counter]]
AccessTable  == [{"loads", "stores"} -> Counter]
WalkState    == [job : Jobs \cup {"none"}, p : Levels \cup {None}, pending : Seq(Levels)]

\* Every variable has its type; frames point into the cache they work on.
TypeOK ==
  /\ PlacementOK
  /\ bits \in [Levels -> SUBSET Int]
  /\ stats \in CounterTable
  /\ FramesOK(stack)
  /\ walk \in WalkState
  /\ memory \in AccessTable
  /\ owed \subseteq Nat
  /\ calls \in 0..MaxCalls

VictimCaches == {Cache[c].victims_to : c \in Levels}

\* No two ways of a set hold the same line, except in a victim cache: every
\* path to Cache__inject has looked for the line, and the calls made between
\* the look-up and the injection do not come back to this cache.
NoDuplicateLines ==
  \A c \in Levels \ VictimCaches : \A s \in Sets(c) : \A v, w \in Ways(c) :
    LET e == placement[c][s][v]
    IN  ~e.invalid /\ Holds(placement[c][s][w], e.cl_id) => v = w

\* The way a store is about to mark is the way its line is in (backend.c:484,
\* 495): the value that went through the returns of Cache__load and
\* Cache__inject is still right after everything these have called.
WriteHitsItsLine == Running("write") => Top.loc = Location(Top.c, Top.cl)

DirtyIn(c, b) ==
  \E w \in Ways(c) : LET e == placement[c][SetId(c, ClId(c, b))][w]
                     IN  Holds(e, ClId(c, b)) /\ e.dirty

\* Bytes frame f still has to store in its cache.
InFlight(f) ==
  IF f.fn \in {"store", "write"} THEN {b \in Bytes(f.range) : ClId(f.c, b) >= f.cl}
                                 ELSE {}

\* No stored byte is forgotten on its way down: until it reaches main memory
\* it is in a dirty line or in a store under way.  Replacement, hits, victim
\* deliveries, write-through and force_write_back must all keep to that.
NoLostWrites ==
  \A b \in owed : \/ \E c \in Levels : DirtyIn(c, b)
                  \/ \E i \in 1..Len(stack) : b \in InFlight(stack[i])

\* A line that force_write_back has handed down is the store's already, although
\* its dirty bit is cleared when that returns.
HandedDown(c, s, w) ==
  \E i \in 1..Len(stack) :
    stack[i].fn = "clean" /\ stack[i].c = c /\ stack[i].cl = s /\ stack[i].loc = w

DirtyBytes(c) ==
  UNION {{b \in Bytes(LineRange(c, placement[c][s][w].cl_id)) :
            /\ placement[c][s][w].dirty /\ ~placement[c][s][w].invalid
            /\ ~HandedDown(c, s, w)} : s \in Sets(c), w \in Ways(c)}

WB == INSTANCE WriteBuffer WITH
  pending  <- UNION ({DirtyBytes(c) : c \in Levels}
                     \cup {InFlight(stack[i]) : i \in 1..Len(stack)}),
  received <- memory["stores"].count

\* The dirty lines of all levels and the stores under way are together a buffer
\* in front of main memory: whatever moves between the levels, in pieces, lines
\* of other sizes or twice, bytes leave it only when memory receives a store
\* (backend.c:245-303, 461-560, 783-827).
ImplementsWriteBuffer == WB!Spec

\* When Cache__load goes on after its own request (backend.c:445), the line is
\* in the victim cache or in load_from: the callee has not evicted again what
\* it fetched.
FillFindsLineBelow ==
  LET k    == Cache[Top.c]
      addr == Top.cl * k.cl_size
      In(d) == Location(d, ClId(d, addr)) # -1
  IN  Running("fill") => \/ k.victims_to # None /\ In(k.victims_to)
                         \/ k.load_from = None
                         \/ In(k.load_from)

\* Valid lines stand before invalid slots in the queues of FIFO and LRU, so a
\* set is filled before a line is replaced (backend.c:172-202).
FillsBeforeReplacing ==
  \A c \in Levels : Cache[c].replacement_policy \in {"FIFO", "LRU"} =>
    \A s \in Sets(c) : \A v, w \in Ways(c) :
      v < w /\ ~placement[c][s][w].invalid => ~placement[c][s][v].invalid

AllClean   == \A c \in Levels : \A s \in Sets(c) : \A w \in Ways(c) :
                placement[c][s][w].invalid \/ ~placement[c][s][w].dirty
AllInvalid == \A c \in Levels : \A s \in Sets(c) : \A w \in Ways(c) :
                placement[c][s][w].invalid

\* force_write_back ("Write all pending dirty lines back", cache.py:110) leaves
\* no dirty line in any cache and no stored byte outside main memory.
FlushReachesMemory ==
  [][WalkEnd /\ walk.job = "force_write_back" => AllClean /\ owed = {}]_vars

\* mark_all_invalid (cache.py:200) empties every cache.
InvalidateReachesAll ==
  [][WalkEnd /\ walk.job = "mark_all_invalid" => AllInvalid]_vars

\* Every call of the API comes to its end, whatever chain of loads, stores and
\* injections it sets off.
CallsReturn == ~Idle ~> Idle

-----------------------------------------------------------------------------
(* What the documentation says and the code does not do. *)

\* "incomplete cacheline, thus write-allocate is necessary" (backend.c:265, 809):
\* a line goes down non-temporally only if all its bytes have been stored.
NonTemporalOnlyWhole == Storing /\ Top.nt => Bytes(Top.range) \subseteq owed

\* Every byte of line cl has been stored to cache c and is still there, and in no
\* other dirty line: the owed bytes are those the user stored, bit or no bit.
WrittenWhole(c, cl) ==
  \A b \in Bytes(LineRange(c, cl)) :
    b \in owed /\ DirtyIn(c, b) /\ \A d \in Levels \ {c} : ~DirtyIn(d, b)

\* "write-combining should eliminate the write-allocate in L2" (tests/test.py:641),
\* which "incomplete cacheline, thus write-allocate is necessary" (backend.c:265)
\* reserves for incomplete lines: a line of which every byte was written leaves a
\* write-combining cache non-temporally when another line replaces it.
WholeLinesNonTemporal ==
  [][/\ StoreInject
     /\ Cache[Top.c].write_combining
     /\ Len(stack') > Len(stack)
     /\ WrittenWhole(Top.c, ClId(Top.c, stack'[Len(stack')].range.addr))
     => stack'[Len(stack')].nt]_vars
=============================================================================
