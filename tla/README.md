# pycachesim in TLA+

This directory models [pycachesim](../src/README.rst), a simulator of cache
hierarchies: which of a program's loads and stores hit in which level, what is
evicted, and how many bytes travel between levels. The simulator is its own
subject here. Most of it is single threaded and nothing in it talks to a
network; what makes it hard is that every access is a recursion through several
caches that change each other half-way through their own work, along three
kinds of links (`load_from`, `store_to`, `victims_to`), and that the result is a
set of counters nobody can check by hand.

## The system

| component | state | operations | talks to |
|---|---|---|---|
| **Cache core** (`cachesim/backend.c:109-865`) | per level: `placement` (sets × ways of `cl_id`, `dirty`, `invalid`, the age kept in the order), `subblock_bitfield`, five counters | `Cache__load`, `Cache__store`, `Cache__inject`, `force_write_back`, `reset_stats`, `mark_all_invalid`; `contains` and `count_invalid_entries` only read | calls the same functions of the caches it is linked to |
| **Python binding** (`backend.c:592-790`) | the position in a list of addresses, the interpreter's exception | `load`, `iterload`, `store`, `iterstore`, `loadstore` | `Cache__load` and `Cache__store` of the first level |
| **CacheSimulator** (`cache.py:23-233`) | the first level | `load`, `store`, `loadstore`; loops over `levels()` for write-back, reset, invalidation, printing | the binding of the first level; every level in the loops |
| **MainMemory** (`cache.py:423-505`) | the last level that loads and the last that stores | `stats`, derived from the counters of these | reads their counters |
| **Cache, from_dict** (`cache.py:48-98`, `243-420`) | configuration and links, a copy of the backend's | construction with its assertions, the setters, `CacheSimulator.from_dict` | the backend object |
| **Cache definition file** (`backend.c:1128-1433`) | lines, tokens, caches read so far, link names | `get_cacheSim_from_file` | fills in the same structures for C programs |
| **Pin tool** (`pintool/cachesim_itf.cpp`) | the marker's flag, the addresses of the marker calls | callbacks for images, instructions and accesses, with and without check; `Fini` | `Cache__load`, `Cache__store` of a hierarchy from a file |
| **printStats, dealloc_cacheSim** (`backend.c:1111-1126`, `1437-1453`) | – | output and release | – |
| **CacheVisualizer** (`cache.py:508-585`) | – | writes placements to VTK files | reads placements |
| validation, examples, tests, packaging | – | scripts | – |

### What is hard, and what has to be right

* *Values used after a recursion.* `Cache__store` marks way `location` dirty
  after a load that went through other levels; `Cache__load` injects a line it
  looked for before its own request. Right means: the way is still the way of
  that line (`WriteHitsItsLine`), the line is not there twice
  (`NoDuplicateLines`), and the level below has not lost it again
  (`FillFindsLineBelow`).
* *Order of steps.* An injection first overwrites, then stores or delivers what
  it overwrote. At no moment may a stored byte be nowhere (`NoLostWrites`), and
  bytes leave the caches only with a store to memory (`ImplementsWriteBuffer`).
* *Two counters for one event* in different functions, one of them after a
  recursion (`EvictsAreStoresBelow`, `LoadsHitOrMiss`, `VictimLoadsHit`), and
  main memory's numbers derived from others (`MemoryStatsExact`).
* *Loops over the hierarchy* that must reach every cache and, for write-back, in
  the right order (`FlushReachesMemory`, `InvalidateReachesAll`,
  `ResetReachesAll`).
* *Long sequences of legal calls*: the order of a set is its replacement state,
  and a wrong move shows several accesses later (`FillsBeforeReplacing`).
* *Lists that fail half-way*: the work before the error is done, an address
  that was not converted is accessed as -1, an iterator that breaks off looks like
  one that has ended, and the exception has to stay set through all that comes after
  (`AppliedInOrder`, `StrayOnlyAfterError`, `ErrorsSurface`).
* *Two descriptions of one hierarchy*, a file and a dictionary, read by code
  that shares nothing (`ImplementsWiring`, `DictImplementsWiring`,
  `ReadersAgree`, `Connected`).
* *One flag for all threads* in the Pin tool, and callbacks whose order is that
  of their insertion (`FlagFollowsFlow`, `FollowCountsMarked`,
  `DefaultCountsBetween`).
* *Boundaries*: first and last line of a range, clipped ranges, the last way,
  the random way, sub-block bits.
* *Termination* of the recursion (`CallsReturn`), of requests
  (`RequestsReturn`), of the file parser (`Finishes`) and of the loops of
  `from_dict` (`DictFinishes`).

`PROJECT.json` lists these hazards at their lines.

## The modules

    MCHierarchy -> Statistics -> Hierarchy -> WriteBuffer
    MCRequests  -> Requests   -> Hierarchy
    MCReaders   -> Readers    -> ConfigFile -> Wiring
                              -> FromDict   -> Wiring
    MCPinTool   -> PinTool

    StatisticsProofs -> Statistics, BufferProofs
    BufferProofs -> WriteProofs -> LineProofs -> HierarchyProofs -> Hierarchy
    RequestsProofs -> Requests, WriteProofs
    ReadersProofs -> Readers
    PinToolProofs -> PinTool

An arrow leads to a module that is extended or instantiated.

**`Hierarchy`** is the core. `Cache` is a constant: a record per level with the
fields of `struct Cache` that are not changed by accesses. `HierarchyAssumption`
states what the constructors enforce; links lead to greater level numbers
because a cache is constructed after the caches it refers to.

The recursion is explicit. `stack` holds a frame for every active C function,
with the line (`cl`), the range and the local value (`loc`) that survive its
calls. Only the top frame moves, and one step is the code between two calls:

| frame | point in the code | actions |
|---|---|---|
| `load` | loop head of `Cache__load` | `LoadHit`, `LoadMiss`, `LoadReturn` |
| `fill` | after the request below returned (445) | `LoadFill` |
| `store` | loop head of `Cache__store` | `StoreAllocate`, `StoreInject`, `StoreLookup`, `StoreReturn` |
| `write` | after the line was made available (498) | `StoreDirty`, `StoreForward` |
| `inject` | `Cache__inject` called on a victim cache (294) | `InjectVictim` |
| `credit` | after that call (295) | `CreditVictim` |
| `flush`, `clean` | slot of `force_write_back`, and after its store | `FlushSlot`, `FlushClean`, `FlushReturn` |

`Inject` is the body of `Cache__inject`; where the caller is not another cache's
injection it is part of the caller's action, since no other call lies between.
`walk` is the generator `levels()` with the job that consumes it.
`Load`, `Store` and `StartWalk` are the calls a program may make.

`owed` and `memory` are history: the bytes the program stored that have not
reached main memory, and the accesses that went past a last level. Nothing the
simulator does depends on them or on the counters. `mark_all_invalid` clears
`owed`, because dropping dirty lines is what it is for.

Two places where the code leaves a value open are choices: the random way of RR
(`rand() & (ways - 1)`, a subset of the ways unless their number is a power of
two) and the part of a fresh bitfield that Cache_init does not clear
(`FreshBits`).

**`WriteBuffer`** is what a hierarchy promises for stores, without caches: bytes
enter a buffer, and leave it only with a store that memory receives, or when the
user asks for everything to be forgotten. `Hierarchy` implements it
(`ImplementsWriteBuffer`): the buffer is the bytes of all dirty lines and of the
stores under way, except those of a slot that `force_write_back` has handed on
and not yet marked clean (`HandedDown`).

**`Statistics`** adds MainMemory and the properties of the counters.

**`Requests`** is the binding on top of `Hierarchy`. A request is a list of
items, each with loads and stores; `at` is the place in the loops of
`loadstore` (`iterload` and `iterstore` are its halves), and `NextLoad`,
`NextStore` begin an access, which runs in `Hierarchy` until the loop goes on.
The conversion of an address is not checked where it is made: the access goes to
`Stray`, and the exception (`failed`) surfaces when the binding returns. An iterator
that raises after some elements (`breaks`) ends its loop like one that has no more,
and its exception stays set too. An item that is no pair, or whose loads or stores
are no sequence, ends the request at once, and so does an iterator over the items
that raises. `faulty` is history: whether anything is wrong with the list.
The iterators are those that leave an exception alone when they end, as those of
lists and tuples do. One that is written in Python runs while the exception is set
and may end with another in its place, which is then cleared; what it does is up to
the interpreter and not modelled.

**`ConfigFile`** is the parser of the C API, a step per line, token and linked
cache. Names and numbers are naturals, and tokens are read as key and value;
what `strtok_r` does to the characters is left out. A token without a value is
the one thing the parser never gets past (`ComplainAboutToken`). A file with
fewer caches than it announces leads to pointers nobody has set; the model ends
in `pc = "undefined"` there. A line of nothing but commas has no token either: the code
takes it for a cache without any key and exits, where an empty sequence of tokens
stands for an empty line or a comment. Such lines are left out.

**`FromDict`** is `CacheSimulator.from_dict`: `CreateCache` with the assertions of
the constructor, `Connect` with those of one setter at a time, `FindFirstLevel`,
and the two loops that follow `load_from` and `store_to` to the last levels. An
exception leaves no hierarchy (`pc = "raised"`).

**`Wiring`** is what such a reader promises: names become links, the only cache
nobody refers to is the first level, everything else is turned down. Where several
caches have a name, it leaves open which of them a link by that name leads to: the
file reader takes the last, a dictionary has one. `ConfigFile`
and `FromDict` implement it (`ImplementsWiring`, `DictImplementsWiring`), under
mappings that read the whole description at once (`Described`) and hide the
reading (`Outcome`).

**`Readers`** writes one description down as a file and as a dictionary
(`AsDict`), lets both functions read it, and compares the links of every cache and
the first level (`ReadersAgree`). The other fields are not compared; their defaults
differ between the two (`write_back`, for one, is on for `Cache.__init__` and off in
a file that does not name it).

**`PinTool`** is the tool around a program. A program is a sequence of
instructions of a few kinds with jumps, calls and threads. Pin and the program
are external; Pin's rule that inserted calls run before their instruction in
the order of insertion is the `stage` of a thread: the marker's call, the calls
for reading and for writing, then the instruction (`Execute`). A counted access
is two steps, because the counter of the simulator is read and written without
protection. What an instruction reads and writes (`Reads`, `Writes`, in numbers of
accesses) is the program's, and the history (`marked`, `between`) counts that; what
Pin says of it (`IsMemoryRead`, `IsStandardMemop`) and what the tool makes of that
(`ReadCall`, `WriteCall`, `Instrumented`, `Counts`) is kept apart. The tool inserts
one call for the reads of an instruction and none for a gather, so with such
instructions it counts fewer reads than the program makes.

**`MCHierarchy`**, **`MCRequests`**, **`MCReaders`**, **`MCPinTool`** give the
constants their values, and the eight modules named `...Proofs` hold the proofs.

Definitions with a name such as `NextSlot_Long`, marked "mutant", are wrong on
purpose: they are the ways the neighbouring definition could plausibly be
wrong, each caught by a property.

## The runs

| run | instance | shows |
|---|---|---|
| `TwoLevels` | LRU over FIFO, write-back, write-allocate, two ways each | types, no duplicates, stores hit their line, sets fill before they replace, loads are hits or misses; write-back, invalidation and reset reach everything; the caches are a write buffer |
| `Skylake` | write-through L1, L2 with victim L3 (`tests/test.py:682`) | no duplicates, no lost write, balanced counters, exact memory counters, victim loads hit |
| `Bulldozer` | write-through L1, write-combining cache beside L2, victim L3 (`tests/test.py:552`), stores of half lines | no lost write on split paths, stores hit their line, fills find it below, balanced evictions, write-back reaches memory |
| `MruRandom` | write-through MRU over RR with three ways and wider lines; ranges within, across and over lines | no duplicates, fills find their line below, the caches are a write buffer |
| `Requests` | lists of up to two items and three addresses on the Skylake hierarchy, with faults at every place: elements that are no addresses, items that are no pairs, iterators that break off | accesses in order, an exception if and only if the list is faulty, requests and calls return |
| `Readers` | descriptions of up to three caches: all links towards greater names in two orders, cycles, two caches of one name, names that do not exist, lines of several widths, unsupported policies, faulty lines | both readers implement `Wiring`, agree, and come to an end; what the file reader returns is connected, if names differ and links do not come back |
| `PinTool` | all programs of up to four free instructions, among them gathers and compares of two operands, also with a second thread | the counts of both modes: all writes of the region and no foreign access, and all reads where instructions read one operand at most; the flag |

Runs that show a disagreement between the code and what is said about it:

| run | what the code does |
|---|---|
| `MRULoses` | the MRU loop `i=0; i>ways-1` never runs (`backend.c:209`): the line at the end of the queue is overwritten while the first entry is treated as replaced, and a dirty line is gone |
| `NonTemporal` | "Clear all bits" clears an eighth of the bits (`backend.c:1049`), so `force_write_back` may take an incomplete line for a complete one |
| `WholeLines` | `Cache__inject` takes a line with a set bit for incomplete where `force_write_back` takes one with a clear bit (`backend.c:262`, `807`): a line of which every byte was stored (`WrittenWhole`) is evicted with write-allocate, also from bits that were clear |
| `TrailingComma` | a token without value is reported for ever (`backend.c:1206`) |
| `LineSizes` | the setters compare line sizes the other way round than the constructor (`cache.py:347`, 356): `from_dict` accepts lines that get narrower towards memory and turns down those that get wider |

Further disagreements met while modelling, for which no run is kept:
`pintool/README.md:51` says of `-follow_calls` that "all memory instructions" are
instrumented and those inside the region counted, but the tool leaves out reads that
are no standard memory operation (`cachesim_itf.cpp:158`, and 184 by default) and the
second read operand of an instruction, so a gather in the region is not counted (the
counts of `PinTool` therefore demand all reads only under `SingleReads`); a
write-through cache before main memory counts no evictions (`backend.c:524`), so
main memory shows no stores; `levels()` looks one step off the load path
(`cache.py:186-189`, with a FIXME), so `force_write_back` leaves dirty lines in a
store path of two caches; L1 is not contained in L2 after L2 replaced a line
(`tests/test.py:698`, "L2-L1 is inclusive"); a victim hit leaves the line in the
victim cache (`tests/test.py:691`, "exclusiveness is implicit"); a victim cache
with write-allocate, as in `test_from_dict_victims`, has loads that miss
(`README.rst:75`); HIT and MISS bytes of a range over two lines exceed the bytes
requested (`backend.c:334`, 385); a line that enters a free way keeps the bits of
the one it moves aside (`backend.c:268`); a definition file may link caches to a
name that does not exist (`README.c_api.md:25`), and the search for caches without
connection (`backend.c:1401`) counts names, so it passes caches that are linked only
to each other and the first of two caches of one name, which nothing reaches.

### Bounds, and why they are enough

* Levels have one set (the L3 of `Bulldozer` two) of one to three ways, lines of
  two or four bytes, and three lines are accessed, so sets overflow and lines
  are stored in part. RR replaces a valid way whether or not the set is full.
  The write paths differ by policy and link structure, and each structure of the
  tests and examples has its run.
* The number of calls is not bounded in practice: `MaxCalls` is 1000 and no
  state is deeper than 170 steps (calls and their steps together). To make that finite, states are told apart by
  a `VIEW` without the counters. The counters are never read, so the view loses
  nothing about placements; for the properties of counters the view holds the
  differences these speak of (`Balances`), and for `ResetReachesAll` which levels
  have counters at all (`WithZeros`). What a step adds to a difference depends
  on what the view keeps. The exception is a reset under way, where no such
  property looks; after it all counters are zero. `ImplementsWriteBuffer` reads
  how often memory was stored to, but every step says by itself whether it stores
  there, and the step is seen whatever the count before it.
* `Requests` has no view (liveness and views do not mix) and bounds the accesses
  and walks by five (`MaxCalls`): two whole requests, or a request in the state
  four other calls have left. `CHECK_DEADLOCK FALSE` is there because the bound
  ends the behaviour.
* `Readers` has three caches, enough for a link that skips a level, for a second
  cache nobody refers to, for a cycle behind the first level or apart from it, and
  for two caches of one name. Both functions end, hence `CHECK_DEADLOCK FALSE`.
* `PinTool` runs programs of four free places (three with two threads) for at
  most twelve instructions (`MaxSteps`): a loop around the region is run through
  twice, and the other thread enters and leaves the region at every point of the
  first one. Programs end, hence `CHECK_DEADLOCK FALSE`.

### Fairness

`FairSpec` and `RequestsFairSpec` have weak fairness of the steps of a call or a
request that is under way: the interpreter runs it to its end, nothing else runs
meanwhile. No fairness is assumed of `Call` or `Request`: a program need not make
another one. `ReadersSpec` has weak fairness of each of the two functions, which
run on the only thread until they return, raise or exit. `PinTool` assumes none
and has no liveness property: the program may end or wait at any point.

## What is proved

All theorems hold for every value of the constants that satisfies the named
assumptions: any number of levels, sets, ways and calls for
`HierarchyAssumption`, any lists for `RequestsAssumption`, any programs, threads
and numbers of steps for `PinAssumption` and `CodeAssumption`, any files and
dictionaries.

* `TypeCorrect`: `Spec => []TypeOK`. `TypeOK` is inductive because it is stronger
  than types: frames of `write` stand at a line of their range, those of `credit`
  belong to a cache with a victim cache, those of `flush` and `clean` point into
  their cache, and sub-operations deliver what their frame needs. The proof has
  a lemma per helper (line arithmetic, the replacement queue, the choice of the
  way, `Returned`, `PassDown`, `Fetch`, `Inject`) and a step per action.
  One fact takes more than first-order reasoning: the smallest hit that
  `Location` chooses exists (the theorem of the library that a well-founded
  order has minimal elements, for the naturals).
* `SetsFillInOrder`: `Spec => []FillsBeforeReplacing`. The conjunction with
  `TypeOK` is inductive: types give that a hit lies in its set. The argument is
  about `PushFront` (`PushFrontPacked`: a valid entry at the front leaves no gap,
  however far the others move) and that `Location` returns a way that holds a
  valid line (`LocationHolds`). MRU and RR overwrite in place, and the theorem
  says nothing of them.
* `FramesStaySound`: `Spec => []StackInv`, the invariant behind the recursion.
  `Nested` says which frames may run above which: a frame works on a cache
  further down than all frames below it, except the rest of an injection
  (`credit`) and the load a write-allocate makes in its own cache. So what a
  frame keeps across its calls (`Settled`) still describes its cache when these
  return, but for the write-allocate, whose value comes from the load above it
  (`Allocates`). A step changes one cache at most (`BelowRely`), a call goes down
  (`LinksLeadDown`), and an injected line that was absent is at the slot that
  was chosen (`InjectedWay`).
* `WritesHitTheirLine`: `Spec => []WriteHitsItsLine`, from `StackInv` alone.
* `LinesAreUnique`: `Spec => []NoDuplicateLines`, with `StackInv`: the look-up that
  precedes an injection is still true, so the injected line is new to its set
  (`InjectedDistinct`). Victim caches are exempt, as in the property: nothing
  looks before `Cache__inject` there.
* `NoWriteIsLost`: `MRUWritesThrough => (Spec => []NoLostWrites)`, for hierarchies
  whose MRU caches write through (or have one way): an MRU cache reports another
  entry as replaced than the one it overwrites, and the run `MRULoses` shows the
  loss. `NoLostWrites` is not inductive: a dirty line that `force_write_back` has
  handed down is marked clean when the store below returns. `Safe` asks for a
  dirty line that was not handed down, or a store under way, and is inductive
  with `StackInv` (a store marks the way its line is in; no frame below the
  running one is flushing its cache), `Tidy` (write-through caches are clean and
  only clean lines are delivered to a victim cache) and `Forgotten`
  (`mark_all_invalid` finds nothing owed). `Follows` says once for all steps what
  happens to the frames of the stack, so `CoveredElsewhere` leaves each action
  only the bytes of its frame and the dirty lines of its cache.
* `HierarchyBuffers`: `MRUWritesThrough => (Spec => ImplementsWriteBuffer)`. The
  buffer of a state is the set of its covered bytes (`HeldIsCovered`), which needs
  that every valid line is in the set its number gives (`StaysInSets`). The lemmas
  behind `NoWriteIsLost` speak of any byte that does not go to memory in the step
  (`Stays`), owed or not, so a step without an access to memory loses no byte of the
  buffer and one with an access loses only bytes that are not owed afterwards.
* `LoadsAreHitsOrMisses`: `LinesWiden => (Spec => []LoadsHitOrMiss)`. A load of a
  range over several lines counts one `LOAD` and several hits or misses
  (`backend.c:313`, 334, 385), so the property needs a cache to ask for one line at
  most: line sizes are powers of two (`cache.py:295`) that do not get smaller
  towards memory (299, "cl_size may only increase towards main memory"). `FramesFit`
  turns that into what the frames of the stack ask for. `LoadsInv` then balances the counters of every cache with the loads on the
  stack that have been counted as a load and not yet as a hit or miss.
* `VictimsOnlyHit`: `VictimCaches \ {None} \subseteq HitOnly => (Spec =>
  []VictimLoadsHit)`, from the same invariant. A victim cache is loaded from after
  it was found to have the line, so it only hits, unless a `load_from` leads to it,
  it write-allocates, or its lines are of another size (`HitOnly`).
* `EveryCounterIsReset`, `EveryLineIsInvalidated`: `LevelsReached => (Spec =>
  ResetReachesAll)`, and `InvalidateReachesAll`. `SweptOrToCome` says of each cache
  that the loop has been there, or that it is pending, or that the chain of
  `load_from` from where the generator stands still leads to it. `LevelsReached` is
  what `levels()` does not ensure (`cache.py:186-189`, with a FIXME): that each
  cache is on that chain or one link off it. `Chain` is an intersection of closed
  sets, which takes the place of recursion along the links.
* `FlushReachesEverything`: `LevelsReached /\ FlushedDownwards /\ MRUWritesThrough =>
  (Spec => FlushReachesMemory)`. Writing a cache back fills those below it, so each
  has to come before those its lines may go to (`FlushedDownwards`), which for
  `levels()` depends on the links as well. `Ordered` keeps that order for
  what is pending; `FlushInv` says that each cache is clean or still to come; while
  one is being written back, that its slots so far are clean, that those its
  lines may go to are still to come, and that no frame is outside of these. That
  nothing is owed in the end is then `NoWriteIsLost`. The links show the order
  (`SidesFlushDownwards`, hence `FlushReachesSides`) where the caches beside the
  path of the loads lead back to it and no further aside (`SidesJoin`).
* `EvictionsAreStores`: `LevelsReached /\ LastWritesBack => (Spec =>
  []EvictsAreStoresBelow)`. Sums over all levels are folds, which the provers have
  no theory of; one lemma says what the sum becomes when the counter of one
  level changes, and from there the two sides are kept equal step by step.
  `LastWritesBack` excludes the write-through cache before main memory, which
  counts no evictions (`backend.c:524`). `LevelsReached` is needed because the sums
  are only equal after a reset if all counters are.
* `MemoryIsCounted`: `LevelsReached /\ LoadsReachMemory /\ StoresReachMemory => (Spec
  => []MemoryStatsExact)`. `MemoryInv` keeps the misses of the last level equal to the
  loads of its victim cache and of memory, and its evictions to the stores of
  memory. The hypotheses are what the computation takes for granted, and a hierarchy
  that does not satisfy them may print other numbers than the accesses that were
  made: that nothing but the last levels leads to memory; that the last level of the
  loads is asked for whole lines only (not so in `MruRandom`); that the last level of
  the stores writes back (a write-through one counts no evictions) and has no victim
  cache; and that the victim cache of the last level is loaded from only if it hits
  and by that level only.
* `FetchedLineIsBelow`: `LinesWiden => (Spec => []FillFindsLineBelow)`. `FetchInv` follows
  a request through the recursion: a frame that waits for a line has above it the
  request for that line (`AsksFor`), and a request that is past its last line has it
  in its cache (`Delivered`); on top of the stack, the frame finds the line in a
  cache it loads from (`FoundBelow`).
* `RequestsSafe` carries `TypeOK`, `FillsBeforeReplacing`, `NoDuplicateLines` and
  `WriteHitsItsLine` over to requests: their accesses are those of `Hierarchy`, and
  the elements of a list stay among `Ranges` (`ItemsOK`).
* `RequestsTyped`: `RequestsSpec => []RequestsTypeOK`; it is inductive as it stands.
* `AccessesInOrder`: `RequestsSpec => []AppliedInOrder`. `InOrder` says what
  holds half-way: the accesses made, followed by those the rest of the list asks for
  (`items`, the current item without what was done of it), are those of the whole list.
  The accesses of a list are those of its first item and of the rest
  (`AccessesFirst`). That is a fact about the recursion of the library's
  `FlattenSeq`, which is shown by a least counterexample (`FlattenFirst`), because
  the induction theorems take an operator.
* `FaultsSurface`: `RequestsSpec => []ErrorsSurface`. `FaultsKept` says that what was
  wrong with the list is still in what is left of it or has set an exception that is
  still set; when the loop over an item ends, all that could be wrong with it has
  been met (`LoadTaken`, `StoreTaken`).
* `StrayLeavesError`: `StrayApart /\ VictimsAlike => (RequestsSpec =>
  []StrayOnlyAfterError)`. `ZoneInv`: unless a request has failed or will, no
  placement and no frame has a line of `Zone`, a set of addresses that no line of
  any cache lies across, with the stray one and no byte of any other range in it.
  Caches hand lines to each other by address, and a load or store of a line in part
  becomes one of whole lines below, so only such a set stays apart through all line
  sizes. There is one whenever the line sizes divide a common block that the stray
  address has for itself (`BlockUndivided`). A delivery to a victim cache keeps
  the number of the line instead of its address, so both need lines of one size
  (`VictimsAlike`), which `set_victims_to` asserts (`cache.py:365`). The instance
  of `Requests` satisfies both.
* `FlagNeverStale`: `Spec => []FlagFollowsFlow` for the Pin tool, with any number of
  threads: threads at the calls of the markers are on the right side of the
  region (`FlowOK`), and setting and clearing the flag happens there only.
* `FollowCountsRegion`: `Spec => []FollowCountsMarked`. `CountsOK` says for every stage
  of the only thread what flag and counters are, half-counted accesses included. An
  instruction adds to the reads counted at most what it reads, and exactly that if it
  reads one operand and is no gather (`CallsPerAccess`).
* `DefaultCountsRegion`: `Spec => []DefaultCountsBetween`. In a closed region addresses
  and flow agree (`RegionOK`): the flow is inside at the addresses of the region, at
  the start call, and in the function that it calls, from where the last return
  address leads into the region; no other return address does. `CodeAssumption` is
  what this needs of the program: control does not run out of the code, and the
  functions of `pinMarker.h` write a variable and return. `PinTyped` is
  `Spec => []TypeOK` under the same assumption.

* `FileLinked`: `Spec => ImplementsWiring` for the file reader, and `FileTyped`. The
  assumption is `Enough`: no file announces more caches than it has lines for
  (otherwise the reader uses pointers nobody has set). `FileInv` says what the
  loops know half-way: the number of lines with a cache so far (`Written`), for each
  key of the current line the last token that gave it (`Values`), and, while links
  are made, for each cache the links and the counts of the caches before it. What
  is counted in the end is the number of links by its name, which is zero for the
  caches no other refers to, so the search for the first level is `Acceptable`.
* `FileReached`: `Spec => []Connected`, under the same assumption. Every cache but the
  first level is counted, so the ones that cannot be reached from it are all linked
  from among themselves, and a finite set of that kind has a cycle
  (`LinkedFromOutside`, by the smallest such set).
* `DictionaryLinked`: the same as `FileLinked` for `from_dict` and every dictionary,
  without an assumption. `DictInv` holds the caches created so far and, setter by setter, the
  links made; an exception is only raised for a description that is not
  `Acceptable`. `ReadersLinked` and `ReadersTyped` carry it over to the
  dictionaries of `Readers`.
* `ReadersSame`: `ReadersSpec => []ReadersAgree`, from both invariants and that the
  dictionary says what the file says: both readers find their links and the one
  cache no other refers to in the same records.

Each of these hypotheses is a condition on the links and sizes of a hierarchy that
its author can check; TLC evaluates them for the instances of the runs:

| hypothesis | `TwoLevels` | `Skylake`, `Requests` | `Bulldozer` | `MruRandom` |
|---|---|---|---|---|
| `MRUWritesThrough`, `LinesWiden`, `LevelsReached`, `LastWritesBack`, `StoresReachMemory`, `FlushedDownwards`, `SidesJoin` | yes | yes | yes | yes |
| `LoadsReachMemory` | yes | yes | yes | no, L1 asks L2 for half lines |
| `VictimCaches \ {None} \subseteq HitOnly` | yes, none | yes, L3 | yes, L3 | yes, none |

So every invariant and every action property of the runs that pass has a theorem.
Only model-checked is liveness, which is out of the prover's reach: `CallsReturn`
and `RequestsReturn` in `Requests`, `Finishes` and `DictFinishes` in `Readers`.

## What is not modelled

* Output (verbosity, `print_stats`, `printStats`, VTK) and the release of memory,
  which `dealloc_cacheSim` does for the load path only and the Pin tool does not
  call; reference counting.
* `swap_on_load`, which the code stores and never uses.
* Addresses near the ends of their types, where `cl_id << cl_bits` wraps, negative
  addresses (an unconverted address is a range of its own) and ranges of length
  zero, which the binding passes on.
* Caches without sets or ways. A definition file with a zero is turned down; in a
  dictionary zero stands for a missing argument. An explicit zero, which
  `Cache.__init__` lets pass, is excluded by `HierarchyAssumption`: the first
  access would divide by it.
* Sub-blocks of several bytes in the runs: the code numbers bits by byte, the
  model does the same, but no instance has them.
* What threads of a program do to the placements of the simulator behind the
  Pin tool; only the counters are raced for.
* The measured kernels of `validation/`, and the scripts around the simulator.

## Plan

Done: the core with its counters and the write buffer it implements; the binding;
both readers; the Pin tool; and a theorem for every invariant, action property and
refinement of these: for the core type correctness, the order of sets, the
soundness of the stack, unique lines and marked ways, that no write is lost and the
caches are a write buffer, what the counters and main memory's numbers mean, and
what the loops over the hierarchy reach; for the binding order and errors of its
accesses; for the readers that both implement `Wiring` and agree; for the Pin tool
the flag and the counts of both modes.

Left, in this order:

1. Sub-blocks of several bytes, and the bits of the hit line on an LRU hit.
2. `dealloc_cacheSim` as a walk over the links, with what it leaves allocated.
3. Proofs: what the first two add; and the theorems about counters for the binding,
   which follow from the lemma `RequestsRefine` once `Statistics` is instantiated
   there.
