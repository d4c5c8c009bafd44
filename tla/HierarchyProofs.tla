--------------------------- MODULE HierarchyProofs ---------------------------
(***************************************************************************)
(* Theorems about Hierarchy, for every number of levels, every configura-  *)
(* tion HierarchyAssumption admits and every set of address ranges.        *)
(***************************************************************************)
EXTENDS Hierarchy, SequenceTheorems, WellFoundedInduction, TLAPS

(* Arithmetic and constants. *)

\* A nonempty set of naturals has a least element: what makes the first way
\* that holds a line well defined.
LEMMA LeastElement ==
  ASSUME NEW S \in SUBSET Nat, S # {}
  PROVE  \E x \in S : \A y \in S : x <= y
<1> DEFINE R == {ss \in Nat \X Nat : ss[1] < ss[2]}
<1>1. IsWellFoundedOn(R, Nat)
  BY NatLessThanWellFounded DEF OpToRel
<1>2. PICK x \in S : \A y \in S : ~(<<y, x>> \in R)
  <2> HIDE DEF R
  <2> QED BY <1>1, WFMin
<1>3. \A y \in S : x <= y
  <2> SUFFICES ASSUME NEW y \in S, y < x PROVE FALSE
    OBVIOUS
  <2>1. <<y, x>> \in Nat \X Nat /\ <<y, x>>[1] = y /\ <<y, x>>[2] = x
    OBVIOUS
  <2>2. <<y, x>> \in R
    BY <2>1
  <2> QED BY <1>2, <2>2
<1> QED BY <1>3

LEMMA ModInRange ==
  ASSUME NEW a \in Nat, NEW d \in Nat \ {0} PROVE a % d \in 0 .. d - 1
  OBVIOUS

LEMMA DivIsNat ==
  ASSUME NEW a \in Nat, NEW d \in Nat \ {0} PROVE a \div d \in Nat
  OBVIOUS

LEMMA DivIsInt ==
  ASSUME NEW a \in Int, NEW d \in Nat \ {0} PROVE a \div d \in Int
  OBVIOUS

LEMMA TimesIsNat ==
  ASSUME NEW a \in Nat, NEW b \in Nat PROVE a * b \in Nat
  OBVIOUS

LEMMA TimesIsInt ==
  ASSUME NEW a \in Int, NEW b \in Int PROVE a * b \in Int
  OBVIOUS

\* Line q starts no later than byte a if q is at most the line of a.
LEMMA LineStart ==
  ASSUME NEW a \in Int, NEW d \in Nat \ {0}, NEW q \in Nat, q <= a \div d
  PROVE  q * d <= a
<1>1. (a \div d) * d <= a
  OBVIOUS
<1>2. \A x, y \in Int : x <= y => x * d <= y * d
  OBVIOUS
<1>3. a \div d \in Int
  BY DivIsInt
<1> QED BY <1>1, <1>2, <1>3, TimesIsInt

\* What HierarchyAssumption says of one level.
LEMMA CacheType ==
  ASSUME NEW c \in Levels
  PROVE  /\ Cache[c] \in Configuration
         /\ Cache[c].sets \in Nat \ {0} /\ Cache[c].ways \in Nat \ {0}
         /\ Cache[c].cl_size \in Nat \ {0} /\ Cache[c].subblock_bits \in Nat \ {0}
         /\ Cache[c].replacement_policy \in Policies
         /\ Cache[c].load_from \in Levels \cup {None}
         /\ Cache[c].store_to \in Levels \cup {None}
         /\ Cache[c].victims_to \in Levels \cup {None}
         /\ c \in Nat
<1>1. NumLevels \in Nat /\ c \in 1..NumLevels
  BY HierarchyAssumption DEF Levels
<1>2. Cache[c] \in Configuration
  BY HierarchyAssumption
<1>3. \A l \in {Cache[c].load_from, Cache[c].store_to, Cache[c].victims_to} :
        l = None \/ l \in c + 1 .. NumLevels
  BY HierarchyAssumption
<1>4. \A l \in {Cache[c].load_from, Cache[c].store_to, Cache[c].victims_to} :
        l \in Levels \cup {None}
  BY <1>1, <1>3 DEF Levels
<1> QED BY <1>1, <1>2, <1>4 DEF Configuration

LEMMA FirstLevelType == FirstLevel \in Levels
<1>1. NumLevels \in Nat \ {0}
  BY HierarchyAssumption
<1> QED BY <1>1 DEF FirstLevel, Levels

LEMMA GeometryType ==
  ASSUME NEW c \in Levels, NEW cl \in Nat
  PROVE  /\ SetId(c, cl) \in Sets(c)
         /\ LineRange(c, cl) \in AddrRange
         /\ Sets(c) \subseteq Nat /\ Ways(c) \subseteq Nat
         /\ 0 \in Sets(c) /\ 0 \in Ways(c) /\ Cache[c].ways - 1 \in Ways(c)
<1>1. Cache[c].sets \in Nat \ {0} /\ Cache[c].ways \in Nat \ {0}
        /\ Cache[c].cl_size \in Nat \ {0}
  BY CacheType
<1>2. SetId(c, cl) \in Sets(c)
  BY <1>1, ModInRange DEF SetId, Sets
<1>3. cl * Cache[c].cl_size \in Nat
  BY <1>1, TimesIsNat
<1>4. LineRange(c, cl) \in AddrRange
  BY <1>1, <1>3 DEF LineRange, AddrRange
<1>5. /\ Sets(c) \subseteq Nat /\ Ways(c) \subseteq Nat
      /\ 0 \in Sets(c) /\ 0 \in Ways(c) /\ Cache[c].ways - 1 \in Ways(c)
  BY <1>1 DEF Sets, Ways
<1> QED BY <1>2, <1>4, <1>5

LEMMA ClIdType ==
  ASSUME NEW c \in Levels, NEW range \in AddrRange
  PROVE  /\ ClId(c, range.addr) \in Nat
         /\ LastCl(c, range) \in Int
         /\ Bytes(range) \subseteq Nat
<1>1. range.addr \in Nat /\ range.length \in Nat /\ range.addr + range.length - 1 \in Int
  BY DEF AddrRange
<1> QED BY <1>1, CacheType, DivIsNat, DivIsInt DEF ClId, LastCl, Bytes

LEMMA ClipType ==
  ASSUME NEW c \in Levels, NEW range \in AddrRange, NEW cl \in Nat,
         cl <= LastCl(c, range)
  PROVE  ClipRange(c, cl, range) \in AddrRange
<1> DEFINE size == Cache[c].cl_size
           line == cl * size
<1>1. range.addr \in Nat /\ range.length \in Nat
  BY DEF AddrRange
<1>2. size \in Nat \ {0} /\ line \in Nat
  BY CacheType, TimesIsNat
<1>3. line <= range.addr + range.length - 1
  BY <1>1, <1>2, LineStart DEF LastCl, ClId
<1> HIDE DEF line
<1>4. Larger(line, range.addr) \in Nat
        /\ Larger(line, range.addr) <= range.addr + range.length
  BY <1>1, <1>2, <1>3 DEF Larger
<1> QED BY <1>1, <1>2, <1>4 DEF ClipRange, AddrRange, line

(* Queues. *)

LEMMA LocationType ==
  ASSUME PlacementOK, NEW c \in Levels, NEW cl \in Nat
  PROVE  Location(c, cl) \in Ways(c) \cup {-1}
<1> DEFINE hits == {w \in Ways(c) : Holds(placement[c][SetId(c, cl)][w], cl)}
<1>1. hits \in SUBSET Nat
  BY GeometryType
<1>2. hits # {} => (CHOOSE w \in hits : \A v \in hits : w <= v) \in hits
  <2> HIDE DEF hits
  <2> QED BY <1>1, LeastElement
<1> QED BY <1>2 DEF Location

LEMMA PushFrontType ==
  ASSUME NEW c \in Levels, NEW q \in [Ways(c) -> Entry], NEW k \in Ways(c), NEW e \in Entry
  PROVE  PushFront(q, k, e) \in [Ways(c) -> Entry]
<1>1. Cache[c].ways \in Nat \ {0}
  BY CacheType
<1>2. \A w \in Ways(c) : w # 0 /\ w <= k => w - 1 \in Ways(c)
  BY <1>1 DEF Ways
<1> QED BY <1>2 DEF PushFront

LEMMA ReplaceIdxType ==
  ASSUME NEW c \in Levels, NEW idx \in ReplaceIdx(c)
  PROVE  idx \in Ways(c)
<1>1. Cache[c].replacement_policy \in Policies
  BY CacheType
<1>2. 0 \in Ways(c) /\ Cache[c].ways - 1 \in Ways(c)
  BY GeometryType
<1> QED BY <1>1, <1>2 DEF ReplaceIdx, Policies

LEMMA ReplaceEntryType ==
  ASSUME NEW c \in Levels, NEW q \in [Ways(c) -> Entry], NEW idx \in Ways(c)
  PROVE  ReplaceEntry(c, q, idx) \in Entry
<1>1. Cache[c].replacement_policy \in Policies
  BY CacheType
<1>2. 0 \in Ways(c) /\ Cache[c].ways - 1 \in Ways(c)
  BY GeometryType
<1> QED BY <1>1, <1>2 DEF ReplaceEntry, Policies

LEMMA InjectedType ==
  ASSUME NEW c \in Levels, NEW q \in [Ways(c) -> Entry], NEW idx \in Ways(c),
         NEW e \in Entry
  PROVE  Injected(c, q, idx, e) \in [Ways(c) -> Entry]
<1>1. Cache[c].ways - 1 \in Ways(c)
  BY GeometryType
<1> QED BY <1>1, PushFrontType DEF Injected

\* Replacing one set by a queue of the right type keeps the placement well typed.
LEMMA PlacementUpdate ==
  ASSUME PlacementOK, NEW c \in Levels, NEW s \in Sets(c),
         NEW q \in [Ways(c) -> Entry],
         placement' = [placement EXCEPT ![c][s] = q]
  PROVE  PlacementOK'
<1>1. placement' = [d \in Levels |-> placement'[d]]
  BY DEF PlacementOK
<1>2. ASSUME NEW d \in Levels PROVE placement'[d] \in [Sets(d) -> [Ways(d) -> Entry]]
  BY DEF PlacementOK
<1> QED BY <1>1, <1>2 DEF PlacementOK

LEMMA BitBaseType ==
  ASSUME NEW c \in Levels, NEW s \in Int, NEW w \in Int
  PROVE  BitBase(c, s, w) \in Int
<1>1. Cache[c].ways \in Int /\ Cache[c].subblock_bits \in Int
  BY CacheType
<1>2. s * Cache[c].ways + w \in Int
  BY <1>1, TimesIsInt
<1> QED BY <1>1, <1>2, TimesIsInt DEF BitBase

LEMMA PushBitsType ==
  ASSUME NEW c \in Levels, bits[c] \subseteq Int, NEW s, NEW k
  PROVE  PushBits(c, s, k) \subseteq Int
<1>1. Cache[c].subblock_bits \in Int
  BY CacheType
<1> QED BY <1>1 DEF PushBits

(* Counters and frames. *)

LEMMA BumpType ==
  ASSUME NEW st \in CounterTable, NEW c \in Levels, NEW k \in Counters, NEW n \in Nat
  PROVE  Bump(st, c, k, n) \in CounterTable
<1>1. st[c][k].count \in Nat /\ st[c][k].byte \in Nat
  BY DEF CounterTable, Counter
<1>2. [count |-> st[c][k].count + 1, byte |-> st[c][k].byte + n] \in Counter
  BY <1>1 DEF Counter
<1> QED BY <1>2 DEF Bump, CounterTable

LEMMA AccessedType ==
  ASSUME memory \in AccessTable, NEW k \in {"loads", "stores"}, NEW range \in AddrRange
  PROVE  Accessed(k, range) \in AccessTable
<1>1. memory[k].count \in Nat /\ memory[k].byte \in Nat /\ range.length \in Nat
  BY DEF AccessTable, Counter, AddrRange
<1>2. [count |-> memory[k].count + 1, byte |-> memory[k].byte + range.length] \in Counter
  BY <1>1 DEF Counter
<1> QED BY <1>2 DEF Accessed, AccessTable

LEMMA CallFrames ==
  ASSUME NEW c \in Levels, NEW range \in AddrRange, NEW nt \in BOOLEAN
  PROVE  /\ LoadCall(c, range) \in Frame /\ FrameOK(LoadCall(c, range))
         /\ StoreCall(c, range, nt) \in Frame /\ FrameOK(StoreCall(c, range, nt))
<1>1. ClId(c, range.addr) \in Nat
  BY ClIdType
<1> QED BY <1>1 DEF LoadCall, StoreCall, Frame, FrameOK, Functions_

LEMMA VictimFrames ==
  ASSUME NEW c \in Levels, Cache[c].victims_to # None, NEW e \in Entry
  PROVE  /\ CreditFrame(c) \in Frame /\ FrameOK(CreditFrame(c))
         /\ InjectCall(Cache[c].victims_to, e) \in Frame
         /\ FrameOK(InjectCall(Cache[c].victims_to, e))
<1>1. Cache[c].victims_to \in Levels
  BY CacheType
<1>2. e.cl_id \in Nat /\ e.dirty \in BOOLEAN
  BY DEF Entry
<1>3. LineRange(c, 0) \in AddrRange /\ LineRange(Cache[c].victims_to, e.cl_id) \in AddrRange
  BY <1>1, <1>2, GeometryType
<1> QED BY <1>1, <1>2, <1>3 DEF CreditFrame, InjectCall, Frame, FrameOK, Functions_

LEMMA FlushFrame ==
  ASSUME NEW c \in Levels
  PROVE  FlushCall(c) \in Frame /\ FrameOK(FlushCall(c))
<1>1. LineRange(c, 0) \in AddrRange /\ 0 \in Ways(c)
  BY GeometryType
<1> QED BY <1>1 DEF FlushCall, Frame, FrameOK, Functions_

LEMMA PushOK ==
  ASSUME NEW st, FramesOK(st), NEW f \in Frame, FrameOK(f)
  PROVE  FramesOK(Append(st, f))
<1>1. st \in Seq(Frame) /\ \A i \in 1..Len(st) : FrameOK(st[i])
  BY DEF FramesOK
<1>2. Append(st, f) \in Seq(Frame) /\ Len(Append(st, f)) = Len(st) + 1
  BY <1>1
<1>3. ASSUME NEW i \in 1..Len(Append(st, f)) PROVE FrameOK(Append(st, f)[i])
  <2>1. CASE i = Len(st) + 1
    <3>1. Append(st, f)[i] = f
      BY <1>1, <2>1
    <3> QED BY <3>1
  <2>2. CASE i # Len(st) + 1
    <3>1. i \in 1..Len(st) /\ Append(st, f)[i] = st[i]
      BY <1>1, <1>2, <2>2
    <3> QED BY <1>1, <3>1
  <2> QED BY <2>1, <2>2
<1> QED BY <1>2, <1>3 DEF FramesOK

LEMMA PopOK ==
  ASSUME FramesOK(stack), stack # <<>>
  PROVE  FramesOK(Callers) /\ Top \in Frame /\ FrameOK(Top) /\ Top.c \in Levels
<1>0. stack \in Seq(Frame)
  BY DEF FramesOK
<1>1. Len(stack) \in Nat /\ Len(stack) > 0
  BY <1>0
<1>2. Callers \in Seq(Frame) /\ Len(Callers) = Len(stack) - 1
        /\ \A i \in 1..Len(Callers) : Callers[i] = stack[i]
  BY <1>0, <1>1, SubSeqProperties DEF Callers
<1>3. Top \in Frame /\ FrameOK(Top)
  BY <1>0, <1>1 DEF Top, FramesOK
<1>4. \A i \in 1..Len(Callers) : FrameOK(Callers[i])
  BY <1>0, <1>1, <1>2 DEF FramesOK
<1> QED BY <1>2, <1>3, <1>4 DEF FramesOK, Frame

LEMMA ContinueOK ==
  ASSUME FramesOK(stack), stack # <<>>, NEW f \in Frame, FrameOK(f)
  PROVE  FramesOK(Continue(f))
  BY PopOK, PushOK DEF Continue

LEMMA ReturnedOK ==
  ASSUME NEW st, FramesOK(st), NEW loc \in Nat \cup {-1}
  PROVE  FramesOK(Returned(st, loc))
<1>1. CASE st # <<>> /\ st[Len(st)].fn = "write"
  <2> DEFINE f == st[Len(st)]
             g == [f EXCEPT !.loc = loc]
  <2>1. st \in Seq(Frame) /\ Len(st) \in Nat /\ Len(st) \in 1..Len(st)
    BY <1>1 DEF FramesOK
  <2>2. f \in Frame /\ FrameOK(f)
    BY <2>1 DEF FramesOK
  <2>3. g \in Frame /\ FrameOK(g)
    BY <1>1, <2>2 DEF Frame, FrameOK
  <2>4. Returned(st, loc) = [st EXCEPT ![Len(st)] = g]
    BY <1>1, <2>1 DEF Returned
  <2> HIDE DEF g
  <2>5. [st EXCEPT ![Len(st)] = g] \in Seq(Frame)
          /\ Len([st EXCEPT ![Len(st)] = g]) = Len(st)
    BY <2>1, <2>3
  <2>6. \A i \in 1..Len(st) : FrameOK([st EXCEPT ![Len(st)] = g][i])
    BY <2>1, <2>3 DEF FramesOK
  <2> QED BY <2>4, <2>5, <2>6 DEF FramesOK
<1>2. CASE ~(st # <<>> /\ st[Len(st)].fn = "write")
  BY <1>2 DEF Returned
<1> QED BY <1>1, <1>2
(* The operators the actions share. *)

LEMMA PassDownType ==
  ASSUME TypeOK, NEW c \in Levels, NEW range \in AddrRange, NEW nt \in BOOLEAN,
         NEW st \in CounterTable, NEW callers, FramesOK(callers),
         PassDown(c, range, nt, st, callers)
  PROVE  /\ stats' \in CounterTable /\ FramesOK(stack')
         /\ memory' \in AccessTable /\ owed' \subseteq Nat
<1> DEFINE below == Cache[c].store_to
<1>1. range.length \in Nat /\ "STORE" \in Counters
  BY DEF AddrRange, Counters
<1>2. CASE below = None
  <2>1. /\ memory' = Accessed("stores", range) /\ owed' = owed \ Bytes(range)
        /\ stats' = st /\ stack' = callers
    BY <1>2 DEF PassDown
  <2> QED BY <2>1, AccessedType DEF TypeOK
<1>3. CASE below # None
  <2>1. below \in Levels
    BY <1>3, CacheType
  <2>2. /\ stats' = Bump(st, below, "STORE", range.length)
        /\ stack' = Append(callers, StoreCall(below, range, nt))
        /\ memory' = memory /\ owed' = owed
    BY <1>3 DEF PassDown
  <2>3. Bump(st, below, "STORE", range.length) \in CounterTable
    BY <1>1, <2>1, BumpType
  <2>4. FramesOK(Append(callers, StoreCall(below, range, nt)))
    BY <2>1, CallFrames, PushOK
  <2> QED BY <2>2, <2>3, <2>4 DEF TypeOK
<1> QED BY <1>2, <1>3

LEMMA FetchType ==
  ASSUME TypeOK, NEW source \in Levels \cup {None}, NEW range \in AddrRange,
         NEW st \in CounterTable, NEW callers, FramesOK(callers),
         Fetch(source, range, st, callers)
  PROVE  /\ stats' \in CounterTable /\ FramesOK(stack') /\ memory' \in AccessTable
<1>1. range.length \in Nat /\ "LOAD" \in Counters
  BY DEF AddrRange, Counters
<1>2. CASE source = None
  <2>1. memory' = Accessed("loads", range) /\ stats' = st /\ stack' = callers
    BY <1>2 DEF Fetch
  <2> QED BY <2>1, AccessedType DEF TypeOK
<1>3. CASE source # None
  <2>1. source \in Levels
    BY <1>3
  <2>2. /\ stats' = Bump(st, source, "LOAD", range.length)
        /\ stack' = Append(callers, LoadCall(source, range))
        /\ memory' = memory
    BY <1>3 DEF Fetch
  <2>3. Bump(st, source, "LOAD", range.length) \in CounterTable
    BY <1>1, <2>1, BumpType
  <2>4. FramesOK(Append(callers, LoadCall(source, range)))
    BY <2>1, CallFrames, PushOK
  <2> QED BY <2>2, <2>3, <2>4 DEF TypeOK
<1> QED BY <1>2, <1>3

LEMMA InjectType ==
  ASSUME TypeOK, NEW c \in Levels, NEW e \in Entry, NEW idx \in ReplaceIdx(c),
         NEW callers, FramesOK(callers), Inject(c, e, idx, callers)
  PROVE  /\ PlacementOK' /\ bits' \in [Levels -> SUBSET Int]
         /\ stats' \in CounterTable /\ FramesOK(stack')
         /\ memory' \in AccessTable /\ owed' \subseteq Nat
<1> DEFINE s         == SetId(c, e.cl_id)
           q         == placement[c][s]
           old       == ReplaceEntry(c, q, idx)
           writeBack == ~old.invalid /\ Cache[c].write_back /\ old.dirty
           deliver   == ~old.invalid /\ ~writeBack /\ Cache[c].victims_to # None
           slot      == SlotBits(c, s, idx)
           after     == InjectedBits(c, s)
           cleared   == IF Cache[c].write_combining /\ Cache[c].store_to # None
                        THEN after \ slot ELSE after
<1>1. e.cl_id \in Nat /\ s \in Sets(c) /\ idx \in Ways(c)
  BY GeometryType, ReplaceIdxType DEF Entry
<1>2. q \in [Ways(c) -> Entry]
  BY <1>1 DEF TypeOK, PlacementOK
<1>3. old \in Entry
  BY <1>1, <1>2, ReplaceEntryType
<1>4. after \subseteq Int
  BY PushBitsType DEF TypeOK, InjectedBits
<1>5. cleared \subseteq Int
  BY <1>4
<1>6. placement' = [placement EXCEPT ![c][s] = Injected(c, q, idx, e)]
  BY DEF Inject
<1>7. PlacementOK'
  <2>1. Injected(c, q, idx, e) \in [Ways(c) -> Entry]
    BY <1>1, <1>2, InjectedType
  <2> HIDE DEF s, q
  <2> QED BY <1>1, <1>6, <2>1, PlacementUpdate DEF TypeOK
<1>8. \/ /\ writeBack
         /\ bits' = [bits EXCEPT ![c] = cleared]
         /\ PassDown(c, LineRange(c, old.cl_id), NonTemporalEvict(c, slot, after),
                     Bump(stats, c, "EVICT", Cache[c].cl_size), callers)
      \/ /\ deliver
         /\ bits'  = [bits EXCEPT ![c] = after]
         /\ stack' = Append(Append(callers, CreditFrame(c)),
                            InjectCall(Cache[c].victims_to, old))
         /\ UNCHANGED <<stats, memory, owed>>
      \/ /\ ~writeBack /\ ~deliver
         /\ bits'  = [bits EXCEPT ![c] = after]
         /\ stack' = callers
         /\ UNCHANGED <<stats, memory, owed>>
  BY DEF Inject
<1> HIDE DEF after, cleared, slot, old, writeBack, s, q
<1>9. bits' \in [Levels -> SUBSET Int]
  BY <1>4, <1>5, <1>8 DEF TypeOK
<1>10. CASE writeBack /\ PassDown(c, LineRange(c, old.cl_id), NonTemporalEvict(c, slot, after),
                                  Bump(stats, c, "EVICT", Cache[c].cl_size), callers)
  <2>1. LineRange(c, old.cl_id) \in AddrRange
    BY <1>3, GeometryType DEF Entry
  <2>2. NonTemporalEvict(c, slot, after) \in BOOLEAN
    BY CacheType DEF Configuration, NonTemporalEvict
  <2>3. Bump(stats, c, "EVICT", Cache[c].cl_size) \in CounterTable
    BY CacheType, BumpType DEF TypeOK, Counters
  <2> QED BY <1>7, <1>9, <1>10, <2>1, <2>2, <2>3, PassDownType
<1>11. CASE deliver /\ stack' = Append(Append(callers, CreditFrame(c)),
                                       InjectCall(Cache[c].victims_to, old))
            /\ UNCHANGED <<stats, memory, owed>>
  <2>1. FramesOK(stack')
    BY <1>3, <1>11, VictimFrames, PushOK
  <2> QED BY <1>7, <1>9, <1>11, <2>1 DEF TypeOK
<1>12. CASE stack' = callers /\ UNCHANGED <<stats, memory, owed>>
  BY <1>7, <1>9, <1>12 DEF TypeOK
<1> QED BY <1>8, <1>10, <1>11, <1>12
(* Type correctness, action by action. *)

LEMMA TopType ==
  ASSUME TypeOK, NEW fn, Running(fn)
  PROVE  /\ stack # <<>> /\ FramesOK(stack) /\ FramesOK(Callers)
         /\ Top \in Frame /\ FrameOK(Top) /\ Top.fn = fn
         /\ Top.c \in Levels /\ Top.cl \in Nat /\ Top.range \in AddrRange
         /\ Top.nt \in BOOLEAN /\ Top.dirty \in BOOLEAN /\ Top.loc \in Nat \cup {-1}
         /\ TopSet \in Sets(Top.c) /\ TopLine \in Nat \ {0}
<1>1. stack # <<>> /\ Top.fn = fn /\ FramesOK(stack)
  BY DEF Running, TypeOK
<1>2. FramesOK(Callers) /\ Top \in Frame /\ FrameOK(Top)
  BY <1>1, PopOK
<1>3. Top.c \in Levels /\ Top.cl \in Nat /\ Top.range \in AddrRange
        /\ Top.nt \in BOOLEAN /\ Top.dirty \in BOOLEAN /\ Top.loc \in Nat \cup {-1}
  BY <1>2 DEF Frame
<1>4. TopSet \in Sets(Top.c) /\ TopLine \in Nat \ {0}
  BY <1>3, GeometryType, CacheType DEF TopSet, TopLine
<1> QED BY <1>1, <1>2, <1>3, <1>4

LEMMA CallType ==
  ASSUME TypeOK, Call
  PROVE  TypeOK'
<1>0. FramesOK(<<>>)
  BY DEF FramesOK
<1>1. ASSUME NEW f \in Frame, FrameOK(f) PROVE FramesOK(<<f>>)
  BY <1>1 DEF FramesOK
<1>2. calls < MaxCalls => calls + 1 \in 0..MaxCalls
  BY HierarchyAssumption DEF TypeOK
<1>3. ASSUME NEW range \in Ranges, Load(range) PROVE TypeOK'
  <2>1. range \in AddrRange /\ range.length \in Nat
    BY HierarchyAssumption DEF AddrRange
  <2>2. stats' \in CounterTable
    BY <1>3, <2>1, BumpType, FirstLevelType DEF Load, TypeOK, Counters
  <2>3. FramesOK(stack')
    BY <1>1, <1>3, <2>1, CallFrames, FirstLevelType DEF Load
  <2> QED BY <1>2, <1>3, <2>2, <2>3 DEF Load, TypeOK, PlacementOK
<1>4. ASSUME NEW range \in Ranges, Store(range) PROVE TypeOK'
  <2>1. range \in AddrRange /\ range.length \in Nat
    BY HierarchyAssumption DEF AddrRange
  <2>2. stats' \in CounterTable
    BY <1>4, <2>1, BumpType, FirstLevelType DEF Store, TypeOK, Counters
  <2>3. FramesOK(stack')
    BY <1>1, <1>4, <2>1, CallFrames, FirstLevelType DEF Store
  <2>4. owed' \subseteq Nat
    BY <1>4, <2>1, ClIdType, FirstLevelType DEF Store, TypeOK
  <2> QED BY <1>2, <1>4, <2>2, <2>3, <2>4 DEF Store, TypeOK, PlacementOK
<1>5. ASSUME NEW job \in Jobs, StartWalk(job) PROVE TypeOK'
  <2>1. walk' \in WalkState
    BY <1>5, FirstLevelType DEF StartWalk, WalkState
  <2>2. owed' \subseteq Nat
    BY <1>5 DEF StartWalk, TypeOK
  <2> QED BY <1>2, <1>5, <2>1, <2>2 DEF StartWalk, TypeOK, PlacementOK
<1> QED BY <1>3, <1>4, <1>5 DEF Call

LEMMA LoadHitType ==
  ASSUME TypeOK, LoadHit
  PROVE  TypeOK'
<1> DEFINE c   == Top.c
           loc == Location(c, Top.cl)
           q   == placement[c][TopSet]
<1>1. Running("load") /\ loc # -1
  BY DEF LoadHit
<1>2. /\ stack # <<>> /\ FramesOK(stack) /\ Top \in Frame /\ FrameOK(Top)
      /\ c \in Levels /\ Top.cl \in Nat /\ Top.range \in AddrRange
      /\ TopSet \in Sets(c) /\ TopLine \in Nat \ {0} /\ Top.fn = "load"
  BY <1>1, TopType
<1>3. loc \in Ways(c) /\ q \in [Ways(c) -> Entry]
  BY <1>1, <1>2, LocationType DEF TypeOK, PlacementOK
<1>4. stats' \in CounterTable
  <2>1. Smaller(TopLine, Top.range.length) \in Nat
    BY <1>2 DEF Smaller, AddrRange
  <2>2. stats' = Bump(stats, c, "HIT", Smaller(TopLine, Top.range.length))
    BY DEF LoadHit
  <2> QED BY <1>2, <2>1, <2>2, BumpType DEF TypeOK, Counters
<1>5. ASSUME NEW w \in Nat PROVE FramesOK(Continue([Top EXCEPT !.cl = @ + 1, !.loc = w]))
  <2> DEFINE f == [Top EXCEPT !.cl = @ + 1, !.loc = w]
  <2>0. Top.cl + 1 \in Nat /\ w \in Nat \cup {-1}
    BY <1>2
  <2>1. f \in Frame
    BY <1>2, <2>0, Zenon DEF Frame
  <2>2. f.fn = "load"
    BY <1>2 DEF Frame
  <2>3. FrameOK(f)
    BY <2>2 DEF FrameOK
  <2> QED BY <1>2, <2>1, <2>3, ContinueOK
<1>6. CASE /\ stack' = Continue([Top EXCEPT !.cl = @ + 1, !.loc = Cache[Top.c].ways - 1])
           /\ UNCHANGED <<placement, bits>>
  <2>1. Cache[c].ways - 1 \in Nat
    BY <1>2, CacheType
  <2> QED BY <1>4, <1>5, <1>6, <2>1 DEF LoadHit, TypeOK, PlacementOK
<1>7. CASE /\ placement' = [placement EXCEPT ![Top.c][TopSet] = PushFront(@, loc, @[loc])]
           /\ bits'  = [bits EXCEPT ![Top.c] = PushBits(Top.c, TopSet, loc)]
           /\ stack' = Continue([Top EXCEPT !.cl = @ + 1, !.loc = 0])
  <2>1. PushFront(q, loc, q[loc]) \in [Ways(c) -> Entry]
    BY <1>2, <1>3, PushFrontType
  <2>2. placement' = [placement EXCEPT ![c][TopSet] = PushFront(q, loc, q[loc])]
    BY <1>7
  <2>3. PlacementOK'
    <3> HIDE DEF q, loc, c
    <3> QED BY <1>2, <2>1, <2>2, PlacementUpdate DEF TypeOK
  <2>4. bits' \in [Levels -> SUBSET Int]
    BY <1>2, <1>7, PushBitsType DEF TypeOK
  <2> QED BY <1>4, <1>5, <1>7, <2>3, <2>4 DEF LoadHit, TypeOK
<1> QED BY <1>6, <1>7 DEF LoadHit

LEMMA LoadMissType ==
  ASSUME TypeOK, LoadMiss
  PROVE  TypeOK'
<1> DEFINE c      == Top.c
           victims == Cache[c].victims_to
           source == IF victims # None /\ Location(victims, Top.cl) # -1
                     THEN victims ELSE Cache[c].load_from
           st     == Bump(stats, c, "MISS", Smaller(TopLine, Top.range.length))
           f      == [Top EXCEPT !.fn = "fill"]
<1>1. /\ stack # <<>> /\ FramesOK(stack) /\ Top \in Frame /\ FrameOK(Top)
      /\ c \in Levels /\ Top.cl \in Nat /\ Top.range \in AddrRange
      /\ TopLine \in Nat \ {0}
  BY TopType DEF LoadMiss
<1>2. Fetch(source, LineRange(c, Top.cl), st, Continue(f))
  BY DEF LoadMiss
<1>3. source \in Levels \cup {None} /\ LineRange(c, Top.cl) \in AddrRange
  BY <1>1, CacheType, GeometryType
<1>4. st \in CounterTable
  <2>1. Smaller(TopLine, Top.range.length) \in Nat
    BY <1>1 DEF Smaller, AddrRange
  <2> QED BY <1>1, <2>1, BumpType DEF TypeOK, Counters
<1>5. FramesOK(Continue(f))
  <2>1. f \in Frame /\ FrameOK(f)
    BY <1>1 DEF Frame, FrameOK, Functions_
  <2> QED BY <1>1, <2>1, ContinueOK
<1> HIDE DEF c, source, st, f
<1>6. stats' \in CounterTable /\ FramesOK(stack') /\ memory' \in AccessTable
  BY <1>2, <1>3, <1>4, <1>5, FetchType
<1> QED BY <1>6 DEF LoadMiss, TypeOK, PlacementOK

LEMMA LoadFillType ==
  ASSUME TypeOK, LoadFill
  PROVE  TypeOK'
<1>1. /\ stack # <<>> /\ FramesOK(stack) /\ Top \in Frame /\ FrameOK(Top)
      /\ Top.c \in Levels /\ Top.cl \in Nat
  BY TopType DEF LoadFill
<1> DEFINE e == [cl_id |-> Top.cl, dirty |-> FALSE, invalid |-> FALSE]
<1>2. PICK idx \in ReplaceIdx(Top.c) :
        Inject(Top.c, e, idx, Continue([Top EXCEPT !.fn = "load", !.cl = @ + 1, !.loc = idx]))
  BY DEF LoadFill
<1> DEFINE f == [Top EXCEPT !.fn = "load", !.cl = @ + 1, !.loc = idx]
<1>3. e \in Entry
  BY <1>1 DEF Entry
<1>4. FramesOK(Continue(f))
  <2>1. idx \in Nat
    BY <1>1, ReplaceIdxType, GeometryType
  <2>2. f \in Frame
    <3>1. Top.cl + 1 \in Nat /\ idx \in Nat \cup {-1} /\ "load" \in Functions_
      BY <1>1, <2>1 DEF Functions_
    <3> QED BY <1>1, <3>1, Zenon DEF Frame
  <2>3. f.fn = "load"
    BY <1>1 DEF Frame
  <2>4. FrameOK(f)
    BY <2>3 DEF FrameOK
  <2> QED BY <1>1, <2>2, <2>4, ContinueOK
<1> HIDE DEF e, f
<1>5. /\ PlacementOK' /\ bits' \in [Levels -> SUBSET Int]
      /\ stats' \in CounterTable /\ FramesOK(stack')
      /\ memory' \in AccessTable /\ owed' \subseteq Nat
  BY <1>1, <1>2, <1>3, <1>4, InjectType DEF f
<1> QED BY <1>5 DEF LoadFill, TypeOK

LEMMA LoadReturnType ==
  ASSUME TypeOK, LoadReturn
  PROVE  TypeOK'
<1>1. FramesOK(Callers) /\ Top.loc \in Nat \cup {-1}
  BY TopType DEF LoadReturn
<1>2. FramesOK(stack')
  BY <1>1, ReturnedOK DEF LoadReturn
<1> QED BY <1>2 DEF LoadReturn, TypeOK, PlacementOK
LEMMA StoreAllocateType ==
  ASSUME TypeOK, StoreAllocate
  PROVE  TypeOK'
<1> DEFINE c == Top.c
           f == [Top EXCEPT !.fn = "write"]
           g == LoadCall(c, LineRange(c, Top.cl))
<1>1. /\ stack # <<>> /\ FramesOK(stack) /\ Top \in Frame /\ FrameOK(Top)
      /\ c \in Levels /\ Top.cl \in Nat /\ Top.range \in AddrRange
      /\ TopLine \in Nat \ {0} /\ Top.cl <= LastCl(c, Top.range)
  BY TopType DEF StoreAllocate, Storing
<1>2. f \in Frame /\ FrameOK(f)
  <2>1. f \in Frame
    <3>1. "write" \in Functions_
      BY DEF Functions_
    <3> QED BY <1>1, <3>1, Zenon DEF Frame
  <2>2. f.fn = "write" /\ f.c = c /\ f.cl = Top.cl /\ f.range = Top.range
    BY <1>1 DEF Frame
  <2> QED BY <1>1, <2>1, <2>2 DEF FrameOK
<1>3. g \in Frame /\ FrameOK(g)
  BY <1>1, GeometryType, CallFrames
<1>4. stats' \in CounterTable
  BY <1>1, BumpType DEF StoreAllocate, TypeOK, Counters
<1>5. FramesOK(stack')
  <2>1. FramesOK(Continue(f))
    BY <1>1, <1>2, ContinueOK
  <2>2. stack' = Append(Continue(f), g)
    BY DEF StoreAllocate
  <2> HIDE DEF f, g
  <2> QED BY <1>3, <2>1, <2>2, PushOK
<1> QED BY <1>4, <1>5 DEF StoreAllocate, TypeOK, PlacementOK

LEMMA StoreInjectType ==
  ASSUME TypeOK, StoreInject
  PROVE  TypeOK'
<1>1. /\ stack # <<>> /\ FramesOK(stack) /\ Top \in Frame /\ FrameOK(Top)
      /\ Top.c \in Levels /\ Top.cl \in Nat /\ Top.cl <= LastCl(Top.c, Top.range)
  BY TopType DEF StoreInject, Storing
<1> DEFINE e == [cl_id |-> Top.cl, dirty |-> TRUE, invalid |-> FALSE]
<1>2. PICK idx \in ReplaceIdx(Top.c) :
        Inject(Top.c, e, idx, Continue([Top EXCEPT !.fn = "write", !.loc = idx]))
  BY DEF StoreInject
<1> DEFINE f == [Top EXCEPT !.fn = "write", !.loc = idx]
<1>3. e \in Entry
  BY <1>1 DEF Entry
<1>4. FramesOK(Continue(f))
  <2>1. idx \in Nat \cup {-1} /\ "write" \in Functions_
    BY <1>1, ReplaceIdxType, GeometryType DEF Functions_
  <2>2. f \in Frame
    BY <1>1, <2>1, Zenon DEF Frame
  <2>3. f.fn = "write" /\ f.c = Top.c /\ f.cl = Top.cl /\ f.range = Top.range
    BY <1>1 DEF Frame
  <2>4. FrameOK(f)
    BY <1>1, <2>3 DEF FrameOK
  <2> QED BY <1>1, <2>2, <2>4, ContinueOK
<1> HIDE DEF e, f
<1>5. /\ PlacementOK' /\ bits' \in [Levels -> SUBSET Int]
      /\ stats' \in CounterTable /\ FramesOK(stack')
      /\ memory' \in AccessTable /\ owed' \subseteq Nat
  BY <1>1, <1>2, <1>3, <1>4, InjectType DEF f
<1> QED BY <1>5 DEF StoreInject, TypeOK

LEMMA StoreLookupType ==
  ASSUME TypeOK, StoreLookup
  PROVE  TypeOK'
<1> DEFINE loc == Location(Top.c, Top.cl)
           f   == [Top EXCEPT !.fn = "write", !.loc = loc]
<1>1. /\ stack # <<>> /\ FramesOK(stack) /\ Top \in Frame /\ FrameOK(Top)
      /\ Top.c \in Levels /\ Top.cl \in Nat /\ Top.cl <= LastCl(Top.c, Top.range)
  BY TopType DEF StoreLookup, Storing
<1>2. loc \in Nat \cup {-1} /\ "write" \in Functions_
  BY <1>1, LocationType, GeometryType DEF TypeOK, Functions_
<1>3. f \in Frame
  <2> HIDE DEF loc
  <2> QED BY <1>1, <1>2, Zenon DEF Frame
<1>4. f.fn = "write" /\ f.c = Top.c /\ f.cl = Top.cl /\ f.range = Top.range
  BY <1>1 DEF Frame
<1>5. FrameOK(f)
  BY <1>1, <1>4 DEF FrameOK
<1>6. stack' = Continue(f)
  BY DEF StoreLookup
<1>7. FramesOK(stack')
  <2> HIDE DEF f
  <2> QED BY <1>1, <1>3, <1>5, <1>6, ContinueOK
<1> QED BY <1>7 DEF StoreLookup, TypeOK, PlacementOK

LEMMA TouchedBitsType ==
  ASSUME NEW f \in Frame
  PROVE  TouchedBits(f) \subseteq Int
<1>1. f.c \in Levels /\ f.cl \in Nat /\ f.loc \in Int
        /\ f.range.addr \in Int /\ f.range.length \in Int
  BY DEF Frame, AddrRange
<1> DEFINE base  == BitBase(f.c, SetId(f.c, f.cl), f.loc)
           line  == f.cl * Cache[f.c].cl_size
           start == Larger(f.range.addr, line)
           end   == Smaller(f.range.addr + f.range.length, line + Cache[f.c].cl_size)
<1>2. base \in Int
  <2>1. SetId(f.c, f.cl) \in Int
    BY <1>1, GeometryType
  <2> QED BY <1>1, <2>1, BitBaseType
<1>3. line \in Int /\ Cache[f.c].cl_size \in Int
  BY <1>1, CacheType, TimesIsInt
<1>4. start \in Int /\ end \in Int
  <2> HIDE DEF line
  <2> QED BY <1>1, <1>3 DEF Larger, Smaller
<1>5. TouchedBits(f) = {base + b : b \in start - line .. end - line - 1}
  BY DEF TouchedBits
<1> HIDE DEF base, line, start, end
<1> QED BY <1>2, <1>3, <1>4, <1>5

LEMMA MarkTouchedType ==
  ASSUME TypeOK, Top \in Frame, MarkTouched
  PROVE  bits' \in [Levels -> SUBSET Int]
<1>1. TouchedBits(Top) \subseteq Int
  BY TouchedBitsType
<1> QED BY <1>1 DEF MarkTouched, TypeOK

LEMMA NextLineType ==
  ASSUME FramesOK(stack), stack # <<>>, Top \in Frame
  PROVE  FramesOK(Continue(NextLine))
<1>1. Top.cl + 1 \in Nat /\ -1 \in Nat \cup {-1} /\ "store" \in Functions_
  BY DEF Frame, Functions_
<1>2. NextLine \in Frame
  BY <1>1, Zenon DEF Frame, NextLine
<1>3. NextLine.fn = "store"
  BY DEF NextLine, Frame
<1>4. FrameOK(NextLine)
  BY <1>3 DEF FrameOK
<1> QED BY <1>2, <1>4, ContinueOK

\* Setting the dirty bit of one slot keeps the placement well typed, whichever
\* slot it is.
LEMMA DirtyBitType ==
  ASSUME PlacementOK, NEW c \in Levels, NEW s \in Sets(c), NEW w, NEW d \in BOOLEAN,
         placement' = [placement EXCEPT ![c][s][w].dirty = d]
  PROVE  PlacementOK'
<1> DEFINE q == placement[c][s]
           r == [q EXCEPT ![w].dirty = d]
<1>1. q \in [Ways(c) -> Entry]
  BY DEF PlacementOK
<1>2. r \in [Ways(c) -> Entry]
  <2>1. ASSUME NEW v \in Ways(c) PROVE [q[v] EXCEPT !.dirty = d] \in Entry
    BY <1>1 DEF Entry
  <2>2. r = [v \in Ways(c) |-> IF v = w THEN [q[v] EXCEPT !.dirty = d] ELSE q[v]]
    BY <1>1
  <2> QED BY <1>1, <2>1, <2>2
<1>3. placement' = [placement EXCEPT ![c][s] = r]
  OBVIOUS
<1> HIDE DEF r
<1> QED BY <1>2, <1>3, PlacementUpdate

LEMMA StoreDirtyType ==
  ASSUME TypeOK, StoreDirty
  PROVE  TypeOK'
<1>1. /\ stack # <<>> /\ FramesOK(stack) /\ Top \in Frame
      /\ Top.c \in Levels /\ TopSet \in Sets(Top.c)
  BY TopType DEF StoreDirty
<1>2. bits' \in [Levels -> SUBSET Int]
  BY <1>1, MarkTouchedType DEF StoreDirty
<1>3. PlacementOK'
  <2>1. placement' = [placement EXCEPT ![Top.c][TopSet][Top.loc].dirty = TRUE]
    BY DEF StoreDirty
  <2> QED BY <1>1, <2>1, DirtyBitType DEF TypeOK
<1>4. FramesOK(stack')
  BY <1>1, NextLineType DEF StoreDirty
<1> QED BY <1>2, <1>3, <1>4 DEF StoreDirty, TypeOK

LEMMA StoreForwardType ==
  ASSUME TypeOK, StoreForward
  PROVE  TypeOK'
<1> DEFINE range == ClipRange(Top.c, Top.cl, Top.range)
           st    == IF Cache[Top.c].store_to = None THEN stats
                    ELSE Bump(stats, Top.c, "EVICT", range.length)
<1>1. /\ stack # <<>> /\ FramesOK(stack) /\ Top \in Frame /\ FrameOK(Top)
      /\ Top.fn = "write" /\ Top.c \in Levels /\ Top.cl \in Nat
      /\ Top.range \in AddrRange /\ Top.nt \in BOOLEAN
  BY TopType DEF StoreForward
<1>2. bits' \in [Levels -> SUBSET Int]
  BY <1>1, MarkTouchedType DEF StoreForward
<1>3. range \in AddrRange
  <2>1. Top.cl <= LastCl(Top.c, Top.range)
    BY <1>1 DEF FrameOK
  <2> QED BY <1>1, <2>1, ClipType
<1>4. st \in CounterTable
  <2>1. range.length \in Nat
    BY <1>3 DEF AddrRange
  <2> HIDE DEF range
  <2> QED BY <1>1, <2>1, BumpType DEF TypeOK, Counters
<1>5. FramesOK(Continue(NextLine))
  BY <1>1, NextLineType
<1>6. PassDown(Top.c, range, Top.nt, st, Continue(NextLine))
  BY DEF StoreForward
<1> HIDE DEF range, st
<1>7. /\ stats' \in CounterTable /\ FramesOK(stack')
      /\ memory' \in AccessTable /\ owed' \subseteq Nat
  BY <1>1, <1>3, <1>4, <1>5, <1>6, PassDownType
<1> QED BY <1>2, <1>7 DEF StoreForward, TypeOK, PlacementOK

LEMMA StoreReturnType ==
  ASSUME TypeOK, StoreReturn
  PROVE  TypeOK'
<1>1. FramesOK(stack')
  BY TopType DEF StoreReturn
<1> QED BY <1>1 DEF StoreReturn, TypeOK, PlacementOK

LEMMA VictimStepType ==
  ASSUME TypeOK, VictimStep
  PROVE  TypeOK'
<1>1. CASE InjectVictim
  <2> DEFINE e == [cl_id |-> Top.cl, dirty |-> Top.dirty, invalid |-> FALSE]
  <2>1. /\ FramesOK(Callers) /\ Top.c \in Levels /\ Top.cl \in Nat /\ Top.dirty \in BOOLEAN
    BY <1>1, TopType DEF InjectVictim
  <2>2. PICK idx \in ReplaceIdx(Top.c) : Inject(Top.c, e, idx, Callers)
    BY <1>1 DEF InjectVictim
  <2>3. e \in Entry
    BY <2>1 DEF Entry
  <2> HIDE DEF e
  <2>4. /\ PlacementOK' /\ bits' \in [Levels -> SUBSET Int]
        /\ stats' \in CounterTable /\ FramesOK(stack')
        /\ memory' \in AccessTable /\ owed' \subseteq Nat
    BY <2>1, <2>2, <2>3, InjectType
  <2> QED BY <1>1, <2>4 DEF InjectVictim, TypeOK
<1>2. CASE CreditVictim
  <2>1. /\ FramesOK(Callers) /\ Top.c \in Levels /\ TopLine \in Nat /\ FrameOK(Top)
        /\ Top.fn = "credit"
    BY <1>2, TopType DEF CreditVictim
  <2>2. Cache[Top.c].victims_to \in Levels
    BY <2>1, CacheType DEF FrameOK
  <2>3. Bump(stats, Top.c, "EVICT", TopLine) \in CounterTable
    BY <2>1, BumpType DEF TypeOK, Counters
  <2>4. stats' \in CounterTable
    BY <1>2, <2>1, <2>2, <2>3, BumpType DEF CreditVictim, Counters
  <2> QED BY <1>2, <2>1, <2>4 DEF CreditVictim, TypeOK, PlacementOK
<1> QED BY <1>1, <1>2 DEF VictimStep
LEMMA NextSlotType ==
  ASSUME FramesOK(stack), stack # <<>>, Top \in Frame, Top.loc \in Ways(Top.c)
  PROVE  FramesOK(Continue(NextSlot(Top)))
<1> DEFINE f == [Top EXCEPT !.fn = "flush", !.loc = @ + 1]
           g == [Top EXCEPT !.fn = "flush", !.cl = @ + 1, !.loc = 0]
<1>1. Top.c \in Levels /\ Top.cl + 1 \in Nat /\ Top.loc \in Nat /\ "flush" \in Functions_
  BY GeometryType DEF Frame, Functions_
<1>2. Cache[Top.c].ways \in Nat \ {0}
  BY <1>1, CacheType
<1>3. CASE Top.loc < Cache[Top.c].ways - 1
  <2>1. Top.loc + 1 \in Ways(Top.c) /\ Top.loc + 1 \in Nat \cup {-1}
    BY <1>2, <1>3 DEF Ways
  <2>2. f \in Frame
    BY <1>1, <2>1, Zenon DEF Frame
  <2>3. f.fn = "flush" /\ f.c = Top.c /\ f.loc = Top.loc + 1
    BY DEF Frame
  <2>4. FrameOK(f)
    BY <2>1, <2>3 DEF FrameOK
  <2>5. NextSlot(Top) = f
    BY <1>3 DEF NextSlot
  <2> HIDE DEF f
  <2> QED BY <2>2, <2>4, <2>5, ContinueOK
<1>4. CASE ~(Top.loc < Cache[Top.c].ways - 1)
  <2>1. 0 \in Ways(Top.c) /\ 0 \in Nat \cup {-1}
    BY <1>2 DEF Ways
  <2>2. g \in Frame
    BY <1>1, <2>1, Zenon DEF Frame
  <2>3. g.fn = "flush" /\ g.c = Top.c /\ g.loc = 0
    BY DEF Frame
  <2>4. FrameOK(g)
    BY <2>1, <2>3 DEF FrameOK
  <2>5. NextSlot(Top) = g
    BY <1>4 DEF NextSlot
  <2> HIDE DEF g
  <2> QED BY <2>2, <2>4, <2>5, ContinueOK
<1> QED BY <1>3, <1>4

LEMMA FlushSlotType ==
  ASSUME TypeOK, FlushSlot
  PROVE  TypeOK'
<1> DEFINE c    == Top.c
           slot == SlotBits(c, Top.cl, Top.loc)
           st   == Bump(stats, c, "EVICT", TopLine)
           f    == [Top EXCEPT !.fn = "clean"]
<1>1. /\ stack # <<>> /\ FramesOK(stack) /\ Top \in Frame /\ FrameOK(Top)
      /\ Top.fn = "flush" /\ c \in Levels /\ TopLine \in Nat /\ Top.cl \in Sets(c)
  BY TopType DEF FlushSlot
<1>2. Top.loc \in Ways(c)
  BY <1>1 DEF FrameOK
<1>3. Slot \in Entry
  BY <1>1, <1>2 DEF Slot, TypeOK, PlacementOK
<1>4. CASE /\ bits' = (IF Cache[c].write_combining /\ Cache[c].store_to # None
                       THEN [bits EXCEPT ![c] = @ \ slot] ELSE bits)
           /\ PassDown(c, LineRange(c, Slot.cl_id), NonTemporalFlush(c, slot),
                       st, Continue(f))
  <2>1. bits' \in [Levels -> SUBSET Int]
    <3> HIDE DEF slot
    <3> QED BY <1>4 DEF TypeOK
  <2>2. LineRange(c, Slot.cl_id) \in AddrRange
    BY <1>1, <1>3, GeometryType DEF Entry
  <2>3. NonTemporalFlush(c, slot) \in BOOLEAN
    BY <1>1, CacheType DEF Configuration, NonTemporalFlush
  <2>4. st \in CounterTable
    BY <1>1, BumpType DEF TypeOK, Counters
  <2>5. FramesOK(Continue(f))
    <3>1. f \in Frame
      <4>1. "clean" \in Functions_
        BY DEF Functions_
      <4> QED BY <1>1, <4>1, Zenon DEF Frame
    <3>2. f.fn = "clean" /\ f.c = c /\ f.cl = Top.cl /\ f.loc = Top.loc
      BY <1>1 DEF Frame
    <3>3. FrameOK(f)
      BY <1>1, <1>2, <3>2 DEF FrameOK
    <3> QED BY <1>1, <3>1, <3>3, ContinueOK
  <2>6. PassDown(c, LineRange(c, Slot.cl_id), NonTemporalFlush(c, slot), st, Continue(f))
    BY <1>4
  <2> HIDE DEF c, slot, st, f
  <2>7. /\ stats' \in CounterTable /\ FramesOK(stack')
        /\ memory' \in AccessTable /\ owed' \subseteq Nat
    BY <1>1, <2>2, <2>3, <2>4, <2>5, <2>6, PassDownType DEF c
  <2> QED BY <2>1, <2>7 DEF FlushSlot, TypeOK, PlacementOK
<1>5. CASE stack' = Continue(NextSlot(Top)) /\ UNCHANGED <<bits, stats, memory, owed>>
  <2>1. FramesOK(stack')
    BY <1>1, <1>2, <1>5, NextSlotType
  <2> QED BY <1>5, <2>1 DEF FlushSlot, TypeOK, PlacementOK
<1> QED BY <1>4, <1>5 DEF FlushSlot

LEMMA FlushCleanType ==
  ASSUME TypeOK, FlushClean
  PROVE  TypeOK'
<1>1. /\ stack # <<>> /\ FramesOK(stack) /\ Top \in Frame /\ FrameOK(Top)
      /\ Top.fn = "clean" /\ Top.c \in Levels
  BY TopType DEF FlushClean
<1>2. Top.cl \in Sets(Top.c) /\ Top.loc \in Ways(Top.c)
  BY <1>1 DEF FrameOK
<1>3. PlacementOK'
  <2>1. placement' = [placement EXCEPT ![Top.c][Top.cl][Top.loc].dirty = FALSE]
    BY DEF FlushClean
  <2> QED BY <1>1, <1>2, <2>1, DirtyBitType DEF TypeOK
<1>4. FramesOK(stack')
  BY <1>1, <1>2, NextSlotType DEF FlushClean
<1> QED BY <1>3, <1>4 DEF FlushClean, TypeOK

LEMMA FlushReturnType ==
  ASSUME TypeOK, FlushReturn
  PROVE  TypeOK'
<1>1. FramesOK(stack')
  BY TopType DEF FlushReturn
<1> QED BY <1>1 DEF FlushReturn, TypeOK, PlacementOK

LEMMA YieldType ==
  ASSUME NEW p \in Levels
  PROVE  Yield(p) \in Seq(Levels)
<1>1. \A l \in Levels : <<l>> \in Seq(Levels)
  OBVIOUS
<1>2. <<>> \in Seq(Levels)
  OBVIOUS
<1>3. Cache[p].victims_to \in Levels \cup {None} /\ Cache[p].store_to \in Levels \cup {None}
  BY CacheType
<1>4. \A s, t \in Seq(Levels) : s \o t \in Seq(Levels)
  OBVIOUS
<1> QED BY <1>1, <1>2, <1>3, <1>4 DEF Yield

LEMMA WalkStepType ==
  ASSUME TypeOK, WalkStep
  PROVE  TypeOK'
<1>0. walk \in WalkState /\ walk.pending \in Seq(Levels) /\ walk.p \in Levels \cup {None}
  BY DEF TypeOK, WalkState
<1>1. CASE WalkOn
  <2>1. walk.p \in Levels
    BY <1>0, <1>1 DEF WalkOn
  <2>2. walk' \in WalkState
    BY <1>0, <1>1, <2>1, CacheType, YieldType DEF WalkOn, WalkState
  <2> QED BY <1>1, <2>2 DEF WalkOn, TypeOK, PlacementOK
<1>2. ASSUME walk.pending # <<>>
      PROVE  Head(walk.pending) \in Levels /\ Visited \in WalkState
  <2>1. Head(walk.pending) \in Levels /\ Tail(walk.pending) \in Seq(Levels)
    BY <1>0, <1>2
  <2> QED BY <1>0, <2>1 DEF Visited, WalkState
<1>3. CASE VisitFlush
  <2>1. Head(walk.pending) \in Levels /\ walk' \in WalkState
    BY <1>2, <1>3 DEF VisitFlush, Visiting
  <2>2. FramesOK(stack')
    <3>1. FlushCall(Head(walk.pending)) \in Frame /\ FrameOK(FlushCall(Head(walk.pending)))
      BY <2>1, FlushFrame
    <3> QED BY <1>3, <3>1 DEF VisitFlush, FramesOK
  <2> QED BY <1>3, <2>1, <2>2 DEF VisitFlush, TypeOK, PlacementOK
<1>4. CASE VisitReset
  <2>1. Head(walk.pending) \in Levels /\ walk' \in WalkState
    BY <1>2, <1>4 DEF VisitReset, Visiting
  <2>2. Zero \in [Counters -> Counter]
    BY DEF Zero, Counter
  <2>3. stats' \in CounterTable
    BY <1>4, <2>1, <2>2 DEF VisitReset, TypeOK, CounterTable
  <2> QED BY <1>4, <2>1, <2>3 DEF VisitReset, TypeOK, PlacementOK
<1>5. CASE VisitInvalidate
  <2> DEFINE c == Head(walk.pending)
             q == [s \in DOMAIN placement[c] |-> [w \in DOMAIN placement[c][s] |->
                     [placement[c][s][w] EXCEPT !.invalid = TRUE]]]
  <2>1. c \in Levels /\ walk' \in WalkState
    BY <1>2, <1>5 DEF VisitInvalidate, Visiting
  <2>2. q \in [Sets(c) -> [Ways(c) -> Entry]]
    <3>1. placement[c] \in [Sets(c) -> [Ways(c) -> Entry]]
      BY <2>1 DEF TypeOK, PlacementOK
    <3>2. \A e \in Entry : [e EXCEPT !.invalid = TRUE] \in Entry
      BY DEF Entry
    <3> QED BY <3>1, <3>2
  <2>3. placement' = [placement EXCEPT ![c] = q]
    BY <1>5 DEF VisitInvalidate
  <2>4. PlacementOK'
    <3> HIDE DEF q, c
    <3>1. placement' = [d \in Levels |-> placement'[d]]
      BY <2>3 DEF TypeOK, PlacementOK
    <3>2. ASSUME NEW d \in Levels
          PROVE  placement'[d] \in [Sets(d) -> [Ways(d) -> Entry]]
      BY <2>1, <2>2, <2>3 DEF TypeOK, PlacementOK
    <3> QED BY <3>1, <3>2 DEF PlacementOK
  <2> QED BY <1>5, <2>1, <2>4 DEF VisitInvalidate, TypeOK
<1>6. CASE WalkEnd
  <2>1. walk' \in WalkState
    BY <1>0, <1>6, FirstLevelType DEF WalkEnd, WalkState, Jobs
  <2>2. NoAccess \in AccessTable
    BY DEF NoAccess, AccessTable, Counter
  <2>3. memory' \in AccessTable
    BY <1>6, <2>2 DEF WalkEnd, TypeOK
  <2> QED BY <1>6, <2>1, <2>3 DEF WalkEnd, TypeOK, PlacementOK
<1> QED BY <1>1, <1>3, <1>4, <1>5, <1>6 DEF WalkStep

LEMMA InitType == Init => TypeOK
<1> SUFFICES ASSUME Init PROVE TypeOK
  OBVIOUS
<1>1. PlacementOK
  <2>1. [cl_id |-> 0, dirty |-> FALSE, invalid |-> TRUE] \in Entry
    BY DEF Entry
  <2> QED BY <2>1 DEF Init, PlacementOK
<1>2. bits \in [Levels -> SUBSET Int]
  <2>1. ASSUME NEW c \in Levels PROVE \A b \in FreshBits(c) : b \subseteq Int
    <3>1. BitsOf(c) \in Int
      BY CacheType, TimesIsInt DEF BitsOf
    <3>2. (BitsOf(c) + 7) \div 8 .. BitsOf(c) - 1 \subseteq Int
      BY <3>1, DivIsInt
    <3> QED BY <3>2 DEF FreshBits
  <2>2. \A c \in Levels : bits[c] \subseteq Int
    BY <2>1 DEF Init
  <2>3. bits = [c \in Levels |-> bits[c]]
    BY DEF Init
  <2> QED BY <2>2, <2>3
<1>3. stats \in CounterTable
  BY DEF Init, CounterTable, Zero, Counter
<1>4. FramesOK(stack) /\ owed \subseteq Nat
  BY DEF Init, FramesOK
<1>5. walk \in WalkState
  BY DEF Init, WalkState
<1>6. memory \in AccessTable
  BY DEF Init, NoAccess, AccessTable, Counter
<1>7. calls \in 0..MaxCalls
  BY HierarchyAssumption DEF Init
<1> QED BY <1>1, <1>2, <1>3, <1>4, <1>5, <1>6, <1>7 DEF TypeOK

\* Every reachable state of every hierarchy is well typed: entries stay entries,
\* no counter becomes negative, no frame of force_write_back leaves its cache,
\* no range handed down by a write-through store has a negative length.
THEOREM TypeCorrect == Spec => []TypeOK
<1>1. Init => TypeOK
  BY InitType
<1>2. TypeOK /\ [Next]_vars => TypeOK'
  <2> SUFFICES ASSUME TypeOK, [Next]_vars PROVE TypeOK'
    OBVIOUS
  <2>1. CASE Call
    BY <2>1, CallType
  <2>2. CASE LoadStep
    BY <2>2, LoadHitType, LoadMissType, LoadFillType, LoadReturnType DEF LoadStep
  <2>3. CASE StoreStep
    BY <2>3, StoreAllocateType, StoreInjectType, StoreLookupType, StoreDirtyType,
       StoreForwardType, StoreReturnType DEF StoreStep
  <2>4. CASE VictimStep
    BY <2>4, VictimStepType
  <2>5. CASE FlushStep
    BY <2>5, FlushSlotType, FlushCleanType, FlushReturnType DEF FlushStep
  <2>6. CASE WalkStep
    BY <2>6, WalkStepType
  <2>7. CASE UNCHANGED vars
    BY <2>7 DEF vars, TypeOK, PlacementOK
  <2> QED BY <2>1, <2>2, <2>3, <2>4, <2>5, <2>6, <2>7 DEF Next, Step
<1> QED BY <1>1, <1>2, PTL DEF Spec

-----------------------------------------------------------------------------
(* The queues of FIFO and LRU fill in order, for every hierarchy: the invalid   *)
(* slots of a set are always its last ways.                                     *)

\* The policies that keep a set as a queue, and what a filled queue looks like.
Queued(c) == Cache[c].replacement_policy \in {"FIFO", "LRU"}

Packed(c, q) ==
  \A v, w \in Ways(c) : v < w /\ ~q[w].invalid => ~q[v].invalid

(* Queues. *)

\* A valid entry at the front leaves no gap, wherever the moving part ends.
LEMMA PushFrontPacked ==
  ASSUME NEW c \in Levels, NEW q \in [Ways(c) -> Entry], Packed(c, q),
         NEW k \in Ways(c), NEW e \in Entry, ~e.invalid
  PROVE  Packed(c, PushFront(q, k, e))
<1> DEFINE r == PushFront(q, k, e)
<1> SUFFICES ASSUME NEW v \in Ways(c), NEW w \in Ways(c), v < w, ~r[w].invalid
             PROVE  ~r[v].invalid
  BY DEF Packed
<1>1. v \in Nat /\ w \in Nat /\ k \in Nat
  BY GeometryType
<1>2. \A u \in Ways(c) : r[u] = IF u = 0 THEN e ELSE IF u <= k THEN q[u - 1] ELSE q[u]
  BY DEF PushFront
<1> HIDE DEF r
<1>3. \A u \in Ways(c) : u # 0 => u - 1 \in Ways(c)
  BY CacheType DEF Ways
<1>4. CASE v = 0
  BY <1>2, <1>4
<1>5. CASE v # 0 /\ w <= k
  <2>1. r[w] = q[w - 1] /\ r[v] = q[v - 1]
    BY <1>1, <1>2, <1>5
  <2>2. v - 1 \in Ways(c) /\ w - 1 \in Ways(c) /\ v - 1 < w - 1
    BY <1>1, <1>3, <1>5
  <2> QED BY <2>1, <2>2 DEF Packed
<1>6. CASE v # 0 /\ w > k
  <2>1. r[w] = q[w]
    BY <1>1, <1>2, <1>6
  <2>2. PICK u \in Ways(c) : u < w /\ r[v] = q[u]
    <3>1. v - 1 \in Ways(c) /\ v - 1 < w
      BY <1>1, <1>3, <1>6
    <3> QED BY <1>1, <1>2, <1>6, <3>1
  <2> QED BY <2>1, <2>2 DEF Packed
<1> QED BY <1>1, <1>4, <1>5, <1>6

\* A look-up that succeeds returns a way that holds the line.
LEMMA LocationHolds ==
  ASSUME PlacementOK, NEW c \in Levels, NEW cl \in Nat, Location(c, cl) # -1
  PROVE  /\ Location(c, cl) \in Ways(c)
         /\ Holds(placement[c][SetId(c, cl)][Location(c, cl)], cl)
<1> DEFINE hits == {w \in Ways(c) : Holds(placement[c][SetId(c, cl)][w], cl)}
<1>1. hits \in SUBSET Nat
  BY GeometryType
<1>2. hits # {} => (CHOOSE w \in hits : \A v \in hits : w <= v) \in hits
  <2> HIDE DEF hits
  <2> QED BY <1>1, LeastElement
<1>3. Location(c, cl) \in hits
  BY <1>2 DEF Location
<1> QED BY <1>3

\* Replacing one set by a packed queue keeps every queue packed.
LEMMA QueueUpdate ==
  ASSUME PlacementOK, FillsBeforeReplacing, NEW c \in Levels, NEW s \in Sets(c),
         NEW q, Queued(c) => Packed(c, q),
         placement' = [placement EXCEPT ![c][s] = q]
  PROVE  FillsBeforeReplacing'
<1> SUFFICES ASSUME NEW d \in Levels, Queued(d), NEW t \in Sets(d)
             PROVE  Packed(d, placement'[d][t])
  BY DEF FillsBeforeReplacing, Queued, Packed
<1>1. placement \in [Levels -> {placement[x] : x \in Levels}]
  BY DEF PlacementOK
<1>2. placement[d] \in [Sets(d) -> [Ways(d) -> Entry]]
  BY DEF PlacementOK
<1>3. Packed(d, placement[d][t])
  BY DEF FillsBeforeReplacing, Queued, Packed
<1>4. CASE d = c /\ t = s
  <2>1. placement'[d][t] = q
    BY <1>1, <1>2, <1>4
  <2> QED BY <1>4, <2>1
<1>5. CASE ~(d = c /\ t = s)
  <2>1. placement'[d][t] = placement[d][t]
    BY <1>1, <1>2, <1>5
  <2> QED BY <1>3, <2>1
<1> QED BY <1>4, <1>5

\* Setting or clearing a dirty bit moves no line.
LEMMA DirtyBitPacked ==
  ASSUME PlacementOK, FillsBeforeReplacing, NEW c \in Levels, NEW s \in Sets(c),
         NEW w, NEW d, placement' = [placement EXCEPT ![c][s][w].dirty = d]
  PROVE  FillsBeforeReplacing'
<1> DEFINE q == placement[c][s]
           r == [q EXCEPT ![w].dirty = d]
<1>1. q \in [Ways(c) -> Entry]
  BY DEF PlacementOK
<1>2. ASSUME NEW v \in Ways(c) PROVE r[v].invalid = q[v].invalid
  BY <1>1 DEF Entry
<1>3. Queued(c) => Packed(c, q)
  BY DEF FillsBeforeReplacing, Queued, Packed
<1>4. Queued(c) => Packed(c, r)
  <2> HIDE DEF q, r
  <2> QED BY <1>2, <1>3 DEF Packed
<1>5. placement' = [placement EXCEPT ![c][s] = r]
  OBVIOUS
<1> HIDE DEF r
<1> QED BY <1>4, <1>5, QueueUpdate

\* Cache__inject puts the new line at the front of a queue.
LEMMA InjectPacked ==
  ASSUME PlacementOK, FillsBeforeReplacing, NEW c \in Levels, NEW e \in Entry,
         ~e.invalid, NEW idx, NEW callers, Inject(c, e, idx, callers)
  PROVE  FillsBeforeReplacing'
<1> DEFINE s == SetId(c, e.cl_id)
           q == placement[c][s]
<1>1. s \in Sets(c) /\ Cache[c].ways - 1 \in Ways(c)
  BY GeometryType DEF Entry
<1>2. q \in [Ways(c) -> Entry]
  BY <1>1 DEF PlacementOK
<1>3. Queued(c) => Packed(c, q)
  BY <1>1 DEF FillsBeforeReplacing, Queued, Packed
<1>4. Queued(c) => Packed(c, Injected(c, q, idx, e))
  BY <1>1, <1>2, <1>3, PushFrontPacked DEF Injected, Queued
<1>5. placement' = [placement EXCEPT ![c][s] = Injected(c, q, idx, e)]
  BY DEF Inject
<1> HIDE DEF s, q
<1> QED BY <1>1, <1>4, <1>5, QueueUpdate

(* The steps that change a queue. *)

LEMMA LoadHitPacked ==
  ASSUME TypeOK, FillsBeforeReplacing, LoadHit
  PROVE  FillsBeforeReplacing'
<1> DEFINE c   == Top.c
           loc == Location(c, Top.cl)
           q   == placement[c][TopSet]
<1>1. c \in Levels /\ Top.cl \in Nat /\ TopSet \in Sets(c) /\ TopSet = SetId(c, Top.cl)
  BY TopType DEF LoadHit, TopSet
<1>2. loc \in Ways(c) /\ ~q[loc].invalid
  BY <1>1, LocationHolds DEF LoadHit, TypeOK, Holds
<1>3. q \in [Ways(c) -> Entry]
  BY <1>1 DEF TypeOK, PlacementOK
<1>4. CASE UNCHANGED placement
  BY <1>4 DEF FillsBeforeReplacing
<1>5. CASE placement' = [placement EXCEPT ![Top.c][TopSet] = PushFront(@, loc, @[loc])]
  <2>1. Queued(c) => Packed(c, q)
    BY <1>1 DEF FillsBeforeReplacing, Queued, Packed
  <2>2. q[loc] \in Entry
    BY <1>2, <1>3
  <2>3. placement' = [placement EXCEPT ![c][TopSet] = PushFront(q, loc, q[loc])]
    BY <1>5
  <2> HIDE DEF c, loc, q
  <2>4. Queued(c) => Packed(c, PushFront(q, loc, q[loc]))
    BY <1>1, <1>2, <1>3, <2>1, <2>2, PushFrontPacked
  <2> QED BY <1>1, <2>3, <2>4, QueueUpdate DEF TypeOK
<1> QED BY <1>4, <1>5 DEF LoadHit

LEMMA LoadFillPacked ==
  ASSUME TypeOK, FillsBeforeReplacing, LoadFill
  PROVE  FillsBeforeReplacing'
<1> DEFINE e == [cl_id |-> Top.cl, dirty |-> FALSE, invalid |-> FALSE]
<1>1. Top.c \in Levels /\ Top.cl \in Nat
  BY TopType DEF LoadFill
<1>2. e \in Entry /\ ~e.invalid
  BY <1>1 DEF Entry
<1>3. PICK idx \in ReplaceIdx(Top.c) :
        Inject(Top.c, e, idx, Continue([Top EXCEPT !.fn = "load", !.cl = @ + 1, !.loc = idx]))
  BY DEF LoadFill
<1> HIDE DEF e
<1> QED BY <1>1, <1>2, <1>3, InjectPacked DEF TypeOK

LEMMA StoreInjectPacked ==
  ASSUME TypeOK, FillsBeforeReplacing, StoreInject
  PROVE  FillsBeforeReplacing'
<1> DEFINE e == [cl_id |-> Top.cl, dirty |-> TRUE, invalid |-> FALSE]
<1>1. Top.c \in Levels /\ Top.cl \in Nat
  BY TopType DEF StoreInject, Storing
<1>2. e \in Entry /\ ~e.invalid
  BY <1>1 DEF Entry
<1>3. PICK idx \in ReplaceIdx(Top.c) :
        Inject(Top.c, e, idx, Continue([Top EXCEPT !.fn = "write", !.loc = idx]))
  BY DEF StoreInject
<1> HIDE DEF e
<1> QED BY <1>1, <1>2, <1>3, InjectPacked DEF TypeOK

LEMMA InjectVictimPacked ==
  ASSUME TypeOK, FillsBeforeReplacing, InjectVictim
  PROVE  FillsBeforeReplacing'
<1> DEFINE e == [cl_id |-> Top.cl, dirty |-> Top.dirty, invalid |-> FALSE]
<1>1. Top.c \in Levels /\ Top.cl \in Nat /\ Top.dirty \in BOOLEAN
  BY TopType DEF InjectVictim
<1>2. e \in Entry /\ ~e.invalid
  BY <1>1 DEF Entry
<1>3. PICK idx \in ReplaceIdx(Top.c) : Inject(Top.c, e, idx, Callers)
  BY DEF InjectVictim
<1> HIDE DEF e
<1> QED BY <1>1, <1>2, <1>3, InjectPacked DEF TypeOK

\* StoreDirty and FlushClean change dirty bits only.
LEMMA DirtyStepsPacked ==
  ASSUME TypeOK, FillsBeforeReplacing, StoreDirty \/ FlushClean
  PROVE  FillsBeforeReplacing'
<1>1. CASE StoreDirty
  <2>1. Top.c \in Levels /\ TopSet \in Sets(Top.c)
    BY <1>1, TopType DEF StoreDirty
  <2>2. placement' = [placement EXCEPT ![Top.c][TopSet][Top.loc].dirty = TRUE]
    BY <1>1 DEF StoreDirty
  <2> QED BY <2>1, <2>2, DirtyBitPacked DEF TypeOK
<1>2. CASE FlushClean
  <2>1. Top.c \in Levels /\ Top.cl \in Sets(Top.c)
    BY <1>2, TopType DEF FlushClean, FrameOK
  <2>2. placement' = [placement EXCEPT ![Top.c][Top.cl][Top.loc].dirty = FALSE]
    BY <1>2 DEF FlushClean
  <2> QED BY <2>1, <2>2, DirtyBitPacked DEF TypeOK
<1> QED BY <1>1, <1>2

\* mark_all_invalid empties the whole cache, so nothing valid is left behind a gap.
LEMMA VisitInvalidatePacked ==
  ASSUME TypeOK, FillsBeforeReplacing, VisitInvalidate
  PROVE  FillsBeforeReplacing'
<1> DEFINE c == Head(walk.pending)
<1> SUFFICES ASSUME NEW d \in Levels, Queued(d), NEW t \in Sets(d)
             PROVE  Packed(d, placement'[d][t])
  BY DEF FillsBeforeReplacing, Queued, Packed
<1>1. placement' = [placement EXCEPT ![c] =
        [s \in DOMAIN placement[c] |-> [w \in DOMAIN placement[c][s] |->
           [placement[c][s][w] EXCEPT !.invalid = TRUE]]]]
  BY DEF VisitInvalidate
<1>2. /\ placement = [x \in Levels |-> placement[x]]
      /\ placement[d] \in [Sets(d) -> [Ways(d) -> Entry]]
  BY DEF TypeOK, PlacementOK
<1>3. CASE d = c
  <2>1. \A w \in Ways(d) :
          placement'[d][t][w] = [placement[d][t][w] EXCEPT !.invalid = TRUE]
    BY <1>1, <1>2, <1>3
  <2>2. \A w \in Ways(d) : placement[d][t][w] \in Entry
    BY <1>2
  <2>3. \A e \in Entry : [e EXCEPT !.invalid = TRUE].invalid
    BY DEF Entry
  <2>4. \A w \in Ways(d) : placement'[d][t][w].invalid
    BY <2>1, <2>2, <2>3
  <2> QED BY <2>4 DEF Packed
<1>4. CASE d # c
  <2>1. placement'[d] = placement[d]
    BY <1>1, <1>2, <1>4
  <2> QED BY <2>1 DEF FillsBeforeReplacing, Queued, Packed
<1> QED BY <1>3, <1>4

\* All other steps leave the placement alone.
LEMMA OtherStepsPacked ==
  ASSUME FillsBeforeReplacing,
         \/ Call \/ LoadMiss \/ LoadReturn \/ StoreAllocate \/ StoreLookup
         \/ StoreForward \/ StoreReturn \/ CreditVictim \/ FlushSlot \/ FlushReturn
         \/ WalkOn \/ VisitFlush \/ VisitReset \/ WalkEnd \/ UNCHANGED vars
  PROVE  FillsBeforeReplacing'
<1>1. placement' = placement
  BY DEF Call, Load, Store, StartWalk, LoadMiss, LoadReturn, StoreAllocate, StoreLookup,
         StoreForward, StoreReturn, CreditVictim, FlushSlot, FlushReturn, WalkOn,
         VisitFlush, VisitReset, WalkEnd, vars
<1> QED BY <1>1 DEF FillsBeforeReplacing

\* In every FIFO and LRU cache of every hierarchy the valid lines of a set stand
\* before its invalid slots, whatever hits, misses, victim deliveries, dirty bits
\* and mark_all_invalid did to it: no line is replaced before its set is full.
THEOREM SetsFillInOrder == Spec => []FillsBeforeReplacing
<1>1. Init => FillsBeforeReplacing
  BY DEF Init, FillsBeforeReplacing
<1>2. TypeOK /\ FillsBeforeReplacing /\ [Next]_vars => FillsBeforeReplacing'
  <2> SUFFICES ASSUME TypeOK, FillsBeforeReplacing, [Next]_vars
               PROVE  FillsBeforeReplacing'
    OBVIOUS
  <2>1. CASE Call \/ UNCHANGED vars
    BY <2>1, OtherStepsPacked
  <2>2. CASE LoadStep
    BY <2>2, LoadHitPacked, LoadFillPacked, OtherStepsPacked DEF LoadStep
  <2>3. CASE StoreStep
    BY <2>3, StoreInjectPacked, DirtyStepsPacked, OtherStepsPacked DEF StoreStep
  <2>4. CASE VictimStep
    BY <2>4, InjectVictimPacked, OtherStepsPacked DEF VictimStep
  <2>5. CASE FlushStep
    BY <2>5, DirtyStepsPacked, OtherStepsPacked DEF FlushStep
  <2>6. CASE WalkStep
    BY <2>6, VisitInvalidatePacked, OtherStepsPacked DEF WalkStep
  <2> QED BY <2>1, <2>2, <2>3, <2>4, <2>5, <2>6 DEF Next, Step
<1> QED BY <1>1, <1>2, TypeCorrect, PTL DEF Spec
=============================================================================
