------------------------------ MODULE WriteProofs ------------------------------
(***************************************************************************)
(* No stored byte is lost on its way to main memory, in any hierarchy      *)
(* whose MRU caches write through.                                         *)
(***************************************************************************)
EXTENDS LineProofs

\* Of an MRU cache the code overwrites another line than the one it writes back,
\* unless there is only one; without write-back there is nothing to lose.
MRUWritesThrough ==
  \A c \in Levels : Cache[c].replacement_policy = "MRU" =>
    ~Cache[c].write_back \/ Cache[c].ways = 1

(* Lines and bytes. *)

LEMMA DivMonotone ==
  ASSUME NEW a \in Int, NEW b \in Int, NEW d \in Nat \ {0}, a <= b
  PROVE  a \div d <= b \div d
<1>1. (a \div d) * d <= a /\ b < (b \div d) * d + d
  OBVIOUS
<1>2. a \div d \in Int /\ b \div d \in Int
  BY DivIsInt
<1>3. \A x, y \in Int : x > y => x * d >= y * d + d
  <2> SUFFICES ASSUME NEW x \in Int, NEW y \in Int, x > y PROVE x * d >= y * d + d
    OBVIOUS
  <2>1. x >= y + 1
    OBVIOUS
  <2>2. x * d >= (y + 1) * d
    BY <2>1
  <2> QED BY <2>2
<1> QED BY <1>1, <1>2, <1>3, TimesIsInt

\* A byte lies in the line its number gives.
LEMMA InItsLine ==
  ASSUME NEW c \in Levels, NEW b \in Nat
  PROVE  /\ ClId(c, b) \in Nat
         /\ ClId(c, b) * Cache[c].cl_size \in Nat
         /\ ClId(c, b) * Cache[c].cl_size <= b
         /\ b < ClId(c, b) * Cache[c].cl_size + Cache[c].cl_size
         /\ b \in Bytes(LineRange(c, ClId(c, b)))
<1> DEFINE n == Cache[c].cl_size
           k == ClId(c, b)
           m == k * n
<1>1. n \in Nat \ {0}
  BY CacheType
<1>2. k \in Nat
  BY <1>1, DivIsNat DEF ClId
<1>3. m \in Nat
  BY <1>1, <1>2, TimesIsNat
<1>4. \A d \in Nat \ {0} : (b \div d) * d <= b /\ b < (b \div d) * d + d
  OBVIOUS
<1>5. m <= b /\ b < m + n
  BY <1>1, <1>4 DEF ClId
<1>6. LineRange(c, k) = [addr |-> m, length |-> n]
  BY DEF LineRange
<1> HIDE DEF m, n, k
<1>7. b \in Bytes(LineRange(c, k))
  BY <1>1, <1>3, <1>5, <1>6 DEF Bytes
<1> QED BY <1>2, <1>3, <1>5, <1>7 DEF m, n, k

\* The bytes of a range are in lines from the first to the last of the range.
LEMMA RangeLines ==
  ASSUME NEW c \in Levels, NEW range \in AddrRange, NEW b \in Bytes(range)
  PROVE  ClId(c, range.addr) <= ClId(c, b) /\ ClId(c, b) <= LastCl(c, range) /\ b \in Nat
<1>1. range.addr \in Nat /\ range.length \in Nat /\ Cache[c].cl_size \in Nat \ {0}
  BY CacheType DEF AddrRange
<1>2. b \in Nat /\ range.addr <= b /\ b <= range.addr + range.length - 1
        /\ range.addr + range.length - 1 \in Int
  BY <1>1 DEF Bytes
<1> QED BY <1>1, <1>2, DivMonotone DEF ClId, LastCl

\* What a write-through store hands on of a line is all of the range in it.
LEMMA ClipBytes ==
  ASSUME NEW c \in Levels, NEW range \in AddrRange, NEW b \in Bytes(range)
  PROVE  b \in Bytes(ClipRange(c, ClId(c, b), range))
<1> DEFINE n == Cache[c].cl_size
           m == ClId(c, b) * n
           start == Larger(m, range.addr)
           end == range.addr + range.length
<1>1. range.addr \in Nat /\ range.length \in Nat /\ n \in Nat \ {0}
  BY CacheType DEF AddrRange
<1>2. b \in Nat /\ range.addr <= b /\ b <= range.addr + range.length - 1
  BY <1>1 DEF Bytes
<1>3. m \in Nat /\ m <= b /\ b < m + n
  BY <1>2, InItsLine
<1> HIDE DEF m, n
<1>4. start \in Nat /\ start <= b /\ b < start + n /\ b < end
  BY <1>1, <1>2, <1>3 DEF Larger
<1>5. ClipRange(c, ClId(c, b), range) =
        [addr |-> start, length |-> IF start + n < end THEN n ELSE end - start]
  BY DEF ClipRange, m, n
<1>6. end \in Nat
  BY <1>1
<1> HIDE DEF start, end
<1>7. b \in Bytes([addr |-> start, length |-> IF start + n < end THEN n ELSE end - start])
  BY <1>1, <1>2, <1>4, <1>6 DEF Bytes
<1> QED BY <1>5, <1>7

(* Where the entries of a queue go. *)

LEMMA InjectedEntries ==
  ASSUME NEW c \in Levels, NEW q \in [Ways(c) -> Entry], NEW idx \in ReplaceIdx(c), NEW e
  PROVE  \A w \in Ways(c) : Injected(c, q, idx, e)[w] = e
                              \/ \E v \in Ways(c) : Injected(c, q, idx, e)[w] = q[v]
<1>1. idx \in Ways(c)
  BY ReplaceIdxType
<1>2. CASE Queued(c)
  <2>1. \A w \in Ways(c) : w # 0 => w - 1 \in Ways(c)
    BY CacheType DEF Ways
  <2> QED BY <1>2, <2>1 DEF Injected, PushFront, Queued
<1>3. CASE ~Queued(c)
  BY <1>1, <1>3 DEF Injected, Queued
<1> QED BY <1>2, <1>3

\* An injection keeps every entry but the one it reports as replaced.
LEMMA InjectedKeeps ==
  ASSUME NEW c \in Levels, NEW q \in [Ways(c) -> Entry], NEW idx \in ReplaceIdx(c), NEW e,
         Cache[c].replacement_policy = "MRU" => Cache[c].ways = 1,
         NEW v \in Ways(c), q[v] # ReplaceEntry(c, q, idx)
  PROVE  \E w \in Ways(c) : Injected(c, q, idx, e)[w] = q[v]
<1>1. /\ idx \in Ways(c) /\ Cache[c].replacement_policy \in Policies
      /\ Cache[c].ways \in Nat \ {0}
  BY ReplaceIdxType, CacheType
<1>2. CASE Queued(c)
  <2>1. ReplaceEntry(c, q, idx) = q[Cache[c].ways - 1]
    BY <1>2 DEF ReplaceEntry, Queued
  <2>2. PICK w \in Ways(c) : w # 0 /\ w - 1 = v /\ w <= Cache[c].ways - 1
    <3>1. v + 1 \in Ways(c) /\ v + 1 # 0 /\ (v + 1) - 1 = v /\ v + 1 <= Cache[c].ways - 1
      BY <1>1, <2>1 DEF Ways
    <3> QED BY <3>1
  <2>3. PushFront(q, Cache[c].ways - 1, e)[w] = q[v]
    BY <2>2 DEF PushFront
  <2> QED BY <1>2, <2>2, <2>3 DEF Injected, Queued
<1>3. CASE Cache[c].replacement_policy = "RR"
  <2>1. ReplaceEntry(c, q, idx) = q[idx] /\ Injected(c, q, idx, e) = [q EXCEPT ![idx] = e]
    BY <1>3 DEF ReplaceEntry, Injected
  <2> QED BY <2>1
<1>4. CASE Cache[c].replacement_policy = "MRU"
  <2>1. v = 0 /\ ReplaceEntry(c, q, idx) = q[0]
    BY <1>1, <1>4 DEF Ways, ReplaceEntry
  <2> QED BY <2>1
<1> QED BY <1>1, <1>2, <1>3, <1>4 DEF Policies, Queued

LEMMA PushFrontEntries ==
  ASSUME NEW c \in Levels, NEW q \in [Ways(c) -> Entry], NEW k \in Ways(c)
  PROVE  /\ \A w \in Ways(c) : \E v \in Ways(c) : PushFront(q, k, q[k])[w] = q[v]
         /\ \A v \in Ways(c) : \E w \in Ways(c) : PushFront(q, k, q[k])[w] = q[v]
<1>1. k \in Nat /\ Cache[c].ways \in Nat \ {0} /\ 0 \in Ways(c)
  BY CacheType, GeometryType
<1>2. ASSUME NEW w \in Ways(c) PROVE \E v \in Ways(c) : PushFront(q, k, q[k])[w] = q[v]
  <2>1. w # 0 => w - 1 \in Ways(c)
    BY <1>1 DEF Ways
  <2> QED BY <2>1 DEF PushFront
<1>3. ASSUME NEW v \in Ways(c) PROVE \E w \in Ways(c) : PushFront(q, k, q[k])[w] = q[v]
  <2>1. CASE v = k
    BY <1>1, <2>1 DEF PushFront
  <2>2. CASE v < k
    <3>1. PICK w \in Ways(c) : w # 0 /\ w <= k /\ w - 1 = v
      <4>1. v + 1 \in Ways(c) /\ v + 1 # 0 /\ v + 1 <= k /\ (v + 1) - 1 = v
        BY <1>1, <2>2 DEF Ways
      <4> QED BY <4>1
    <3>2. PushFront(q, k, q[k])[w] = q[v]
      BY <3>1 DEF PushFront
    <3> QED BY <3>2
  <2>3. CASE v > k
    <3>1. v # 0 /\ ~(v <= k)
      BY <1>1, <2>3 DEF Ways
    <3> QED BY <3>1 DEF PushFront
  <2> QED BY <1>1, <2>1, <2>2, <2>3 DEF Ways
<1> QED BY <1>2, <1>3

(* What a step does to the stack. *)

\* Frame g does the same work as f, and may have got its result.
SameWork(f, g) ==
  f = g \/ (/\ f.fn = "write" /\ g.fn = "write"
            /\ f.c = g.c /\ f.cl = g.cl /\ f.range = g.range)

\* A cache and those it calls.
Linked(c) == {c, Cache[c].load_from, Cache[c].store_to, Cache[c].victims_to}

\* A frame that a step of the running frame may put in its place or above it.
MayCome(f) ==
  /\ f.c \in Linked(Top.c)
  /\ f.fn = "flush" => Top.fn \in {"flush", "clean"}
  /\ f.fn = "inject" => ~f.dirty
  /\ f.fn = "clean"  => Top.fn = "flush" /\ f.c = Top.c /\ f.cl = Top.cl /\ f.loc = Top.loc
  /\ f.fn = "fill"   => Top.fn \in Loading
  /\ f.fn = "load"   => Top.fn \in Loading \/ f.cl = ClId(f.c, f.range.addr)

\* The stacks a step of the running frame may lead to.
Follows(st) ==
  /\ st \in Seq(Frame) /\ Len(st) >= Len(stack) - 1
  /\ \A i \in 1..Len(stack) - 1 : SameWork(stack[i], st[i])
  /\ \A i \in Len(stack)..Len(st) : MayCome(st[i])

LEMMA FollowsCallers ==
  ASSUME TypeOK, stack # <<>>
  PROVE  Follows(Callers)
<1> DEFINE n == Len(stack)
           r == Callers
<1>1. /\ n \in Nat \ {0} /\ r \in Seq(Frame) /\ Len(r) = n - 1
      /\ \A i \in 1..n - 1 : r[i] = stack[i]
  BY Split
<1> HIDE DEF n, r
<1>2. \A i \in n..Len(r) : FALSE
  BY <1>1
<1>3. Len(r) >= n - 1
  BY <1>1
<1> QED BY <1>1, <1>2, <1>3 DEF Follows, SameWork, n, r

LEMMA FollowsPush ==
  ASSUME TypeOK, stack # <<>>, NEW st, Follows(st), NEW f \in Frame, MayCome(f)
  PROVE  Follows(Append(st, f))
<1> DEFINE n == Len(stack)
           r == Append(st, f)
<1>1. n \in Nat \ {0} /\ st \in Seq(Frame) /\ Len(st) \in Nat /\ Len(st) >= n - 1
  BY Split DEF Follows
<1>2. /\ r \in Seq(Frame) /\ Len(r) = Len(st) + 1
      /\ (\A i \in 1..Len(st) : r[i] = st[i]) /\ r[Len(st) + 1] = f
  BY <1>1, Pushed
<1>3. /\ \A i \in 1..n - 1 : SameWork(stack[i], st[i])
      /\ \A i \in n..Len(st) : MayCome(st[i])
  BY DEF Follows
<1> HIDE DEF n, r
<1>4. \A i \in 1..n - 1 : SameWork(stack[i], r[i])
  <2> SUFFICES ASSUME NEW i \in 1..n - 1 PROVE SameWork(stack[i], r[i])
    OBVIOUS
  <2>1. i \in 1..Len(st)
    BY <1>1
  <2> QED BY <1>2, <1>3, <2>1
<1>5. \A i \in n..Len(r) : MayCome(r[i])
  <2> SUFFICES ASSUME NEW i \in n..Len(r) PROVE MayCome(r[i])
    OBVIOUS
  <2>1. i = Len(st) + 1 \/ (i \in n..Len(st) /\ i \in 1..Len(st))
    BY <1>1, <1>2
  <2> QED BY <1>2, <1>3, <2>1
<1>6. Len(r) >= n - 1
  BY <1>1, <1>2
<1> QED BY <1>2, <1>4, <1>5, <1>6 DEF Follows, n, r

LEMMA FollowsContinue ==
  ASSUME TypeOK, stack # <<>>, NEW f \in Frame, MayCome(f)
  PROVE  Follows(Continue(f))
BY FollowsCallers, FollowsPush DEF Continue

LEMMA FollowsReturned ==
  ASSUME TypeOK, stack # <<>>, NEW loc \in Nat \cup {-1}
  PROVE  Follows(Returned(Callers, loc))
<1> DEFINE m == Len(stack) - 1
<1>1. CASE ~(Callers # <<>> /\ Callers[Len(Callers)].fn = "write")
  BY <1>1, FollowsCallers DEF Returned
<1>2. CASE Callers # <<>> /\ Callers[Len(Callers)].fn = "write"
  <2> DEFINE f == Callers[m]
             h == [f EXCEPT !.loc = loc]
             r == [Callers EXCEPT ![m] = h]
  <2>1. /\ m \in Nat /\ m + 1 = Len(stack) /\ Callers \in Seq(Frame) /\ Len(Callers) = m
        /\ \A i \in 1..m : Callers[i] = stack[i]
    BY Split
  <2>2. m \in 1..m
    <3>1. m # 0
      BY <1>2, <2>1
    <3> QED BY <2>1, <3>1
  <2>3. f \in Frame /\ f.fn = "write"
    BY <1>2, <2>1, <2>2
  <2>4. Returned(Callers, loc) = r
    BY <1>2, <2>1 DEF Returned
  <2>5. h \in Frame /\ SameWork(f, h)
    <3>1. h \in Frame
      BY <2>3, FrameSteps
    <3> QED BY <2>3, <3>1, FrameFields DEF SameWork
  <2> HIDE DEF h
  <2>7. f = stack[m]
    BY <2>1, <2>2
  <2>6. r \in Seq(Frame) /\ Len(r) = m /\ \A i \in 1..m : r[i] = IF i = m THEN h ELSE stack[i]
    <3> HIDE DEF m
    <3>1. r \in Seq(Frame) /\ Len(r) = m
      BY <2>1, <2>2, <2>5
    <3>2. r[m] = h /\ \A i \in 1..m : i # m => r[i] = stack[i]
      BY <2>1, <2>2
    <3> QED BY <3>1, <3>2
  <2> HIDE DEF r, f, m
  <2>8. \A i \in 1..m : SameWork(stack[i], r[i])
    BY <2>5, <2>6, <2>7 DEF SameWork
  <2>9. \A i \in m + 1..Len(r) : FALSE
    BY <2>1, <2>6
  <2>10. Len(r) >= m
    BY <2>1, <2>6
  <2>11. Follows(r)
    BY <2>1, <2>6, <2>8, <2>9, <2>10 DEF Follows, m
  <2> QED BY <2>4, <2>11 DEF r
<1> QED BY <1>1, <1>2

(* Clean caches. *)

CleanQueue(c, q) ==
  ~Cache[c].write_back => \A w \in Ways(c) : q[w].invalid \/ ~q[w].dirty

ThroughClean == \A c \in Levels : \A s \in Sets(c) : CleanQueue(c, placement[c][s])

CleanInjects(st) == \A i \in 1..Len(st) : st[i].fn = "inject" => ~st[i].dirty

\* Write-through caches have no dirty lines, and only clean ones are delivered.
Tidy == ThroughClean /\ CleanInjects(stack)

LEMMA FollowsTidy ==
  ASSUME TypeOK, stack # <<>>, CleanInjects(stack), NEW st, Follows(st)
  PROVE  CleanInjects(st)
<1> SUFFICES ASSUME NEW i \in 1..Len(st), st[i].fn = "inject" PROVE ~st[i].dirty
  BY DEF CleanInjects
<1>1. Len(stack) \in Nat \ {0} /\ Len(st) \in Nat
  BY Split DEF Follows
<1>2. CASE i \in 1..Len(stack) - 1
  <2>1. SameWork(stack[i], st[i]) /\ i \in 1..Len(stack)
    BY <1>1, <1>2 DEF Follows
  <2>2. stack[i] = st[i]
    BY <2>1 DEF SameWork
  <2> QED BY <2>1, <2>2 DEF CleanInjects
<1>3. CASE i \in Len(stack)..Len(st)
  BY <1>3 DEF Follows, MayCome
<1> QED BY <1>1, <1>2, <1>3

LEMMA PassDownFollows ==
  ASSUME TypeOK, stack # <<>>, NEW c \in Levels, c = Top.c, NEW range \in AddrRange,
         NEW nt \in BOOLEAN, NEW st, NEW callers, Follows(callers),
         PassDown(c, range, nt, st, callers)
  PROVE  Follows(stack')
<1> DEFINE below == Cache[c].store_to
           f     == StoreCall(below, range, nt)
<1>1. CASE below = None
  BY <1>1 DEF PassDown
<1>2. CASE below # None
  <2>1. below \in Levels
    BY <1>2, LinksLeadDown
  <2>2. f \in Frame
    BY <2>1, CallFrames
  <2>3. MayCome(f)
    BY DEF StoreCall, MayCome, Linked
  <2>4. stack' = Append(callers, f)
    BY <1>2 DEF PassDown
  <2> HIDE DEF f
  <2> QED BY <2>2, <2>3, <2>4, FollowsPush
<1> QED BY <1>1, <1>2

LEMMA FetchFollows ==
  ASSUME TypeOK, stack # <<>>, NEW source \in Levels \cup {None}, source \in Linked(Top.c),
         NEW range \in AddrRange, NEW st, NEW callers, Follows(callers),
         Fetch(source, range, st, callers)
  PROVE  Follows(stack')
<1> DEFINE f == LoadCall(source, range)
<1>1. CASE source = None
  BY <1>1 DEF Fetch
<1>2. CASE source # None
  <2>1. f \in Frame
    BY <1>2, CallFrames
  <2>2. MayCome(f)
    BY DEF LoadCall, MayCome
  <2>3. stack' = Append(callers, f)
    BY <1>2 DEF Fetch
  <2> HIDE DEF f
  <2> QED BY <2>1, <2>2, <2>3, FollowsPush
<1> QED BY <1>1, <1>2

LEMMA InjectFollows ==
  ASSUME TypeOK, stack # <<>>, ThroughClean, NEW c \in Levels, c = Top.c,
         NEW e \in Entry, NEW idx \in ReplaceIdx(c), NEW callers, Follows(callers),
         Inject(c, e, idx, callers)
  PROVE  Follows(stack')
<1> DEFINE s     == SetId(c, e.cl_id)
           q     == placement[c][s]
           old   == ReplaceEntry(c, q, idx)
           below == Cache[c].victims_to
           f     == CreditFrame(c)
           g     == InjectCall(below, old)
<1>1. e.cl_id \in Nat /\ s \in Sets(c) /\ idx \in Ways(c)
  BY GeometryType, ReplaceIdxType DEF Entry
<1>2. q \in [Ways(c) -> Entry]
  BY <1>1 DEF TypeOK, PlacementOK
<1>3. CleanQueue(c, q)
  BY <1>1 DEF ThroughClean
<1>4. old \in Entry
  <2> HIDE DEF q
  <2> QED BY <1>1, <1>2, ReplaceEntryType
<1>5. ~Cache[c].write_back => old.invalid \/ ~old.dirty
  <2>1. \E w \in Ways(c) : old = q[w]
    <3>1. Cache[c].replacement_policy \in Policies
      BY CacheType
    <3>2. 0 \in Ways(c) /\ Cache[c].ways - 1 \in Ways(c)
      BY GeometryType
    <3> HIDE DEF q
    <3> QED BY <1>1, <3>1, <3>2 DEF ReplaceEntry, Policies
  <2> HIDE DEF q, old
  <2> QED BY <1>3, <2>1 DEF CleanQueue
<1>6. \/ \E nt \in BOOLEAN : PassDown(c, LineRange(c, old.cl_id), nt,
                               Bump(stats, c, "EVICT", Cache[c].cl_size), callers)
      \/ /\ below # None /\ ~old.dirty
         /\ stack' = Append(Append(callers, f), g)
      \/ stack' = callers
  <2>1. \A slot, after : NonTemporalEvict(c, slot, after) \in BOOLEAN
    BY CacheType DEF Configuration, NonTemporalEvict
  <2> QED BY <1>5, <2>1 DEF Inject
<1> HIDE DEF old, s, q
<1>7. CASE \E nt \in BOOLEAN : PassDown(c, LineRange(c, old.cl_id), nt,
                                 Bump(stats, c, "EVICT", Cache[c].cl_size), callers)
  <2>1. LineRange(c, old.cl_id) \in AddrRange
    BY <1>4, GeometryType DEF Entry
  <2> QED BY <1>7, <2>1, PassDownFollows
<1>8. CASE below # None /\ ~old.dirty /\ stack' = Append(Append(callers, f), g)
  <2>1. f \in Frame /\ g \in Frame
    BY <1>4, <1>8, VictimFrames
  <2>2. MayCome(f) /\ MayCome(g)
    BY <1>8 DEF CreditFrame, InjectCall, MayCome, Linked
  <2> HIDE DEF f, g
  <2>3. Follows(Append(callers, f))
    BY <2>1, <2>2, FollowsPush
  <2>4. Follows(Append(Append(callers, f), g))
    BY <2>1, <2>2, <2>3, FollowsPush
  <2> QED BY <1>8, <2>4
<1>9. CASE stack' = callers
  BY <1>9
<1> QED BY <1>6, <1>7, <1>8, <1>9

LEMMA LoadFollows ==
  ASSUME TypeOK, Tidy, LoadStep
  PROVE  stack # <<>> /\ Follows(stack')
<1>1. \A f \in Frame : Top.fn \in Loading /\ f.fn \in {"load", "fill"} /\ f.c = Top.c => MayCome(f)
  BY DEF MayCome, Linked
<1>2. CASE LoadHit
  <2>1. /\ stack # <<>> /\ Top \in Frame /\ Top.fn = "load" /\ Top.fn \in Loading
        /\ Top.c \in Levels
    BY <1>2, TopType DEF LoadHit, Loading
  <2>2. PICK w \in Nat : stack' = Continue([Top EXCEPT !.cl = @ + 1, !.loc = w])
    <3>1. 0 \in Nat /\ Cache[Top.c].ways - 1 \in Nat
      BY <2>1, CacheType
    <3> QED BY <1>2, <3>1 DEF LoadHit
  <2> DEFINE g == [Top EXCEPT !.cl = @ + 1, !.loc = w]
  <2>3. g \in Frame /\ g.fn = "load" /\ g.c = Top.c
    <3>1. g \in Frame
      BY <2>1, FrameSteps
    <3> QED BY <2>1, <3>1, FrameFields
  <2> HIDE DEF g
  <2>4. Follows(Continue(g))
    BY <1>1, <2>1, <2>3, FollowsContinue
  <2> QED BY <2>1, <2>2, <2>4 DEF g
<1>3. CASE LoadMiss
  <2> DEFINE g == [Top EXCEPT !.fn = "fill"]
  <2>1. stack # <<>> /\ Top \in Frame /\ Top.fn \in Loading /\ Top.c \in Levels /\ Top.cl \in Nat
    BY <1>3, TopType DEF LoadMiss, Loading
  <2>2. PICK source \in {Cache[Top.c].load_from, Cache[Top.c].victims_to} : \E st :
          Fetch(source, LineRange(Top.c, Top.cl), st, Continue(g))
    BY <1>3 DEF LoadMiss
  <2>3. /\ source \in Levels \cup {None} /\ LineRange(Top.c, Top.cl) \in AddrRange
        /\ source \in Linked(Top.c)
    BY <2>1, GeometryType, LinksLeadDown DEF Linked
  <2>4. g \in Frame /\ g.fn = "fill" /\ g.c = Top.c
    BY <2>1, FrameSteps, FrameFields
  <2> HIDE DEF g
  <2>5. Follows(Continue(g))
    BY <1>1, <2>1, <2>4, FollowsContinue
  <2> QED BY <2>1, <2>2, <2>3, <2>5, FetchFollows
<1>4. CASE LoadFill
  <2> DEFINE e == [cl_id |-> Top.cl, dirty |-> FALSE, invalid |-> FALSE]
  <2>1. stack # <<>> /\ Top \in Frame /\ Top.fn \in Loading /\ Top.c \in Levels /\ Top.cl \in Nat
    BY <1>4, TopType DEF LoadFill, Loading
  <2>2. PICK idx \in ReplaceIdx(Top.c) :
          Inject(Top.c, e, idx, Continue([Top EXCEPT !.fn = "load", !.cl = @ + 1, !.loc = idx]))
    BY <1>4 DEF LoadFill
  <2> DEFINE g == [Top EXCEPT !.fn = "load", !.cl = @ + 1, !.loc = idx]
  <2>3. e \in Entry
    BY <2>1 DEF Entry
  <2>4. idx \in Nat
    BY <2>1, ReplaceIdxType, GeometryType
  <2>5. g \in Frame /\ g.fn = "load" /\ g.c = Top.c
    <3>1. g \in Frame
      BY <2>1, <2>4, FrameSteps
    <3> QED BY <2>1, <3>1, FrameFields
  <2>6. Inject(Top.c, e, idx, Continue(g))
    BY <2>2
  <2> HIDE DEF g, e
  <2>7. Follows(Continue(g))
    BY <1>1, <2>1, <2>5, FollowsContinue
  <2> QED BY <2>1, <2>3, <2>6, <2>7, InjectFollows DEF Tidy
<1>5. CASE LoadReturn
  <2>1. stack # <<>> /\ Top.loc \in Nat \cup {-1} /\ stack' = Returned(Callers, Top.loc)
    BY <1>5, TopType DEF LoadReturn
  <2> QED BY <2>1, FollowsReturned
<1> QED BY <1>2, <1>3, <1>4, <1>5 DEF LoadStep

\* The store frame after its line, which FrameFields describes.
LEMMA NextLineFrame ==
  ASSUME TypeOK, stack # <<>>
  PROVE  /\ NextLine \in Frame /\ NextLine.fn = "store" /\ NextLine.c = Top.c
         /\ NextLine.cl = Top.cl + 1 /\ NextLine.range = Top.range
<1> DEFINE g == [Top EXCEPT !.fn = "store", !.cl = @ + 1, !.loc = -1]
<1>1. Top \in Frame /\ -1 \in Nat \cup {-1}
  BY Split
<1>2. g \in Frame
  BY <1>1, FrameSteps
<1>3. g.fn = "store" /\ g.c = Top.c /\ g.cl = Top.cl + 1 /\ g.range = Top.range
  BY <1>1, FrameFields
<1> QED BY <1>2, <1>3 DEF NextLine

\* The write frame for the line of a store.
LEMMA WriteFrame ==
  ASSUME NEW f \in Frame, f.c = Top.c, NEW w \in Nat \cup {-1}
  PROVE  LET g == [f EXCEPT !.fn = "write", !.loc = w]
         IN  /\ g \in Frame /\ g.fn = "write" /\ g.c = f.c /\ g.cl = f.cl /\ g.range = f.range
             /\ MayCome(g)
<1> DEFINE g == [f EXCEPT !.fn = "write", !.loc = w]
<1>1. g \in Frame
  BY FrameSteps
<1>2. g.fn = "write" /\ g.c = f.c /\ g.cl = f.cl /\ g.range = f.range
  BY FrameFields
<1>3. MayCome(g)
  BY <1>2 DEF MayCome, Linked
<1> QED BY <1>1, <1>2, <1>3

LEMMA StoreFollows ==
  ASSUME TypeOK, Tidy, StoreStep
  PROVE  stack # <<>> /\ Follows(stack')
<1>1. \A f \in Frame : f.fn \in {"store", "write"} /\ f.c = Top.c => MayCome(f)
  BY DEF MayCome, Linked
<1>2. CASE StoreAllocate
  <2> DEFINE g == [Top EXCEPT !.fn = "write"]
             h == LoadCall(Top.c, LineRange(Top.c, Top.cl))
  <2>1. /\ stack # <<>> /\ Top \in Frame /\ Top.c \in Levels /\ Top.cl \in Nat
        /\ stack' = Append(Continue(g), h)
    BY <1>2, TopType DEF StoreAllocate, Storing
  <2>2. LineRange(Top.c, Top.cl) \in AddrRange
    BY <2>1, GeometryType
  <2>3. g \in Frame /\ g.fn = "write" /\ g.c = Top.c /\ h \in Frame
    BY <2>1, <2>2, FrameSteps, FrameFields, CallFrames
  <2>4. MayCome(h)
    BY DEF LoadCall, MayCome, Linked
  <2> HIDE DEF g, h
  <2>5. Follows(Continue(g))
    BY <1>1, <2>1, <2>3, FollowsContinue
  <2>6. Follows(Append(Continue(g), h))
    BY <1>1, <2>1, <2>3, <2>4, <2>5, FollowsPush
  <2> QED BY <2>1, <2>6
<1>3. CASE StoreInject
  <2> DEFINE e == [cl_id |-> Top.cl, dirty |-> TRUE, invalid |-> FALSE]
  <2>1. stack # <<>> /\ Top \in Frame /\ Top.c \in Levels /\ Top.cl \in Nat
    BY <1>3, TopType DEF StoreInject, Storing
  <2>2. PICK idx \in ReplaceIdx(Top.c) :
          Inject(Top.c, e, idx, Continue([Top EXCEPT !.fn = "write", !.loc = idx]))
    BY <1>3 DEF StoreInject
  <2> DEFINE g == [Top EXCEPT !.fn = "write", !.loc = idx]
  <2>3. e \in Entry
    BY <2>1 DEF Entry
  <2>4. idx \in Nat
    BY <2>1, ReplaceIdxType, GeometryType
  <2>5. g \in Frame /\ MayCome(g)
    BY <2>1, <2>4, WriteFrame
  <2>6. Inject(Top.c, e, idx, Continue(g))
    BY <2>2
  <2> HIDE DEF g, e
  <2>7. Follows(Continue(g))
    BY <2>1, <2>5, FollowsContinue
  <2> QED BY <2>1, <2>3, <2>6, <2>7, InjectFollows DEF Tidy
<1>4. CASE StoreLookup
  <2> DEFINE w == Location(Top.c, Top.cl)
             g == [Top EXCEPT !.fn = "write", !.loc = w]
  <2>1. /\ stack # <<>> /\ Top \in Frame /\ Top.c \in Levels /\ Top.cl \in Nat
        /\ stack' = Continue(g)
    BY <1>4, TopType DEF StoreLookup, Storing
  <2>2. w \in Nat \cup {-1}
    <3>1. w \in Ways(Top.c) \cup {-1}
      BY <2>1, LocationType DEF TypeOK
    <3> QED BY <2>1, <3>1, GeometryType
  <2>3. g \in Frame /\ MayCome(g)
    BY <2>1, <2>2, WriteFrame
  <2> HIDE DEF g
  <2> QED BY <2>1, <2>3, FollowsContinue
<1>5. CASE StoreDirty
  <2>1. stack # <<>> /\ stack' = Continue(NextLine)
    BY <1>5 DEF StoreDirty, Running
  <2>2. NextLine \in Frame /\ MayCome(NextLine)
    BY <1>1, <2>1, NextLineFrame
  <2> QED BY <2>1, <2>2, FollowsContinue
<1>6. CASE StoreForward
  <2> DEFINE range == ClipRange(Top.c, Top.cl, Top.range)
  <2>1. /\ stack # <<>> /\ Top.c \in Levels /\ Top.cl \in Nat /\ Top.range \in AddrRange
        /\ Top.nt \in BOOLEAN /\ Top.cl <= LastCl(Top.c, Top.range)
    BY <1>6, TopType DEF StoreForward, FrameOK
  <2>2. range \in AddrRange
    BY <2>1, ClipType
  <2>3. PICK st : PassDown(Top.c, range, Top.nt, st, Continue(NextLine))
    BY <1>6 DEF StoreForward
  <2>4. NextLine \in Frame /\ MayCome(NextLine)
    BY <1>1, <2>1, NextLineFrame
  <2>5. Follows(Continue(NextLine))
    BY <2>1, <2>4, FollowsContinue
  <2> HIDE DEF range
  <2> QED BY <2>1, <2>2, <2>3, <2>5, PassDownFollows
<1>7. CASE StoreReturn
  BY <1>7, FollowsCallers DEF StoreReturn, Running
<1> QED BY <1>2, <1>3, <1>4, <1>5, <1>6, <1>7 DEF StoreStep

LEMMA VictimFollows ==
  ASSUME TypeOK, Tidy, VictimStep
  PROVE  stack # <<>> /\ Follows(stack')
<1>1. CASE InjectVictim
  <2> DEFINE e == [cl_id |-> Top.cl, dirty |-> Top.dirty, invalid |-> FALSE]
  <2>1. stack # <<>> /\ Top.c \in Levels /\ e \in Entry
    BY <1>1, TopType DEF InjectVictim, Entry
  <2>2. PICK idx \in ReplaceIdx(Top.c) : Inject(Top.c, e, idx, Callers)
    BY <1>1 DEF InjectVictim
  <2> HIDE DEF e
  <2>3. Follows(Callers)
    BY <2>1, FollowsCallers
  <2> QED BY <2>1, <2>2, <2>3, InjectFollows DEF Tidy
<1>2. CASE CreditVictim
  BY <1>2, FollowsCallers DEF CreditVictim, Running
<1> QED BY <1>1, <1>2 DEF VictimStep

LEMMA NextSlotFrame ==
  ASSUME TypeOK, Running("flush") \/ Running("clean")
  PROVE  NextSlot(Top) \in Frame /\ NextSlot(Top).fn = "flush" /\ NextSlot(Top).c = Top.c
<1> DEFINE f == [Top EXCEPT !.fn = "flush", !.loc = @ + 1]
           g == [Top EXCEPT !.fn = "flush", !.cl = @ + 1, !.loc = 0]
<1>1. /\ Top \in Frame /\ Top.fn \in {"flush", "clean"} /\ FrameOK(Top)
      /\ Top.c \in Levels /\ Top.cl \in Nat
  BY TopType
<1>2. Top.loc + 1 \in Nat \cup {-1} /\ Top.cl + 1 \in Nat /\ "flush" \in Functions_
      /\ 0 \in Nat \cup {-1}
  <2>1. Top.loc \in Nat
    BY <1>1, GeometryType DEF FrameOK
  <2> QED BY <1>1, <2>1 DEF Functions_
<1>3. f \in Frame /\ g \in Frame
  BY <1>1, <1>2, Zenon DEF Frame
<1>4. f.fn = "flush" /\ g.fn = "flush" /\ f.c = Top.c /\ g.c = Top.c
  BY <1>1 DEF Frame
<1>5. NextSlot(Top) = f \/ NextSlot(Top) = g
  BY DEF NextSlot
<1> HIDE DEF f, g
<1> QED BY <1>3, <1>4, <1>5

LEMMA FlushFollows ==
  ASSUME TypeOK, FlushStep
  PROVE  stack # <<>> /\ Follows(stack')
<1>1. ASSUME Running("flush") \/ Running("clean"), stack' = Continue(NextSlot(Top))
      PROVE  stack # <<>> /\ Follows(stack')
  <2> DEFINE h == NextSlot(Top)
  <2>1. /\ stack # <<>> /\ h \in Frame /\ h.fn = "flush" /\ h.c = Top.c
        /\ Top.fn \in {"flush", "clean"}
    BY <1>1, NextSlotFrame DEF Running
  <2>2. stack' = Continue(h)
    BY <1>1
  <2> HIDE DEF h
  <2>3. MayCome(h)
    BY <2>1 DEF MayCome, Linked
  <2> QED BY <2>1, <2>2, <2>3, FollowsContinue
<1>2. CASE FlushSlot
  <2> DEFINE g    == [Top EXCEPT !.fn = "clean"]
             line == LineRange(Top.c, Slot.cl_id)
  <2>1. /\ Running("flush") /\ stack # <<>> /\ Top \in Frame /\ FrameOK(Top)
        /\ Top.fn = "flush" /\ Top.c \in Levels /\ Top.cl \in Sets(Top.c)
    BY <1>2, TopType DEF FlushSlot
  <2>2. \/ \E nt \in BOOLEAN : \E st : PassDown(Top.c, line, nt, st, Continue(g))
        \/ stack' = Continue(NextSlot(Top))
    <3>1. \A slot : NonTemporalFlush(Top.c, slot) \in BOOLEAN
      BY <2>1, CacheType DEF Configuration, NonTemporalFlush
    <3> QED BY <1>2, <3>1 DEF FlushSlot
  <2>3. line \in AddrRange
    <3>1. Top.loc \in Ways(Top.c)
      BY <2>1 DEF FrameOK
    <3>2. Slot \in Entry
      BY <2>1, <3>1 DEF Slot, TypeOK, PlacementOK
    <3> QED BY <2>1, <3>2, GeometryType DEF Entry
  <2>4. g \in Frame
    BY <2>1, FrameSteps
  <2>5. g.fn = "clean" /\ g.c = Top.c /\ g.cl = Top.cl /\ g.loc = Top.loc
    BY <2>1 DEF Frame
  <2> HIDE DEF g, line
  <2>6. MayCome(g)
    BY <2>1, <2>5 DEF MayCome, Linked
  <2>7. Follows(Continue(g))
    BY <2>1, <2>4, <2>6, FollowsContinue
  <2>8. CASE \E nt \in BOOLEAN : \E st : PassDown(Top.c, line, nt, st, Continue(g))
    BY <2>1, <2>3, <2>7, <2>8, PassDownFollows
  <2>9. CASE stack' = Continue(NextSlot(Top))
    BY <1>1, <2>1, <2>9
  <2> QED BY <2>2, <2>8, <2>9, <2>1
<1>3. CASE FlushClean
  BY <1>1, <1>3 DEF FlushClean
<1>4. CASE FlushReturn
  BY <1>4, FollowsCallers DEF FlushReturn, Running
<1> QED BY <1>2, <1>3, <1>4 DEF FlushStep

RunningStep == LoadStep \/ StoreStep \/ VictimStep \/ FlushStep

LEMMA StepFollows ==
  ASSUME TypeOK, Tidy, RunningStep
  PROVE  stack # <<>> /\ Follows(stack')
BY LoadFollows, StoreFollows, VictimFollows, FlushFollows DEF RunningStep

LEMMA QueueClean ==
  ASSUME PlacementOK, ThroughClean, NEW c \in Levels, NEW s \in Sets(c), NEW q,
         CleanQueue(c, q), placement' = [placement EXCEPT ![c][s] = q]
  PROVE  ThroughClean'
<1> SUFFICES ASSUME NEW d \in Levels, NEW t \in Sets(d)
             PROVE  CleanQueue(d, placement'[d][t])
  BY DEF ThroughClean, CleanQueue
<1>1. placement \in [Levels -> {placement[x] : x \in Levels}]
  BY DEF PlacementOK
<1>2. placement[d] \in [Sets(d) -> [Ways(d) -> Entry]]
  BY DEF PlacementOK
<1>3. CASE d = c /\ t = s
  BY <1>1, <1>2, <1>3
<1>4. CASE ~(d = c /\ t = s)
  <2>1. placement'[d][t] = placement[d][t]
    BY <1>1, <1>2, <1>4
  <2> QED BY <2>1 DEF ThroughClean
<1> QED BY <1>3, <1>4

LEMMA DirtyBitClean ==
  ASSUME PlacementOK, ThroughClean, NEW c \in Levels, NEW s \in Sets(c), NEW w,
         NEW d \in BOOLEAN, d => Cache[c].write_back,
         placement' = [placement EXCEPT ![c][s][w].dirty = d]
  PROVE  ThroughClean'
<1> DEFINE q == placement[c][s]
           r == [q EXCEPT ![w].dirty = d]
<1>1. q \in [Ways(c) -> Entry] /\ CleanQueue(c, q)
  BY DEF PlacementOK, ThroughClean
<1>2. ASSUME NEW v \in Ways(c)
      PROVE  r[v].invalid = q[v].invalid /\ (r[v].dirty = q[v].dirty \/ r[v].dirty = d)
  BY <1>1 DEF Entry
<1>3. placement' = [placement EXCEPT ![c][s] = r]
  OBVIOUS
<1> HIDE DEF q, r
<1>4. CleanQueue(c, r)
  BY <1>1, <1>2 DEF CleanQueue
<1> QED BY <1>3, <1>4, QueueClean

LEMMA InjectClean ==
  ASSUME PlacementOK, ThroughClean, NEW c \in Levels, NEW e \in Entry,
         e.dirty => Cache[c].write_back, NEW idx \in ReplaceIdx(c), NEW callers,
         Inject(c, e, idx, callers)
  PROVE  ThroughClean'
<1> DEFINE s == SetId(c, e.cl_id)
           q == placement[c][s]
           r == Injected(c, q, idx, e)
<1>1. s \in Sets(c)
  BY GeometryType DEF Entry
<1>2. q \in [Ways(c) -> Entry] /\ CleanQueue(c, q)
  BY <1>1 DEF PlacementOK, ThroughClean
<1>3. placement' = [placement EXCEPT ![c][s] = r]
  BY DEF Inject
<1> HIDE DEF s, q
<1>4. CleanQueue(c, r)
  BY <1>2, InjectedEntries DEF CleanQueue
<1> HIDE DEF r
<1> QED BY <1>1, <1>3, <1>4, QueueClean

LEMMA PushFrontClean ==
  ASSUME NEW c \in Levels, NEW q \in [Ways(c) -> Entry], NEW k \in Ways(c), CleanQueue(c, q)
  PROVE  CleanQueue(c, PushFront(q, k, q[k]))
<1> DEFINE r == PushFront(q, k, q[k])
<1>1. \A w \in Ways(c) : \E v \in Ways(c) : r[w] = q[v]
  BY PushFrontEntries
<1> HIDE DEF r
<1>2. CleanQueue(c, r)
  BY <1>1 DEF CleanQueue
<1> QED BY <1>2 DEF r

LEMMA PlacementClean ==
  ASSUME TypeOK, Tidy, RunningStep
  PROVE  ThroughClean'
<1>0. PlacementOK /\ ThroughClean
  BY DEF TypeOK, Tidy
<1>1. CASE UNCHANGED placement
  BY <1>0, <1>1 DEF ThroughClean, CleanQueue
<1>2. CASE LoadHit
  <2> DEFINE c   == Top.c
             loc == Location(c, Top.cl)
             q   == placement[c][TopSet]
             r   == PushFront(q, loc, q[loc])
  <2>1. c \in Levels /\ Top.cl \in Nat /\ TopSet \in Sets(c)
    BY <1>2, TopType DEF LoadHit
  <2>2. loc \in Ways(c)
    BY <1>0, <1>2, <2>1, LocationType DEF LoadHit
  <2>3. q \in [Ways(c) -> Entry] /\ CleanQueue(c, q)
    BY <1>0, <2>1 DEF PlacementOK, ThroughClean
  <2>4. UNCHANGED placement \/ placement' = [placement EXCEPT ![c][TopSet] = r]
    BY <1>2 DEF LoadHit
  <2> HIDE DEF c, loc, q
  <2>5. CleanQueue(c, r)
    BY <2>1, <2>2, <2>3, PushFrontClean
  <2> HIDE DEF r
  <2>6. CASE placement' = [placement EXCEPT ![c][TopSet] = r]
    BY <1>0, <2>1, <2>5, <2>6, QueueClean
  <2> QED BY <1>1, <2>4, <2>6
<1>3. CASE LoadFill
  <2> DEFINE e == [cl_id |-> Top.cl, dirty |-> FALSE, invalid |-> FALSE]
  <2>1. Top.c \in Levels /\ e \in Entry /\ ~e.dirty
    BY <1>3, TopType DEF LoadFill, Entry
  <2>2. PICK idx \in ReplaceIdx(Top.c) :
          Inject(Top.c, e, idx, Continue([Top EXCEPT !.fn = "load", !.cl = @ + 1, !.loc = idx]))
    BY <1>3 DEF LoadFill
  <2> HIDE DEF e
  <2> QED BY <1>0, <2>1, <2>2, InjectClean
<1>4. CASE StoreInject
  <2> DEFINE e == [cl_id |-> Top.cl, dirty |-> TRUE, invalid |-> FALSE]
  <2>1. Top.c \in Levels /\ e \in Entry /\ Cache[Top.c].write_back
    BY <1>4, TopType DEF StoreInject, Storing, Entry
  <2>2. PICK idx \in ReplaceIdx(Top.c) :
          Inject(Top.c, e, idx, Continue([Top EXCEPT !.fn = "write", !.loc = idx]))
    BY <1>4 DEF StoreInject
  <2> HIDE DEF e
  <2> QED BY <1>0, <2>1, <2>2, InjectClean
<1>5. CASE InjectVictim
  <2> DEFINE e == [cl_id |-> Top.cl, dirty |-> Top.dirty, invalid |-> FALSE]
  <2>1. /\ stack # <<>> /\ Top.fn = "inject" /\ Top.c \in Levels /\ e \in Entry
        /\ e.dirty = Top.dirty
    BY <1>5, TopType DEF InjectVictim, Entry
  <2>2. ~Top.dirty
    <3>1. Len(stack) \in 1..Len(stack) /\ Top = stack[Len(stack)]
      BY <2>1, Split
    <3> QED BY <2>1, <3>1 DEF Tidy, CleanInjects
  <2>3. PICK idx \in ReplaceIdx(Top.c) : Inject(Top.c, e, idx, Callers)
    BY <1>5 DEF InjectVictim
  <2> HIDE DEF e
  <2> QED BY <1>0, <2>1, <2>2, <2>3, InjectClean
<1>6. CASE StoreDirty
  <2>1. Top.c \in Levels /\ TopSet \in Sets(Top.c) /\ Cache[Top.c].write_back
    BY <1>6, TopType DEF StoreDirty, WriteHere
  <2>2. placement' = [placement EXCEPT ![Top.c][TopSet][Top.loc].dirty = TRUE]
    BY <1>6 DEF StoreDirty
  <2> QED BY <1>0, <2>1, <2>2, DirtyBitClean
<1>7. CASE FlushClean
  <2>1. Top.c \in Levels /\ Top.cl \in Sets(Top.c)
    BY <1>7, TopType DEF FlushClean, FrameOK
  <2>2. placement' = [placement EXCEPT ![Top.c][Top.cl][Top.loc].dirty = FALSE]
    BY <1>7 DEF FlushClean
  <2> QED BY <1>0, <2>1, <2>2, DirtyBitClean
<1>8. CASE \/ LoadMiss \/ LoadReturn \/ StoreAllocate \/ StoreLookup \/ StoreForward
           \/ StoreReturn \/ CreditVictim \/ FlushSlot \/ FlushReturn
  BY <1>1, <1>8 DEF LoadMiss, LoadReturn, StoreAllocate, StoreLookup, StoreForward,
     StoreReturn, CreditVictim, FlushSlot, FlushReturn
<1> QED BY <1>2, <1>3, <1>4, <1>5, <1>6, <1>7, <1>8
        DEF RunningStep, LoadStep, StoreStep, VictimStep, FlushStep

LEMMA IdleTidy ==
  ASSUME TypeOK, Tidy, Call \/ WalkStep
  PROVE  Tidy'
<1>1. ThroughClean'
  <2>1. CASE VisitInvalidate
    <3> DEFINE c == Head(walk.pending)
    <3> SUFFICES ASSUME NEW d \in Levels, NEW t \in Sets(d)
                 PROVE  CleanQueue(d, placement'[d][t])
      BY DEF ThroughClean, CleanQueue
    <3>1. placement' = [placement EXCEPT ![c] =
            [s \in DOMAIN placement[c] |-> [w \in DOMAIN placement[c][s] |->
               [placement[c][s][w] EXCEPT !.invalid = TRUE]]]]
      BY <2>1 DEF VisitInvalidate
    <3>2. /\ placement = [x \in Levels |-> placement[x]]
          /\ placement[d] \in [Sets(d) -> [Ways(d) -> Entry]]
      BY DEF TypeOK, PlacementOK
    <3>3. CASE d = c
      <4>1. \A w \in Ways(d) :
              placement'[d][t][w] = [placement[d][t][w] EXCEPT !.invalid = TRUE]
        BY <3>1, <3>2, <3>3
      <4>2. \A w \in Ways(d) : placement[d][t][w] \in Entry
        BY <3>2
      <4>3. \A e \in Entry : [e EXCEPT !.invalid = TRUE].invalid
        BY DEF Entry
      <4>4. \A w \in Ways(d) : placement'[d][t][w].invalid
        BY <4>1, <4>2, <4>3
      <4> QED BY <4>4 DEF CleanQueue
    <3>4. CASE d # c
      <4>1. placement'[d] = placement[d]
        BY <3>1, <3>2, <3>4
      <4> QED BY <4>1 DEF Tidy, ThroughClean
    <3> QED BY <3>3, <3>4
  <2>2. CASE UNCHANGED placement
    BY <2>2 DEF Tidy, ThroughClean, CleanQueue
  <2>3. VisitInvalidate \/ UNCHANGED placement
    BY DEF Call, Load, Store, StartWalk, WalkStep, WalkOn, VisitFlush, VisitReset, WalkEnd
  <2> QED BY <2>1, <2>2, <2>3
<1>2. CleanInjects(stack')
  <2>1. \A f : f.fn # "inject" => CleanInjects(<<f>>)
    BY DEF CleanInjects
  <2>2. ASSUME NEW c, NEW range, NEW nt
        PROVE  /\ LoadCall(c, range).fn = "load" /\ StoreCall(c, range, nt).fn = "store"
               /\ FlushCall(c).fn = "flush"
    BY DEF LoadCall, StoreCall, FlushCall
  <2>3. \/ stack' = stack
        \/ \E range : stack' = <<LoadCall(FirstLevel, range)>>
        \/ \E range : stack' = <<StoreCall(FirstLevel, range, FALSE)>>
        \/ stack' = <<FlushCall(Head(walk.pending))>>
    BY DEF Call, Load, Store, StartWalk, WalkStep, WalkOn, VisitFlush, VisitReset,
           VisitInvalidate, WalkEnd
  <2>4. CleanInjects(stack)
    BY DEF Tidy
  <2> QED BY <2>1, <2>2, <2>3, <2>4
<1> QED BY <1>1, <1>2 DEF Tidy, CleanInjects

LEMMA StaysTidy == Spec => []Tidy
<1>1. Init => Tidy
  <2> SUFFICES ASSUME Init PROVE Tidy
    OBVIOUS
  <2>1. ASSUME NEW c \in Levels, NEW s \in Sets(c), NEW w \in Ways(c)
        PROVE  placement[c][s][w].invalid
    BY DEF Init
  <2>2. stack = <<>>
    BY DEF Init
  <2> QED BY <2>1, <2>2 DEF Tidy, ThroughClean, CleanQueue, CleanInjects
<1>2. TypeOK /\ Tidy /\ [Next]_vars => Tidy'
  <2> SUFFICES ASSUME TypeOK, Tidy, [Next]_vars PROVE Tidy'
    OBVIOUS
  <2>1. CASE Call \/ WalkStep
    BY <2>1, IdleTidy
  <2>2. CASE RunningStep
    <3>1. stack # <<>> /\ Follows(stack')
      BY <2>2, StepFollows
    <3>2. CleanInjects(stack')
      BY <3>1, FollowsTidy DEF Tidy
    <3> QED BY <2>2, <3>2, PlacementClean DEF Tidy, CleanInjects
  <2>3. CASE UNCHANGED vars
    BY <2>3 DEF vars, Tidy, ThroughClean, CleanQueue, CleanInjects
  <2> QED BY <2>1, <2>2, <2>3 DEF Next, Step, RunningStep
<1> QED BY <1>1, <1>2, TypeCorrect, PTL DEF Spec

(* Only a new store adds to what memory is owed. *)

LEMMA InjectOwes ==
  ASSUME NEW c, NEW e, NEW idx, NEW callers, Inject(c, e, idx, callers)
  PROVE  owed' \subseteq owed
BY DEF Inject, PassDown

LEMMA StepOwes ==
  ASSUME RunningStep
  PROVE  owed' \subseteq owed /\ walk' = walk
<1>1. CASE LoadFill \/ StoreInject \/ InjectVictim
  BY <1>1, InjectOwes DEF LoadFill, StoreInject, InjectVictim
<1>2. CASE StoreForward \/ FlushSlot
  BY <1>2 DEF StoreForward, FlushSlot, PassDown
<1>3. CASE \/ LoadHit \/ LoadMiss \/ LoadReturn \/ StoreAllocate \/ StoreLookup \/ StoreDirty
           \/ StoreReturn \/ CreditVictim \/ FlushClean \/ FlushReturn
  BY <1>3 DEF LoadHit, LoadMiss, LoadReturn, StoreAllocate, StoreLookup, StoreDirty,
     StoreReturn, CreditVictim, FlushClean, FlushReturn
<1> QED BY <1>1, <1>2, <1>3
        DEF RunningStep, LoadStep, StoreStep, VictimStep, FlushStep

\* mark_all_invalid drops what the caches hold, and nothing is stored meanwhile.
Forgotten == walk.job = "mark_all_invalid" => owed = {}

LEMMA StaysForgotten == Spec => []Forgotten
<1>1. Init => Forgotten
  BY DEF Init, Forgotten
<1>2. TypeOK /\ Forgotten /\ [Next]_vars => Forgotten'
  <2> SUFFICES ASSUME TypeOK, Forgotten, [Next]_vars, (walk.job = "mark_all_invalid")'
               PROVE  owed' = {}
    BY DEF Forgotten
  <2>1. CASE RunningStep
    <3>1. owed' \subseteq owed /\ walk' = walk
      BY <2>1, StepOwes
    <3> QED BY <3>1 DEF Forgotten
  <2>2. CASE Call
    <3>1. ASSUME NEW job \in Jobs, StartWalk(job) PROVE owed' = {}
      BY <3>1 DEF StartWalk
    <3>2. ASSUME NEW range \in Ranges, Load(range) \/ Store(range) PROVE FALSE
      BY <3>2 DEF Load, Store, Idle
    <3> QED BY <2>2, <3>1, <3>2 DEF Call
  <2>3. CASE WalkStep
    <3>1. owed' = owed
      BY <2>3 DEF WalkStep, WalkOn, VisitFlush, VisitReset, VisitInvalidate, WalkEnd
    <3>2. walk.job = "mark_all_invalid"
      BY <2>3 DEF WalkStep, WalkOn, VisitFlush, VisitReset, VisitInvalidate, WalkEnd,
         Visited, TypeOK, WalkState
    <3> QED BY <3>1, <3>2 DEF Forgotten
  <2>4. CASE UNCHANGED vars
    BY <2>4 DEF vars, Forgotten
  <2> QED BY <2>1, <2>2, <2>3, <2>4 DEF Next, Step, RunningStep
<1> QED BY <1>1, <1>2, TypeCorrect, PTL DEF Spec

(* Where an owed byte is. *)

\* The slot is one a flush has handed down.
Given(st, c, s, w) ==
  \E i \in 1..Len(st) : /\ st[i].fn = "clean" /\ st[i].c = c
                        /\ st[i].cl = s /\ st[i].loc = w

\* Way w of set s of cache c holds the line of byte b, and it is dirty.
DirtyAt(p, c, b, w) ==
  LET e == p[c][SetId(c, ClId(c, b))][w] IN Holds(e, ClId(c, b)) /\ e.dirty

Keeps(p, st, c, b) ==
  \E w \in Ways(c) : DirtyAt(p, c, b, w) /\ ~Given(st, c, SetId(c, ClId(c, b)), w)

Carried(st, b) == \E i \in 1..Len(st) : b \in InFlight(st[i])

Covered(p, st, b) == (\E c \in Levels : Keeps(p, st, c, b)) \/ Carried(st, b)

\* Every owed byte is in a store under way, or in a dirty line that no flush has
\* handed down: such a line is marked clean when the flush goes on.
Safe == \A b \in owed : Covered(placement, stack, b)

LEMMA GivenAfter ==
  ASSUME TypeOK, StackInv, stack # <<>>, Follows(stack'), NEW c \in Levels, NEW s, NEW w,
         Given(stack', c, s, w)
  PROVE  \/ c # Top.c /\ Given(stack, c, s, w)
         \/ Top.fn = "flush" /\ c = Top.c /\ s = Top.cl /\ w = Top.loc
<1> DEFINE n == Len(stack)
           r == stack'
<1>1. /\ n \in Nat \ {0} /\ n \in 1..n /\ Top = stack[n] /\ Top \in Frame
      /\ stack \in Seq(Frame)
  BY Split
<1>2. /\ r \in Seq(Frame) /\ Len(r) \in Nat
      /\ \A i \in 1..n - 1 : SameWork(stack[i], r[i])
      /\ \A i \in n..Len(r) : MayCome(r[i])
  BY DEF Follows
<1>3. PICK i \in 1..Len(r) : /\ r[i].fn = "clean" /\ r[i].c = c
                             /\ r[i].cl = s /\ r[i].loc = w
  BY DEF Given
<1> HIDE DEF n, r
<1>4. CASE i \in 1..n - 1
  <2>1. i \in 1..n /\ i < n
    BY <1>1, <1>4
  <2>2. stack[i] = r[i]
    BY <1>2, <1>3, <1>4 DEF SameWork
  <2>3. Given(stack, c, s, w)
    BY <1>3, <2>1, <2>2 DEF Given, n
  <2>4. Above(stack[i], Top)
    BY <1>1, <2>1 DEF StackInv, Sound, Nested, n
  <2>5. stack[i].c \in Nat /\ Top.c \in Nat
    <3>1. stack[i] \in Frame
      BY <1>1, <2>1 DEF n
    <3> QED BY <1>1, <3>1, FrameLevel
  <2>6. c # Top.c
    BY <1>3, <2>2, <2>4, <2>5 DEF Above
  <2> QED BY <2>3, <2>6
<1>5. CASE i \in n..Len(r)
  BY <1>2, <1>3, <1>5 DEF MayCome
<1> QED BY <1>1, <1>2, <1>3, <1>4, <1>5

LEMMA SameBytes ==
  ASSUME NEW f, NEW g, SameWork(f, g)
  PROVE  InFlight(f) = InFlight(g)
BY DEF SameWork, InFlight

LEMMA CarriedAfter ==
  ASSUME TypeOK, stack # <<>>, NEW st, Follows(st), NEW b, Carried(stack, b),
         b \notin InFlight(Top)
  PROVE  Carried(st, b)
<1> DEFINE n == Len(stack)
<1>1. n \in Nat \ {0} /\ Top = stack[n]
  BY Split
<1>2. /\ Len(st) \in Nat /\ Len(st) >= n - 1
      /\ \A i \in 1..n - 1 : SameWork(stack[i], st[i])
  BY DEF Follows
<1>3. PICK i \in 1..n : b \in InFlight(stack[i])
  BY DEF Carried
<1> HIDE DEF n
<1>4. i \in 1..n - 1 /\ i \in 1..Len(st)
  <2>1. i # n
    BY <1>1, <1>3
  <2> QED BY <1>1, <1>2, <2>1
<1>5. b \in InFlight(st[i])
  BY <1>2, <1>3, <1>4, SameBytes
<1> QED BY <1>4, <1>5 DEF Carried

\* A step covers what was covered, but for the bytes of the running frame and of
\* the dirty lines of its cache.
LEMMA CoveredElsewhere ==
  ASSUME TypeOK, StackInv, stack # <<>>, Follows(stack'),
         \A d \in Levels : d # Top.c => placement'[d] = placement[d],
         NEW b, Covered(placement, stack, b),
         b \notin InFlight(Top), ~Keeps(placement, stack, Top.c, b)
  PROVE  Covered(placement', stack', b)
<1>1. CASE Carried(stack, b)
  BY <1>1, CarriedAfter DEF Covered
<1>2. CASE \E c \in Levels : Keeps(placement, stack, c, b)
  <2>1. PICK c \in Levels : Keeps(placement, stack, c, b) /\ c # Top.c
    BY <1>2
  <2> DEFINE s == SetId(c, ClId(c, b))
  <2>2. PICK w \in Ways(c) : DirtyAt(placement, c, b, w) /\ ~Given(stack, c, s, w)
    BY <2>1 DEF Keeps
  <2>3. DirtyAt(placement', c, b, w)
    BY <2>1, <2>2 DEF DirtyAt
  <2>4. ~Given(stack', c, s, w)
    BY <2>1, <2>2, GivenAfter
  <2>5. Keeps(placement', stack', c, b)
    BY <2>3, <2>4 DEF Keeps
  <2> QED BY <2>5 DEF Covered
<1> QED BY <1>1, <1>2 DEF Covered

\* A dirty line of the running cache covers its bytes after any step but the one
\* that hands it down.
LEMMA StillKept ==
  ASSUME TypeOK, StackInv, stack # <<>>, Follows(stack'), Top.fn # "flush",
         Top.c \in Levels, NEW b, NEW w \in Ways(Top.c), DirtyAt(placement', Top.c, b, w)
  PROVE  Covered(placement', stack', b)
<1>1. ~Given(stack', Top.c, SetId(Top.c, ClId(Top.c, b)), w)
  BY GivenAfter
<1>2. Keeps(placement', stack', Top.c, b)
  BY <1>1 DEF Keeps
<1> QED BY <1>2 DEF Covered

(* What goes down is carried. *)

\* Byte b is not among those that memory receives in this step.
Stays(b) == b \in owed' \/ memory'["stores"].count = memory["stores"].count

LEMMA PushCarries ==
  ASSUME NEW st \in Seq(Frame), NEW f \in Frame, NEW b, Carried(st, b) \/ b \in InFlight(f)
  PROVE  Carried(Append(st, f), b)
<1> DEFINE r == Append(st, f)
           n == Len(st)
<1>1. n \in Nat /\ Len(r) = n + 1 /\ (\A i \in 1..n : r[i] = st[i]) /\ r[n + 1] = f
  BY Pushed
<1> HIDE DEF r
<1>2. CASE Carried(st, b)
  <2>1. PICK i \in 1..n : b \in InFlight(st[i])
    BY <1>2 DEF Carried
  <2>2. i \in 1..Len(r) /\ b \in InFlight(r[i])
    BY <1>1, <2>1
  <2> QED BY <2>2 DEF Carried, r
<1>3. CASE b \in InFlight(f)
  <2>1. n + 1 \in 1..Len(r) /\ b \in InFlight(r[n + 1])
    BY <1>1, <1>3
  <2> QED BY <2>1 DEF Carried, r
<1> QED BY <1>2, <1>3

LEMMA ContinueCarries ==
  ASSUME TypeOK, stack # <<>>, NEW g \in Frame, NEW b
  PROVE  Continue(g) \in Seq(Frame) /\ (b \in InFlight(g) => Carried(Continue(g), b))
<1>1. Callers \in Seq(Frame)
  BY Split
<1> QED BY <1>1, PushCarries, Pushed DEF Continue

\* The bytes stored one level down are the business of that level, and past the
\* last one they are not owed any more.
LEMMA PassDownCarries ==
  ASSUME TypeOK, NEW c \in Levels, NEW range \in AddrRange, NEW nt \in BOOLEAN, NEW st,
         NEW callers \in Seq(Frame), PassDown(c, range, nt, st, callers),
         NEW b, Stays(b), b \in Bytes(range) \/ Carried(callers, b)
  PROVE  Carried(stack', b)
<1> DEFINE below == Cache[c].store_to
           f     == StoreCall(below, range, nt)
<1>1. CASE below = None
  <2>1. memory["stores"].count \in Nat /\ memory' = Accessed("stores", range)
    BY <1>1 DEF PassDown, TypeOK, AccessTable, Counter
  <2>2. memory'["stores"].count # memory["stores"].count
    BY <2>1 DEF Accessed, TypeOK, AccessTable, Counter
  <2> QED BY <1>1, <2>2 DEF PassDown, Stays
<1>2. CASE below # None
  <2>1. below \in Levels
    BY <1>2, LinksLeadDown
  <2>2. f \in Frame
    BY <2>1, CallFrames
  <2>3. f.fn = "store" /\ f.c = below /\ f.range = range /\ f.cl = ClId(below, range.addr)
    BY DEF StoreCall
  <2>4. stack' = Append(callers, f)
    BY <1>2 DEF PassDown
  <2> HIDE DEF f, below
  <2>5. ASSUME b \in Bytes(range) PROVE b \in InFlight(f)
    <3>1. ClId(below, range.addr) <= ClId(below, b) /\ b \in Nat
      BY <2>1, <2>5, RangeLines
    <3>2. range.addr \in Nat
      BY DEF AddrRange
    <3>3. ClId(below, range.addr) \in Nat /\ ClId(below, b) \in Nat
      BY <2>1, <3>1, <3>2, InItsLine
    <3>4. ClId(below, b) >= ClId(below, range.addr)
      BY <3>1, <3>3
    <3> QED BY <2>3, <2>5, <3>4 DEF InFlight
  <2>6. Carried(Append(callers, f), b)
    BY <2>2, <2>5, PushCarries
  <2> QED BY <2>4, <2>6
<1> QED BY <1>1, <1>2

\* An injection leaves the frames it returns to, and writes a dirty line it
\* replaces back.
LEMMA InjectCarries ==
  ASSUME TypeOK, NEW c \in Levels, NEW e \in Entry, NEW idx \in ReplaceIdx(c),
         NEW callers \in Seq(Frame), Inject(c, e, idx, callers), NEW b, Stays(b),
         LET old == ReplaceEntry(c, placement[c][SetId(c, e.cl_id)], idx)
         IN  \/ Carried(callers, b)
             \/ /\ ~old.invalid /\ Cache[c].write_back /\ old.dirty
                /\ b \in Bytes(LineRange(c, old.cl_id))
  PROVE  Carried(stack', b)
<1> DEFINE s     == SetId(c, e.cl_id)
           q     == placement[c][s]
           old   == ReplaceEntry(c, q, idx)
           below == Cache[c].victims_to
           f     == CreditFrame(c)
           g     == InjectCall(below, old)
           wb    == ~old.invalid /\ Cache[c].write_back /\ old.dirty
<1>1. e.cl_id \in Nat /\ s \in Sets(c) /\ idx \in Ways(c)
  BY GeometryType, ReplaceIdxType DEF Entry
<1>2. q \in [Ways(c) -> Entry]
  BY <1>1 DEF TypeOK, PlacementOK
<1>3. old \in Entry
  <2> HIDE DEF q
  <2> QED BY <1>1, <1>2, ReplaceEntryType
<1>4. \/ \E nt \in BOOLEAN : PassDown(c, LineRange(c, old.cl_id), nt,
                               Bump(stats, c, "EVICT", Cache[c].cl_size), callers)
      \/ ~wb /\ below # None /\ stack' = Append(Append(callers, f), g)
      \/ ~wb /\ stack' = callers
  <2>1. \A slot, after : NonTemporalEvict(c, slot, after) \in BOOLEAN
    BY CacheType DEF Configuration, NonTemporalEvict
  <2> QED BY <2>1 DEF Inject
<1>5. Carried(callers, b) \/ (wb /\ b \in Bytes(LineRange(c, old.cl_id)))
  OBVIOUS
<1> HIDE DEF old, s, q, wb
<1>6. CASE \E nt \in BOOLEAN : PassDown(c, LineRange(c, old.cl_id), nt,
                                 Bump(stats, c, "EVICT", Cache[c].cl_size), callers)
  <2>1. LineRange(c, old.cl_id) \in AddrRange
    BY <1>3, GeometryType DEF Entry
  <2>2. b \in Bytes(LineRange(c, old.cl_id)) \/ Carried(callers, b)
    BY <1>5
  <2> QED BY <1>6, <2>1, <2>2, PassDownCarries
<1>7. CASE ~wb /\ below # None /\ stack' = Append(Append(callers, f), g)
  <2>1. f \in Frame /\ g \in Frame
    BY <1>3, <1>7, VictimFrames
  <2> HIDE DEF f, g
  <2>2. Carried(Append(callers, f), b) /\ Append(callers, f) \in Seq(Frame)
    BY <1>5, <1>7, <2>1, PushCarries, Pushed
  <2>3. Carried(Append(Append(callers, f), g), b)
    BY <2>1, <2>2, PushCarries
  <2> QED BY <1>7, <2>3
<1>8. CASE ~wb /\ stack' = callers
  BY <1>5, <1>8
<1> QED BY <1>4, <1>6, <1>7, <1>8

(* The actions. *)

\* A step that moves no line and hands none down.
LEMMA Unmoved ==
  ASSUME TypeOK, StackInv, stack # <<>>, Follows(stack'), UNCHANGED placement,
         Top.fn # "flush", NEW b, Covered(placement, stack, b),
         b \in InFlight(Top) => Carried(stack', b)
  PROVE  Covered(placement', stack', b)
<1>1. Top.c \in Levels
  BY Split DEF Frame
<1>2. CASE b \in InFlight(Top)
  BY <1>2 DEF Covered
<1>3. CASE Keeps(placement, stack, Top.c, b)
  <2>1. PICK w \in Ways(Top.c) : DirtyAt(placement, Top.c, b, w)
    BY <1>3 DEF Keeps
  <2>2. DirtyAt(placement', Top.c, b, w)
    BY <2>1 DEF DirtyAt
  <2> QED BY <1>1, <2>2, StillKept
<1>4. CASE b \notin InFlight(Top) /\ ~Keeps(placement, stack, Top.c, b)
  BY <1>4, CoveredElsewhere
<1> QED BY <1>2, <1>3, <1>4

LEMMA InjectCovers ==
  ASSUME MRUWritesThrough, TypeOK, StackInv, Tidy, stack # <<>>, Follows(stack'),
         Top.fn # "flush", NEW e \in Entry, NEW idx \in ReplaceIdx(Top.c),
         NEW callers \in Seq(Frame), Inject(Top.c, e, idx, callers),
         NEW b, Stays(b), b \in Nat, Covered(placement, stack, b),
         b \in InFlight(Top) => Carried(callers, b)
  PROVE  Covered(placement', stack', b)
<1> DEFINE c   == Top.c
           s   == SetId(c, e.cl_id)
           q   == placement[c][s]
           r   == Injected(c, q, idx, e)
           old == ReplaceEntry(c, q, idx)
           t   == SetId(c, ClId(c, b))
<1>1. c \in Levels
  BY Split DEF Frame
<1>2. placement' = [placement EXCEPT ![c][s] = r]
  BY DEF Inject
<1>3. s \in Sets(c) /\ t \in Sets(c) /\ ClId(c, b) \in Nat
  <2>1. e.cl_id \in Nat /\ ClId(c, b) \in Nat
    BY <1>1, InItsLine DEF Entry
  <2> QED BY <1>1, <2>1, GeometryType
<1>4. /\ placement \in [Levels -> {placement[x] : x \in Levels}]
      /\ placement[c] \in [Sets(c) -> [Ways(c) -> Entry]]
      /\ q \in [Ways(c) -> Entry] /\ CleanQueue(c, q)
  BY <1>1, <1>3 DEF TypeOK, PlacementOK, Tidy, ThroughClean
<1>5. placement'[c][s] = r /\ (t # s => placement'[c][t] = placement[c][t])
  <2> HIDE DEF r, q, s, t, c
  <2> QED BY <1>1, <1>2, <1>3, <1>4
<1>6. \A d \in Levels : d # Top.c => placement'[d] = placement[d]
  <2> HIDE DEF r, q, s
  <2> QED BY <1>2, OtherCaches DEF TypeOK
<1>7. CASE b \in InFlight(Top)
  <2>1. Carried(stack', b)
    BY <1>1, <1>7, InjectCarries
  <2> QED BY <2>1 DEF Covered
<1>8. CASE Keeps(placement, stack, c, b)
  <2>1. PICK w \in Ways(c) : DirtyAt(placement, c, b, w)
    BY <1>8 DEF Keeps
  <2>2. CASE t # s
    <3>1. DirtyAt(placement', c, b, w)
      BY <1>5, <2>1, <2>2 DEF DirtyAt
    <3> QED BY <1>1, <2>1, <3>1, StillKept
  <2>3. CASE t = s
    <3>1. ~q[w].invalid /\ q[w].cl_id = ClId(c, b) /\ q[w].dirty
      BY <2>1, <2>3 DEF DirtyAt, Holds
    <3>2. Cache[c].write_back
      BY <1>4, <2>1, <3>1 DEF CleanQueue
    <3>3. CASE q[w] = old
      <4>1. b \in Bytes(LineRange(c, old.cl_id))
        BY <1>1, <3>1, <3>3, InItsLine
      <4>2. ~old.invalid /\ old.dirty
        BY <3>1, <3>3
      <4>3. Carried(stack', b)
        BY <1>1, <3>2, <4>1, <4>2, InjectCarries
      <4> QED BY <4>3 DEF Covered
    <3>4. CASE q[w] # old
      <4>1. Cache[c].replacement_policy = "MRU" => Cache[c].ways = 1
        BY <1>1, <3>2 DEF MRUWritesThrough
      <4>2. PICK v \in Ways(c) : r[v] = q[w]
        <5> HIDE DEF q
        <5> QED BY <1>1, <1>4, <2>1, <3>4, <4>1, InjectedKeeps
      <4>3. DirtyAt(placement', c, b, v)
        <5> HIDE DEF r, q
        <5> QED BY <1>5, <2>3, <3>1, <4>2 DEF DirtyAt, Holds
      <4> QED BY <1>1, <4>3, StillKept
    <3> QED BY <3>3, <3>4
  <2> QED BY <2>2, <2>3
<1>9. CASE b \notin InFlight(Top) /\ ~Keeps(placement, stack, c, b)
  BY <1>6, <1>9, CoveredElsewhere
<1> QED BY <1>7, <1>8, <1>9

LEMMA LoadCovers ==
  ASSUME MRUWritesThrough, TypeOK, StackInv, Tidy, LoadStep,
         NEW b, Stays(b), b \in Nat, Covered(placement, stack, b)
  PROVE  Covered(placement', stack', b)
<1>1. stack # <<>> /\ Follows(stack')
  BY LoadFollows
<1>2. Top.fn \in {"load", "fill"}
  BY TopType DEF LoadStep, LoadHit, LoadMiss, LoadFill, LoadReturn
<1>3. InFlight(Top) = {}
  BY <1>2 DEF InFlight
<1>4. CASE UNCHANGED placement
  BY <1>1, <1>2, <1>3, <1>4, Unmoved
<1>5. CASE LoadHit /\ placement' # placement
  <2> DEFINE c   == Top.c
             k   == Location(c, Top.cl)
             q   == placement[c][TopSet]
             r   == PushFront(q, k, q[k])
             t   == SetId(c, ClId(c, b))
  <2>1. c \in Levels /\ Top.cl \in Nat /\ TopSet \in Sets(c)
    BY <1>5, TopType DEF LoadHit
  <2>2. k \in Ways(c)
    BY <1>5, <2>1, LocationType DEF LoadHit, TypeOK
  <2>3. /\ placement \in [Levels -> {placement[x] : x \in Levels}]
        /\ placement[c] \in [Sets(c) -> [Ways(c) -> Entry]]
        /\ q \in [Ways(c) -> Entry]
    BY <2>1 DEF TypeOK, PlacementOK
  <2>4. placement' = [placement EXCEPT ![c][TopSet] = r]
    BY <1>5 DEF LoadHit
  <2>5. placement'[c][TopSet] = r /\ (t # TopSet => placement'[c][t] = placement[c][t])
    <3>1. t \in Sets(c)
      BY <2>1, InItsLine, GeometryType
    <3> HIDE DEF r, q, t, c
    <3> QED BY <2>1, <2>3, <2>4, <3>1
  <2>6. \A d \in Levels : d # Top.c => placement'[d] = placement[d]
    <3> HIDE DEF r, q
    <3> QED BY <2>4, OtherCaches DEF TypeOK
  <2>7. CASE Keeps(placement, stack, c, b)
    <3>1. PICK w \in Ways(c) : DirtyAt(placement, c, b, w)
      BY <2>7 DEF Keeps
    <3>2. CASE t # TopSet
      <4>1. DirtyAt(placement', c, b, w)
        BY <2>5, <3>1, <3>2 DEF DirtyAt
      <4> QED BY <1>1, <1>2, <2>1, <3>1, <4>1, StillKept
    <3>3. CASE t = TopSet
      <4>1. PICK v \in Ways(c) : r[v] = q[w]
        <5> HIDE DEF q, k
        <5> QED BY <2>1, <2>2, <2>3, <3>1, PushFrontEntries
      <4>2. Holds(q[w], ClId(c, b)) /\ q[w].dirty
        BY <3>1, <3>3 DEF DirtyAt
      <4>3. DirtyAt(placement', c, b, v)
        <5> HIDE DEF r, q
        <5> QED BY <2>5, <3>3, <4>1, <4>2 DEF DirtyAt
      <4> QED BY <1>1, <1>2, <2>1, <4>3, StillKept
    <3> QED BY <3>2, <3>3
  <2>8. CASE ~Keeps(placement, stack, c, b)
    BY <1>1, <1>3, <2>6, <2>8, CoveredElsewhere
  <2> QED BY <2>7, <2>8
<1>6. CASE LoadFill
  <2> DEFINE e == [cl_id |-> Top.cl, dirty |-> FALSE, invalid |-> FALSE]
  <2>1. stack # <<>> /\ Top \in Frame /\ Top.c \in Levels /\ e \in Entry
    BY <1>6, TopType DEF LoadFill, Entry
  <2>2. PICK idx \in ReplaceIdx(Top.c) :
          Inject(Top.c, e, idx, Continue([Top EXCEPT !.fn = "load", !.cl = @ + 1, !.loc = idx]))
    BY <1>6 DEF LoadFill
  <2> DEFINE g == [Top EXCEPT !.fn = "load", !.cl = @ + 1, !.loc = idx]
  <2>3. idx \in Nat
    BY <2>1, ReplaceIdxType, GeometryType
  <2>4. g \in Frame
    BY <2>1, <2>3, FrameSteps
  <2>5. Inject(Top.c, e, idx, Continue(g))
    BY <2>2
  <2> HIDE DEF g, e
  <2>6. Continue(g) \in Seq(Frame)
    BY <2>1, <2>4, ContinueCarries
  <2> QED BY <1>1, <1>2, <1>3, <2>1, <2>5, <2>6, InjectCovers
<1>7. LoadHit \/ LoadFill \/ UNCHANGED placement
  BY DEF LoadStep, LoadMiss, LoadReturn
<1> QED BY <1>4, <1>5, <1>6, <1>7

\* The bytes of a store that are beyond its line are in its next line or later.
LEMMA BytesAhead ==
  ASSUME TypeOK, stack # <<>>, Top.fn = "write", NEW b \in InFlight(Top)
  PROVE  /\ b \in Bytes(Top.range) /\ b \in Nat /\ ClId(Top.c, b) \in Nat
         /\ ClId(Top.c, b) # Top.cl => b \in InFlight(NextLine)
<1>1. Top.c \in Levels /\ Top.cl \in Nat /\ Top.range \in AddrRange
  BY Split DEF Frame
<1>2. b \in Bytes(Top.range) /\ ClId(Top.c, b) >= Top.cl
  BY DEF InFlight
<1>3. b \in Nat
  BY <1>1, <1>2, RangeLines
<1>4. ClId(Top.c, b) \in Nat
  BY <1>1, <1>3, InItsLine
<1>5. ASSUME ClId(Top.c, b) # Top.cl PROVE b \in InFlight(NextLine)
  <2>1. ClId(Top.c, b) >= Top.cl + 1
    BY <1>1, <1>2, <1>4, <1>5
  <2> QED BY <1>2, <2>1, NextLineFrame DEF InFlight
<1> QED BY <1>2, <1>3, <1>4, <1>5

LEMMA DirtyCovers ==
  ASSUME TypeOK, StackInv, Tidy, StoreDirty,
         NEW b, Stays(b), b \in Nat, Covered(placement, stack, b)
  PROVE  Covered(placement', stack', b)
<1> DEFINE c   == Top.c
           q   == placement[c][TopSet]
           r   == [q EXCEPT ![Top.loc].dirty = TRUE]
           t   == SetId(c, ClId(c, b))
<1>1. stack # <<>> /\ Follows(stack')
  BY StoreFollows DEF StoreStep
<1>2. /\ Top \in Frame /\ Top.fn = "write" /\ c \in Levels /\ TopSet \in Sets(c)
      /\ TopSet = SetId(c, Top.cl) /\ Top.loc # -1 /\ stack' = Continue(NextLine)
  BY TopType DEF StoreDirty, WriteHere, TopSet
<1>3. Top.loc \in Ways(c) /\ Holds(q[Top.loc], Top.cl)
  <2>1. Top.loc = WayOf(c, q, Top.cl)
    BY <1>1, <1>2, TopSettled DEF Settled, Where
  <2> HIDE DEF q
  <2> QED BY <1>2, <2>1, WayOfHolds
<1>4. /\ placement \in [Levels -> {placement[x] : x \in Levels}]
      /\ placement[c] \in [Sets(c) -> [Ways(c) -> Entry]]
      /\ q \in [Ways(c) -> Entry]
  BY <1>2 DEF TypeOK, PlacementOK
<1>5. placement' = [placement EXCEPT ![c][TopSet] = r]
  BY DEF StoreDirty
<1>6. placement'[c][TopSet] = r /\ (t # TopSet => placement'[c][t] = placement[c][t])
  <2>1. t \in Sets(c)
    BY <1>2, InItsLine, GeometryType
  <2> HIDE DEF r, q, t, c
  <2> QED BY <1>2, <1>4, <1>5, <2>1
<1>7. \A d \in Levels : d # Top.c => placement'[d] = placement[d]
  <2> HIDE DEF r, q
  <2> QED BY <1>5, OtherCaches DEF TypeOK
<1>8. /\ r[Top.loc].dirty
      /\ \A w \in Ways(c) : /\ r[w].invalid = q[w].invalid /\ r[w].cl_id = q[w].cl_id
                            /\ q[w].dirty => r[w].dirty
  <2> HIDE DEF q
  <2> QED BY <1>3, <1>4 DEF Entry
<1> HIDE DEF r
<1>9. CASE b \in InFlight(Top) /\ ClId(c, b) = Top.cl
  <2>1. DirtyAt(placement', c, b, Top.loc)
    <3> HIDE DEF q
    <3> QED BY <1>2, <1>3, <1>6, <1>8, <1>9 DEF DirtyAt, Holds
  <2> QED BY <1>1, <1>2, <1>3, <2>1, StillKept
<1>10. CASE b \in InFlight(Top) /\ ClId(c, b) # Top.cl
  <2>1. b \in InFlight(NextLine) /\ NextLine \in Frame
    BY <1>1, <1>2, <1>10, BytesAhead, NextLineFrame
  <2>2. Carried(stack', b)
    BY <1>1, <1>2, <2>1, ContinueCarries
  <2> QED BY <2>2 DEF Covered
<1>11. CASE Keeps(placement, stack, c, b)
  <2>1. PICK w \in Ways(c) : DirtyAt(placement, c, b, w)
    BY <1>11 DEF Keeps
  <2>2. DirtyAt(placement', c, b, w)
    <3>1. CASE t # TopSet
      BY <1>6, <2>1, <3>1 DEF DirtyAt
    <3>2. CASE t = TopSet
      <4>1. Holds(q[w], ClId(c, b)) /\ q[w].dirty
        BY <2>1, <3>2 DEF DirtyAt
      <4> HIDE DEF q
      <4> QED BY <1>6, <1>8, <2>1, <3>2, <4>1 DEF DirtyAt, Holds
    <3> QED BY <3>1, <3>2
  <2> QED BY <1>1, <1>2, <2>1, <2>2, StillKept
<1>12. CASE b \notin InFlight(Top) /\ ~Keeps(placement, stack, c, b)
  BY <1>1, <1>7, <1>12, CoveredElsewhere
<1> QED BY <1>9, <1>10, <1>11, <1>12

LEMMA StoreCovers ==
  ASSUME MRUWritesThrough, TypeOK, StackInv, Tidy, StoreStep,
         NEW b, Stays(b), b \in Nat, Covered(placement, stack, b)
  PROVE  Covered(placement', stack', b)
<1>1. stack # <<>> /\ Follows(stack') /\ Top \in Frame /\ Top.c \in Levels
  <2>1. stack # <<>> /\ Follows(stack')
    BY StoreFollows
  <2> QED BY <2>1, Split, FrameLevel
<1>2. Top.fn \in {"store", "write"}
  BY TopType DEF StoreStep, StoreAllocate, StoreInject, StoreLookup, StoreDirty,
     StoreForward, StoreReturn, Storing
<1>3. ASSUME NEW g \in Frame, g.fn = "write", g.c = Top.c, g.cl = Top.cl, g.range = Top.range
      PROVE  b \in InFlight(Top) => Carried(Continue(g), b)
  <2>1. InFlight(g) = InFlight(Top)
    BY <1>2, <1>3 DEF InFlight
  <2> QED BY <1>1, <2>1, ContinueCarries
<1>4. CASE StoreAllocate
  <2> DEFINE g == [Top EXCEPT !.fn = "write"]
             h == LoadCall(Top.c, LineRange(Top.c, Top.cl))
  <2>1. Top.cl \in Nat /\ stack' = Append(Continue(g), h) /\ UNCHANGED placement
    BY <1>4, TopType DEF StoreAllocate, Storing
  <2>2. LineRange(Top.c, Top.cl) \in AddrRange
    BY <1>1, <2>1, GeometryType
  <2>3. g \in Frame /\ h \in Frame
    BY <1>1, <2>2, FrameSteps, CallFrames
  <2>4. g.fn = "write" /\ g.c = Top.c /\ g.cl = Top.cl /\ g.range = Top.range
    BY <1>1, FrameFields
  <2> HIDE DEF g, h
  <2>5. b \in InFlight(Top) => Carried(Continue(g), b)
    BY <1>3, <2>3, <2>4
  <2>6. Continue(g) \in Seq(Frame)
    BY <1>1, <2>3, ContinueCarries
  <2>7. b \in InFlight(Top) => Carried(Append(Continue(g), h), b)
    BY <2>3, <2>5, <2>6, PushCarries
  <2> QED BY <1>1, <1>2, <2>1, <2>7, Unmoved
<1>5. CASE StoreInject
  <2> DEFINE e == [cl_id |-> Top.cl, dirty |-> TRUE, invalid |-> FALSE]
  <2>1. e \in Entry
    BY <1>5, TopType DEF StoreInject, Storing, Entry
  <2>2. PICK idx \in ReplaceIdx(Top.c) :
          Inject(Top.c, e, idx, Continue([Top EXCEPT !.fn = "write", !.loc = idx]))
    BY <1>5 DEF StoreInject
  <2> DEFINE g == [Top EXCEPT !.fn = "write", !.loc = idx]
  <2>3. idx \in Nat
    BY <1>1, ReplaceIdxType, GeometryType
  <2>4. g \in Frame /\ g.fn = "write" /\ g.c = Top.c /\ g.cl = Top.cl /\ g.range = Top.range
    BY <1>1, <2>3, WriteFrame
  <2>5. Inject(Top.c, e, idx, Continue(g))
    BY <2>2
  <2> HIDE DEF g, e
  <2>6. b \in InFlight(Top) => Carried(Continue(g), b)
    BY <1>3, <2>4
  <2>7. Continue(g) \in Seq(Frame)
    BY <1>1, <2>4, ContinueCarries
  <2> QED BY <1>1, <1>2, <2>1, <2>5, <2>6, <2>7, InjectCovers
<1>6. CASE StoreLookup
  <2> DEFINE w == Location(Top.c, Top.cl)
             g == [Top EXCEPT !.fn = "write", !.loc = w]
  <2>1. Top.cl \in Nat /\ stack' = Continue(g) /\ UNCHANGED placement
    BY <1>6, TopType DEF StoreLookup, Storing
  <2>2. w \in Nat \cup {-1}
    <3>1. w \in Ways(Top.c) \cup {-1}
      BY <1>1, <2>1, LocationType DEF TypeOK
    <3> QED BY <1>1, <3>1, GeometryType, <2>1
  <2>3. g \in Frame /\ g.fn = "write" /\ g.c = Top.c /\ g.cl = Top.cl /\ g.range = Top.range
    BY <1>1, <2>2, WriteFrame
  <2> HIDE DEF g
  <2>4. b \in InFlight(Top) => Carried(Continue(g), b)
    BY <1>3, <2>3
  <2> QED BY <1>1, <1>2, <2>1, <2>4, Unmoved
<1>7. CASE StoreDirty
  BY <1>7, DirtyCovers
<1>8. CASE StoreForward
  <2> DEFINE range == ClipRange(Top.c, Top.cl, Top.range)
  <2>1. /\ Top.fn = "write" /\ Top.cl \in Nat /\ Top.range \in AddrRange
        /\ Top.nt \in BOOLEAN /\ Top.cl <= LastCl(Top.c, Top.range) /\ UNCHANGED placement
    BY <1>8, TopType DEF StoreForward, FrameOK
  <2>2. range \in AddrRange
    BY <1>1, <2>1, ClipType
  <2>3. PICK st : PassDown(Top.c, range, Top.nt, st, Continue(NextLine))
    BY <1>8 DEF StoreForward
  <2>4. NextLine \in Frame
    BY <1>1, NextLineFrame
  <2>5. Continue(NextLine) \in Seq(Frame)
    BY <1>1, <2>4, ContinueCarries
  <2>6. ASSUME b \in InFlight(Top)
        PROVE  b \in Bytes(range) \/ Carried(Continue(NextLine), b)
    <3>1. CASE ClId(Top.c, b) = Top.cl
      <4>1. b \in Bytes(Top.range)
        BY <1>1, <2>1, <2>6, BytesAhead
      <4>2. b \in Bytes(ClipRange(Top.c, ClId(Top.c, b), Top.range))
        BY <1>1, <2>1, <4>1, ClipBytes
      <4> QED BY <3>1, <4>2
    <3>2. CASE ClId(Top.c, b) # Top.cl
      <4>1. b \in InFlight(NextLine)
        BY <1>1, <2>1, <2>6, <3>2, BytesAhead
      <4> QED BY <1>1, <2>4, <4>1, ContinueCarries
    <3> QED BY <3>1, <3>2
  <2> HIDE DEF range
  <2>7. b \in InFlight(Top) => Carried(stack', b)
    BY <1>1, <2>1, <2>2, <2>3, <2>5, <2>6, PassDownCarries
  <2> QED BY <1>1, <2>1, <2>7, Unmoved
<1>9. CASE StoreReturn
  <2>1. /\ Top.fn = "store" /\ Top.cl > LastCl(Top.c, Top.range) /\ UNCHANGED placement
        /\ Top.cl \in Nat /\ Top.range \in AddrRange
    BY <1>9, TopType DEF StoreReturn
  <2>2. ASSUME b \in InFlight(Top) PROVE FALSE
    <3>1. b \in Bytes(Top.range) /\ ClId(Top.c, b) >= Top.cl
      BY <2>2 DEF InFlight
    <3>2. ClId(Top.c, b) <= LastCl(Top.c, Top.range)
      BY <1>1, <2>1, <3>1, RangeLines
    <3>3. ClId(Top.c, b) \in Nat /\ LastCl(Top.c, Top.range) \in Int
      BY <1>1, <2>1, InItsLine, ClIdType
    <3> QED BY <2>1, <3>1, <3>2, <3>3
  <2> QED BY <1>1, <2>1, <2>2, Unmoved
<1> QED BY <1>4, <1>5, <1>6, <1>7, <1>8, <1>9 DEF StoreStep

LEMMA VictimCovers ==
  ASSUME MRUWritesThrough, TypeOK, StackInv, Tidy, VictimStep,
         NEW b, Stays(b), b \in Nat, Covered(placement, stack, b)
  PROVE  Covered(placement', stack', b)
<1>1. stack # <<>> /\ Follows(stack')
  BY VictimFollows
<1>2. Top.fn \in {"inject", "credit"}
  BY TopType DEF VictimStep, InjectVictim, CreditVictim
<1>3. InFlight(Top) = {}
  BY <1>2 DEF InFlight
<1>4. CASE InjectVictim
  <2> DEFINE e == [cl_id |-> Top.cl, dirty |-> Top.dirty, invalid |-> FALSE]
  <2>1. e \in Entry
    BY <1>4, TopType DEF InjectVictim, Entry
  <2>2. PICK idx \in ReplaceIdx(Top.c) : Inject(Top.c, e, idx, Callers)
    BY <1>4 DEF InjectVictim
  <2> HIDE DEF e
  <2>3. Callers \in Seq(Frame)
    BY <1>1, Split
  <2> QED BY <1>1, <1>2, <1>3, <2>1, <2>2, <2>3, InjectCovers
<1>5. CASE CreditVictim
  BY <1>1, <1>2, <1>3, <1>5, Unmoved DEF CreditVictim
<1> QED BY <1>4, <1>5 DEF VictimStep

LEMMA FlushCovers ==
  ASSUME TypeOK, StackInv, FlushStep,
         NEW b, Stays(b), b \in Nat, Covered(placement, stack, b)
  PROVE  Covered(placement', stack', b)
<1> DEFINE c == Top.c
           t == SetId(c, ClId(c, b))
<1>1. stack # <<>> /\ Follows(stack') /\ Top \in Frame /\ c \in Levels /\ t \in Sets(c)
  <2>1. stack # <<>> /\ Follows(stack')
    BY FlushFollows
  <2>2. Top \in Frame /\ c \in Levels
    BY <2>1, Split, FrameLevel
  <2> QED BY <2>1, <2>2, InItsLine, GeometryType
<1>2. Top.fn \in {"flush", "clean"}
  BY TopType DEF FlushStep, FlushSlot, FlushClean, FlushReturn
<1>3. InFlight(Top) = {}
  BY <1>2 DEF InFlight
<1>4. CASE ~Keeps(placement, stack, c, b)
  <2>1. \A d \in Levels : d # Top.c => placement'[d] = placement[d]
    <3>1. CASE UNCHANGED placement
      BY <3>1
    <3>2. CASE FlushClean
      <4> DEFINE q == [placement[Top.c][Top.cl] EXCEPT ![Top.loc].dirty = FALSE]
      <4>1. placement' = [placement EXCEPT ![Top.c][Top.cl] = q]
        BY <3>2 DEF FlushClean
      <4> HIDE DEF q
      <4> QED BY <4>1, OtherCaches DEF TypeOK
    <3> QED BY <3>1, <3>2 DEF FlushStep, FlushSlot, FlushReturn
  <2> QED BY <1>1, <1>3, <1>4, <2>1, CoveredElsewhere
<1>5. ASSUME NEW w \in Ways(c), DirtyAt(placement, c, b, w), UNCHANGED placement,
             ~(t = Top.cl /\ w = Top.loc)
      PROVE  Covered(placement', stack', b)
  <2>1. ~Given(stack', c, t, w)
    BY <1>1, <1>5, GivenAfter
  <2>2. DirtyAt(placement', c, b, w)
    BY <1>5 DEF DirtyAt
  <2> QED BY <1>1, <2>1, <2>2 DEF Covered, Keeps
<1>6. CASE Keeps(placement, stack, c, b)
  <2>1. PICK w \in Ways(c) : DirtyAt(placement, c, b, w) /\ ~Given(stack, c, t, w)
    BY <1>6 DEF Keeps
  <2>2. CASE FlushSlot
    <3>1. CASE t = Top.cl /\ w = Top.loc
      <4> DEFINE g    == [Top EXCEPT !.fn = "clean"]
                 line == LineRange(c, Slot.cl_id)
      <4>1. Slot = placement[c][t][w]
        BY <3>1 DEF Slot
      <4>2. ~Slot.invalid /\ Slot.dirty /\ Slot.cl_id = ClId(c, b)
        BY <2>1, <4>1 DEF DirtyAt, Holds
      <4>3. \E nt \in BOOLEAN : \E st : PassDown(c, line, nt, st, Continue(g))
        <5>1. \A slot : NonTemporalFlush(c, slot) \in BOOLEAN
          BY <1>1, CacheType DEF Configuration, NonTemporalFlush
        <5> QED BY <2>2, <4>2, <5>1 DEF FlushSlot
      <4>4. b \in Bytes(line) /\ line \in AddrRange
        BY <1>1, <4>2, InItsLine, GeometryType
      <4>5. g \in Frame
        BY <1>1, FrameSteps
      <4> HIDE DEF g, line
      <4>6. Continue(g) \in Seq(Frame)
        BY <1>1, <4>5, ContinueCarries
      <4>7. Carried(stack', b)
        BY <1>1, <4>3, <4>4, <4>6, PassDownCarries
      <4> QED BY <4>7 DEF Covered
    <3>2. CASE ~(t = Top.cl /\ w = Top.loc)
      BY <1>5, <2>1, <2>2, <3>2 DEF FlushSlot
    <3> QED BY <3>1, <3>2
  <2>3. CASE FlushClean
    <3>1. /\ Top.fn = "clean" /\ Top.cl \in Sets(c)
          /\ placement' = [placement EXCEPT ![c][Top.cl][Top.loc].dirty = FALSE]
      BY <2>3, TopType DEF FlushClean, FrameOK
    <3>2. ~(t = Top.cl /\ w = Top.loc)
      <4>1. Len(stack) \in 1..Len(stack) /\ Top = stack[Len(stack)]
        BY <1>1, Split
      <4>2. Given(stack, c, Top.cl, Top.loc)
        BY <3>1, <4>1 DEF Given
      <4> QED BY <2>1, <4>2
    <3>3. /\ placement \in [Levels -> {placement[x] : x \in Levels}]
          /\ placement[c] \in [Sets(c) -> [Ways(c) -> Entry]]
      BY <1>1 DEF TypeOK, PlacementOK
    <3>4. placement'[c][t][w] = placement[c][t][w]
      BY <1>1, <2>1, <3>1, <3>2, <3>3
    <3>5. DirtyAt(placement', c, b, w)
      BY <2>1, <3>4 DEF DirtyAt
    <3> QED BY <1>1, <2>1, <3>1, <3>5, StillKept
  <2>4. CASE FlushReturn
    BY <1>1, <1>5, <2>1, <2>4 DEF FlushReturn
  <2> QED BY <2>2, <2>3, <2>4 DEF FlushStep
<1> QED BY <1>4, <1>6

\* No line moves and none is handed down at the start of a call or in a walk.
LEMMA IdleKeeps ==
  ASSUME stack = <<>>, UNCHANGED placement,
         stack' = stack \/ \E f : stack' = <<f>> /\ f.fn # "clean",
         NEW b, Covered(placement, stack, b)
  PROVE  Covered(placement', stack', b)
<1>1. ~Carried(stack, b)
  BY DEF Carried
<1>2. PICK c \in Levels : Keeps(placement, stack, c, b)
  BY <1>1 DEF Covered
<1>3. PICK w \in Ways(c) : DirtyAt(placement, c, b, w)
  BY <1>2 DEF Keeps
<1>4. ~Given(stack', c, SetId(c, ClId(c, b)), w)
  <2>1. \A f : f.fn # "clean" => ~Given(<<f>>, c, SetId(c, ClId(c, b)), w)
    BY DEF Given
  <2>2. ~Given(<<>>, c, SetId(c, ClId(c, b)), w)
    BY DEF Given
  <2> QED BY <2>1, <2>2
<1>5. DirtyAt(placement', c, b, w)
  BY <1>3 DEF DirtyAt
<1> QED BY <1>4, <1>5 DEF Covered, Keeps

\* The bytes of a new store are in its frame.
LEMMA StoreEnters ==
  ASSUME NEW range \in Ranges, Store(range), NEW b \in Bytes(range)
  PROVE  Carried(stack', b)
<1> DEFINE f == StoreCall(FirstLevel, range, FALSE)
<1>1. range \in AddrRange /\ FirstLevel \in Levels
  BY HierarchyAssumption, FirstLevelType
<1>2. stack' = <<f>>
  BY DEF Store
<1>3. /\ f.fn = "store" /\ f.c = FirstLevel /\ f.range = range
      /\ f.cl = ClId(FirstLevel, range.addr)
  BY DEF StoreCall
<1> HIDE DEF f
<1>4. ClId(FirstLevel, range.addr) <= ClId(FirstLevel, b) /\ b \in Nat
  BY <1>1, RangeLines
<1>5. range.addr \in Nat
  BY <1>1 DEF AddrRange
<1>6. ClId(FirstLevel, range.addr) \in Nat /\ ClId(FirstLevel, b) \in Nat
  BY <1>1, <1>4, <1>5, InItsLine
<1>7. ClId(FirstLevel, b) >= ClId(FirstLevel, range.addr)
  BY <1>4, <1>6
<1>8. b \in InFlight(f)
  BY <1>3, <1>7 DEF InFlight
<1>9. Len(<<f>>) = 1 /\ <<f>>[1] = f
  OBVIOUS
<1> QED BY <1>2, <1>8, <1>9 DEF Carried

\* What the steps between the calls do to the lines and the stack.
LEMMA IdleSteps ==
  ASSUME Call \/ WalkStep
  PROVE  /\ stack = <<>>
         /\ stack' = stack \/ \E f : stack' = <<f>> /\ f.fn # "clean"
         /\ UNCHANGED placement \/ VisitInvalidate
<1>1. stack = <<>>
  BY DEF Call, Load, Store, StartWalk, Idle, WalkStep, WalkOn, VisitFlush, VisitReset,
         VisitInvalidate, WalkEnd, WalkDone, Visiting, Walking
<1>2. ASSUME NEW c, NEW range, NEW nt
      PROVE  /\ LoadCall(c, range).fn = "load" /\ StoreCall(c, range, nt).fn = "store"
             /\ FlushCall(c).fn = "flush"
  BY DEF LoadCall, StoreCall, FlushCall
<1>3. \/ stack' = stack
      \/ \E range : stack' = <<LoadCall(FirstLevel, range)>>
      \/ \E range : stack' = <<StoreCall(FirstLevel, range, FALSE)>>
      \/ stack' = <<FlushCall(Head(walk.pending))>>
  BY DEF Call, Load, Store, StartWalk, WalkStep, WalkOn, VisitFlush, VisitReset,
         VisitInvalidate, WalkEnd
<1>4. UNCHANGED placement \/ VisitInvalidate
  BY DEF Call, Load, Store, StartWalk, WalkStep, WalkOn, VisitFlush, VisitReset, WalkEnd
<1> QED BY <1>1, <1>2, <1>3, <1>4

LEMMA IdleCovers ==
  ASSUME Forgotten, Safe, Call \/ WalkStep
  PROVE  Safe'
<1> SUFFICES ASSUME NEW b \in owed' PROVE Covered(placement', stack', b)
  BY DEF Safe, Covered, Keeps, DirtyAt, Carried, Given, InFlight
<1>1. CASE VisitInvalidate
  BY <1>1 DEF VisitInvalidate, Visiting, Forgotten
<1>2. CASE b \in owed /\ UNCHANGED placement
  BY <1>2, IdleSteps, IdleKeeps DEF Safe
<1>3. ASSUME NEW range \in Ranges, Store(range), b \notin owed
      PROVE  Covered(placement', stack', b)
  <2>1. b \in Bytes(range)
    BY <1>3 DEF Store
  <2> QED BY <1>3, <2>1, StoreEnters DEF Covered
<1>4. b \in owed \/ \E range \in Ranges : Store(range)
  BY DEF Call, Load, StartWalk, WalkStep, WalkOn, VisitFlush, VisitReset, VisitInvalidate,
         WalkEnd
<1> QED BY <1>1, <1>2, <1>3, <1>4, IdleSteps

\* Where every MRU cache writes through, a byte the program stored is until it
\* reaches main memory in a dirty line of some cache or in a store that is under
\* way, for every hierarchy and every sequence of calls: replacements, hits,
\* victim deliveries, write-through, force_write_back and its clearing of dirty
\* bits after the write-back has returned all keep to that.
THEOREM NoWriteIsLost == MRUWritesThrough => (Spec => []NoLostWrites)
<1> SUFFICES ASSUME MRUWritesThrough PROVE Spec => []NoLostWrites
  OBVIOUS
<1>1. Init => Safe
  BY DEF Init, Safe
<1>2. TypeOK /\ StackInv /\ Tidy /\ Forgotten /\ Safe /\ [Next]_vars => Safe'
  <2> SUFFICES ASSUME TypeOK, StackInv, Tidy, Forgotten, Safe, [Next]_vars
               PROVE  Safe'
    OBVIOUS
  <2>1. CASE Call \/ WalkStep
    BY <2>1, IdleCovers
  <2>2. CASE RunningStep
    <3> SUFFICES ASSUME NEW b \in owed' PROVE Covered(placement', stack', b)
      BY DEF Safe, Covered, Keeps, DirtyAt, Carried, Given, InFlight
    <3>1. b \in owed /\ b \in Nat /\ Stays(b)
      BY <2>2, StepOwes DEF TypeOK, Stays
    <3>2. Covered(placement, stack, b)
      BY <3>1 DEF Safe
    <3> QED BY <2>2, <3>1, <3>2, LoadCovers, StoreCovers, VictimCovers, FlushCovers
            DEF RunningStep
  <2>3. CASE UNCHANGED vars
    BY <2>3 DEF vars, Safe, Covered, Keeps, DirtyAt, Carried, Given, InFlight
  <2> QED BY <2>1, <2>2, <2>3 DEF Next, Step, RunningStep
<1>3. Safe => NoLostWrites
  <2> SUFFICES ASSUME NEW b \in owed, Covered(placement, stack, b),
                      ~Carried(stack, b)
               PROVE  \E c \in Levels : DirtyIn(c, b)
    BY DEF Safe, NoLostWrites, Carried
  <2>1. PICK c \in Levels : Keeps(placement, stack, c, b)
    BY DEF Covered
  <2>2. DirtyIn(c, b)
    BY <2>1 DEF Keeps, DirtyAt, DirtyIn
  <2> QED BY <2>2
<1> QED BY <1>1, <1>2, <1>3, TypeCorrect, FramesStaySound, StaysTidy, StaysForgotten,
           PTL DEF Spec
=============================================================================
