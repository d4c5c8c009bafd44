------------------------------ MODULE LineProofs ------------------------------
(***************************************************************************)
(* What holds between two calls of the recursion, for every hierarchy: the *)
(* frames of the stack work on different caches, except where a function   *)
(* calls into its own cache on purpose, and so the values a frame keeps    *)
(* across its calls still describe its cache when these return.            *)
(***************************************************************************)
EXTENDS HierarchyProofs

(* The inductive invariant. *)

\* The way of queue q that holds line cl, and the same for a whole placement.
WayOf(c, q, cl) ==
  LET hits == {w \in Ways(c) : Holds(q[w], cl)}
  IN  IF hits = {} THEN -1 ELSE CHOOSE w \in hits : \A v \in hits : w <= v

Where(p, c, cl) == WayOf(c, p[c][SetId(c, cl)], cl)

Loading == {"load", "fill"}

\* Frame g runs above frame f: in a cache further down, or in the same one if
\* it is the rest of the injection f started, or the load of a write-allocate.
Above(f, g) ==
  \/ f.c < g.c
  \/ /\ f.c = g.c
     /\ \/ g.fn = "credit" /\ f.fn \in {"load", "write"}
        \/ g.fn \in Loading /\ f.fn = "write"

Nested(st) == \A i, j \in 1..Len(st) : i < j => Above(st[i], st[j])

\* g is the load of the line that the write-allocate frame f waits for: still
\* to be done, or done and about to return the way of the line.
Allocates(p, f, g) ==
  /\ g.c = f.c /\ g.range = LineRange(f.c, f.cl)
  /\ \/ g.cl = f.cl /\ Where(p, f.c, f.cl) = -1
     \/ g.fn = "load" /\ g.cl = f.cl + 1 /\ g.loc = Where(p, f.c, f.cl)

\* What a running frame relies on.
Settled(p, f) ==
  /\ f.fn = "fill"   => Where(p, f.c, f.cl) = -1
  /\ f.fn = "inject" => f.c \in VictimCaches
  /\ f.fn = "store"  => f.loc = -1
  /\ f.fn = "write"  => f.loc = Where(p, f.c, f.cl)

WaitsForLoad(st, i) ==
  st[i].fn = "write" /\ i + 1 \in 1..Len(st) /\ st[i + 1].fn \in Loading

\* What frame i relies on when the frames above it have returned.
Relies(p, st, i) ==
  IF WaitsForLoad(st, i) THEN Allocates(p, st[i], st[i + 1]) ELSE Settled(p, st[i])

Sound(p, st) == Nested(st) /\ \A i \in 1..Len(st) : Relies(p, st, i)

StackInv == Sound(placement, stack)

(* Queues and lines. *)

LEMMA LocationIsWhere ==
  \A c, cl : Location(c, cl) = Where(placement, c, cl)
  BY DEF Location, Where, WayOf

\* A look-up in a queue finds the line if and only if a way holds it.
LEMMA WayOfHolds ==
  ASSUME NEW c \in Levels, NEW q, NEW cl
  PROVE  IF WayOf(c, q, cl) = -1
         THEN \A w \in Ways(c) : ~Holds(q[w], cl)
         ELSE WayOf(c, q, cl) \in Ways(c) /\ Holds(q[WayOf(c, q, cl)], cl)
<1> DEFINE hits == {w \in Ways(c) : Holds(q[w], cl)}
<1>1. hits \in SUBSET Nat /\ -1 \notin Ways(c)
  BY CacheType DEF Ways
<1>2. hits # {} => (CHOOSE w \in hits : \A v \in hits : w <= v) \in hits
  <2> HIDE DEF hits
  <2> QED BY <1>1, LeastElement
<1>3. CASE hits = {}
  BY <1>3 DEF WayOf
<1>4. CASE hits # {}
  <2>1. WayOf(c, q, cl) \in hits
    BY <1>2, <1>4 DEF WayOf
  <2> QED BY <1>1, <2>1
<1> QED BY <1>3, <1>4

LEMMA OnlyWay ==
  ASSUME NEW c \in Levels, NEW q, NEW cl, NEW k \in Ways(c),
         \A w \in Ways(c) : Holds(q[w], cl) <=> w = k
  PROVE  WayOf(c, q, cl) = k
BY WayOfHolds

\* An injected line that was not in the set is at the slot the injection chose.
LEMMA InjectedWay ==
  ASSUME NEW c \in Levels, NEW q \in [Ways(c) -> Entry], NEW idx \in ReplaceIdx(c),
         NEW e \in Entry, ~e.invalid, WayOf(c, q, e.cl_id) = -1
  PROVE  WayOf(c, Injected(c, q, idx, e), e.cl_id) = idx
<1> DEFINE r == Injected(c, q, idx, e)
<1>1. idx \in Ways(c) /\ 0 \in Ways(c)
  BY ReplaceIdxType, GeometryType
<1>2. \A w \in Ways(c) : ~Holds(q[w], e.cl_id)
  BY WayOfHolds
<1>3. Holds(e, e.cl_id)
  BY DEF Holds
<1>4. CASE Queued(c)
  <2>1. idx = 0
    BY <1>4 DEF ReplaceIdx, Queued
  <2>2. \A w \in Ways(c) : r[w] = IF w = 0 THEN e
                                  ELSE IF w <= Cache[c].ways - 1 THEN q[w - 1] ELSE q[w]
    BY <1>4 DEF Injected, PushFront, Queued
  <2>3. \A w \in Ways(c) : w # 0 => w - 1 \in Ways(c)
    BY CacheType DEF Ways
  <2> HIDE DEF r
  <2>4. \A w \in Ways(c) : Holds(r[w], e.cl_id) <=> w = 0
    BY <1>1, <1>2, <1>3, <2>2, <2>3
  <2>5. WayOf(c, r, e.cl_id) = 0
    BY <1>1, <2>4, OnlyWay
  <2> QED BY <2>1, <2>5 DEF r
<1>5. CASE ~Queued(c)
  <2>1. r = [q EXCEPT ![idx] = e]
    BY <1>5 DEF Injected, Queued
  <2>2. \A w \in Ways(c) : r[w] = IF w = idx THEN e ELSE q[w]
    BY <2>1
  <2> HIDE DEF r
  <2>3. \A w \in Ways(c) : Holds(r[w], e.cl_id) <=> w = idx
    BY <1>2, <1>3, <2>2
  <2>4. WayOf(c, r, e.cl_id) = idx
    BY <1>1, <2>3, OnlyWay
  <2> QED BY <2>4 DEF r
<1> QED BY <1>4, <1>5

\* The bytes of one line lie in that line.
LEMMA LineEnd ==
  ASSUME NEW c \in Levels, NEW cl \in Nat
  PROVE  LastCl(c, LineRange(c, cl)) = cl /\ ClId(c, LineRange(c, cl).addr) = cl
<1> DEFINE n == Cache[c].cl_size
<1>1. n \in Nat \ {0}
  BY CacheType
<1>2. \A a \in Nat, k \in Nat, d \in Nat \ {0} : k < d => (a * d + k) \div d = a
  OBVIOUS
<1>3. \A k \in Nat : k < n => (cl * n + k) \div n = cl
  BY <1>1, <1>2
<1> DEFINE m == cl * n
<1>4. m \in Nat
  BY <1>1, TimesIsNat
<1>5. \A k \in Nat : k < n => (m + k) \div n = cl
  BY <1>3
<1>6. LineRange(c, cl) = [addr |-> m, length |-> n]
  BY DEF LineRange
<1> HIDE DEF m
<1>7. n - 1 \in Nat /\ n - 1 < n /\ m + n - 1 = m + (n - 1) /\ m = m + 0
  BY <1>1, <1>4
<1>8. (m + n - 1) \div n = cl /\ m \div n = cl
  BY <1>1, <1>5, <1>7
<1> QED BY <1>6, <1>8 DEF LastCl, ClId

\* Links lead to caches further down.
LEMMA LinksLeadDown ==
  ASSUME NEW c \in Levels,
         NEW l \in {Cache[c].load_from, Cache[c].store_to, Cache[c].victims_to}, l # None
  PROVE  l \in Levels /\ c < l
<1>1. NumLevels \in Nat /\ c \in 1..NumLevels
  BY HierarchyAssumption DEF Levels
<1>2. l \in c + 1 .. NumLevels
  BY HierarchyAssumption
<1> QED BY <1>1, <1>2 DEF Levels

(* Stacks. *)

LEMMA CallersPrefix ==
  ASSUME stack \in Seq(Frame), stack # <<>>
  PROVE  /\ Callers \in Seq(Frame) /\ Len(Callers) = Len(stack) - 1
         /\ \A i \in 1..Len(stack) - 1 : Callers[i] = stack[i]
<1>0. stack \in Seq(Frame)
  OBVIOUS
<1>1. Len(stack) \in Nat /\ Len(stack) > 0
  BY <1>0
<1>2. 1 \in Int /\ Len(stack) - 1 \in Int /\ \A i \in 1..Len(stack) - 1 : stack[i] \in Frame
  BY <1>0, <1>1
<1> DEFINE n == Len(stack) - 1
<1>3. /\ SubSeq(stack, 1, n) \in Seq(Frame)
      /\ Len(SubSeq(stack, 1, n)) = IF 1 <= n THEN n - 1 + 1 ELSE 0
      /\ \A i \in 1..n - 1 + 1 : SubSeq(stack, 1, n)[i] = stack[1 + i - 1]
  <2> HIDE DEF n
  <2> QED BY <1>2, SubSeqProperties DEF n
<1>4. Callers = SubSeq(stack, 1, n)
  BY DEF Callers
<1>5. n \in Nat
  BY <1>1
<1> HIDE DEF n
<1>6. Len(Callers) = n
  BY <1>3, <1>4, <1>5
<1>7. ASSUME NEW i \in 1..n PROVE Callers[i] = stack[i]
  <2>1. i \in 1..n - 1 + 1 /\ 1 + i - 1 = i
    BY <1>5
  <2> QED BY <1>3, <1>4, <2>1
<1> QED BY <1>3, <1>4, <1>6, <1>7 DEF n

LEMMA Split ==
  ASSUME TypeOK, stack # <<>>
  PROVE  /\ Len(stack) \in Nat \ {0} /\ stack \in Seq(Frame)
         /\ Callers \in Seq(Frame) /\ Len(Callers) = Len(stack) - 1
         /\ \A i \in 1..Len(stack) - 1 : Callers[i] = stack[i]
         /\ Top = stack[Len(stack)] /\ Top \in Frame
<1>1. stack \in Seq(Frame)
  BY DEF TypeOK, FramesOK
<1>2. Len(stack) \in Nat \ {0} /\ stack[Len(stack)] \in Frame
  BY <1>1
<1> QED BY <1>1, <1>2, CallersPrefix DEF Top

LEMMA Pushed ==
  ASSUME NEW st \in Seq(Frame), NEW f \in Frame
  PROVE  /\ Append(st, f) \in Seq(Frame) /\ Len(Append(st, f)) = Len(st) + 1
         /\ \A i \in 1..Len(st) : Append(st, f)[i] = st[i]
         /\ Append(st, f)[Len(st) + 1] = f
  OBVIOUS

\* Frames with one on top of them are sound if these were and it rests on them.
LEMMA PushSound ==
  ASSUME NEW p, NEW st \in Seq(Frame), NEW f \in Frame, Sound(p, st),
         \A i \in 1..Len(st) : Above(st[i], f),
         Settled(p, f),
         \A i \in 1..Len(st) : i = Len(st) /\ st[i].fn = "write" /\ f.fn \in Loading
                               => Allocates(p, st[i], f)
  PROVE  Sound(p, Append(st, f))
<1> DEFINE r == Append(st, f)
           n == Len(st)
<1>1. n \in Nat /\ Len(r) = n + 1 /\ (\A i \in 1..n : r[i] = st[i]) /\ r[n + 1] = f
  BY Pushed
<1> HIDE DEF r, n
<1>2. /\ \A i, j \in 1..n : i < j => Above(st[i], st[j])
      /\ \A i \in 1..n : Relies(p, st, i)
      /\ \A i \in 1..n : Above(st[i], f)
  BY DEF Sound, Nested, n
<1>3. Nested(r)
  <2> SUFFICES ASSUME NEW i \in 1..n + 1, NEW j \in 1..n + 1, i < j
               PROVE  Above(r[i], r[j])
    BY <1>1 DEF Nested
  <2>1. i \in 1..n
    BY <1>1
  <2> QED BY <1>1, <1>2, <2>1
<1>4. ASSUME NEW i \in 1..n + 1 PROVE Relies(p, r, i)
  <2>1. CASE i = n + 1
    <3>1. ~WaitsForLoad(r, i)
      BY <1>1, <2>1 DEF WaitsForLoad
    <3> QED BY <1>1, <2>1, <3>1 DEF Relies
  <2>2. CASE i \in 1..n - 1
    <3>1. r[i] = st[i] /\ r[i + 1] = st[i + 1] /\ i \in 1..n /\ i + 1 \in 1..n /\ i + 1 \in 1..n + 1
      BY <1>1, <2>2
    <3> QED BY <1>1, <1>2, <3>1 DEF Relies, WaitsForLoad, n
  <2>3. CASE i = n
    <3>1. r[i] = st[i] /\ i \in 1..n
      BY <1>1, <2>3
    <3>2. ~WaitsForLoad(st, i)
      BY <1>1, <2>3 DEF WaitsForLoad, n
    <3>3. CASE WaitsForLoad(r, i)
      <4>1. st[i].fn = "write" /\ f.fn \in Loading /\ r[i + 1] = f
        BY <1>1, <2>3, <3>1, <3>3 DEF WaitsForLoad
      <4>2. Allocates(p, st[i], f)
        BY <2>3, <3>1, <4>1 DEF n
      <4> QED BY <3>1, <3>3, <4>1, <4>2 DEF Relies
    <3>4. CASE ~WaitsForLoad(r, i)
      BY <1>2, <3>1, <3>2, <3>4 DEF Relies
    <3> QED BY <3>3, <3>4
  <2> QED BY <1>1, <2>1, <2>2, <2>3
<1>5. \A i \in 1..Len(r) : Relies(p, r, i)
  BY <1>1, <1>4
<1>6. Sound(p, r)
  BY <1>3, <1>5 DEF Sound
<1> QED BY <1>6 DEF r

\* A load in the cache of a write frame is the one this frame waits for.
LEMMA LoadIsNext ==
  ASSUME NEW st \in Seq(Frame), Nested(st), NEW i \in 1..Len(st), NEW j \in 1..Len(st),
         i < j, st[i].c = st[j].c, st[j].fn \in Loading
  PROVE  st[i].fn = "write" /\ j = i + 1
<1>0. Len(st) \in Nat /\ \A k \in 1..Len(st) : st[k].c \in Nat
  <2>1. \A f \in Frame : f.c \in Nat
    BY CacheType DEF Frame
  <2> QED BY <2>1
<1>1. st[i].fn = "write"
  <2>1. Above(st[i], st[j])
    BY DEF Nested
  <2> QED BY <1>0, <2>1 DEF Above, Loading
<1>2. CASE j # i + 1
  <2> DEFINE k == i + 1
  <2>1. k \in 1..Len(st) /\ i < k /\ k < j
    BY <1>0, <1>2
  <2> HIDE DEF k
  <2>2. Above(st[i], st[k]) /\ Above(st[k], st[j])
    BY <2>1 DEF Nested
  <2>3. st[k].c = st[j].c
    BY <1>0, <2>1, <2>2 DEF Above
  <2>4. st[k].fn = "write"
    BY <1>0, <2>1, <2>2, <2>3 DEF Above, Loading
  <2>5. st[k].fn \in {"credit", "load", "fill"}
    BY <1>0, <2>1, <2>2, <2>3 DEF Above, Loading
  <2> QED BY <2>4, <2>5
<1> QED BY <1>1, <1>2

\* A step that changes the cache of the running frame only disturbs no frame
\* below it, but for the store that waits for the load that is running.
LEMMA BelowRely ==
  ASSUME TypeOK, StackInv, stack # <<>>, NEW p,
         \A d \in Levels : d # Top.c \/ Top.fn = "credit" => p[d] = placement[d],
         NEW i \in 1..Len(stack) - 1
  PROVE  /\ i + 1 < Len(stack) /\ WaitsForLoad(stack, i) => Allocates(p, stack[i], stack[i + 1])
         /\ ~WaitsForLoad(stack, i) => Settled(p, stack[i])
<1> DEFINE n == Len(stack)
           f == stack[i]
<1>1. n \in Nat \ {0} /\ i \in 1..n /\ n \in 1..n /\ i < n /\ stack \in Seq(Frame) /\ Top = stack[n]
  BY Split
<1>2. f.c \in Levels /\ f.c \in Nat /\ Top.c \in Nat
  <2>1. f \in Frame /\ Top \in Frame
    BY <1>1
  <2>2. f.c \in Levels /\ Top.c \in Levels
    BY <2>1 DEF Frame
  <2> QED BY <2>2, CacheType
<1>3. Above(f, Top) /\ Relies(placement, stack, i)
  BY <1>1 DEF StackInv, Sound, Nested
<1>4. CASE p[f.c] = placement[f.c]
  <2>1. Where(p, f.c, f.cl) = Where(placement, f.c, f.cl)
    BY <1>4 DEF Where
  <2> QED BY <1>3, <2>1 DEF Relies, Allocates, Settled
<1>5. CASE p[f.c] # placement[f.c]
  <2>1. f.c = Top.c /\ Top.fn # "credit"
    BY <1>2, <1>5
  <2>2. Top.fn \in Loading
    BY <1>2, <1>3, <2>1 DEF Above
  <2>3. f.fn = "write" /\ n = i + 1
    BY <1>1, <2>1, <2>2, LoadIsNext DEF StackInv, Sound
  <2>4. WaitsForLoad(stack, i)
    BY <1>1, <2>2, <2>3 DEF WaitsForLoad
  <2> QED BY <1>1, <2>3, <2>4
<1> QED BY <1>4, <1>5

\* Frames on which an access to a cache below c, or the rest of an injection
\* into c, may be put.
UpTo(st, c)    == \A i \in 1..Len(st) : st[i].c <= c
Injects(st, c) == \A i \in 1..Len(st) :
                    st[i].c < c \/ (st[i].c = c /\ st[i].fn \in {"load", "write"})

LEMMA FrameLevel ==
  ASSUME NEW f \in Frame PROVE f.c \in Levels /\ f.c \in Nat /\ f.fn \in Functions_
<1>1. f.c \in Levels /\ f.fn \in Functions_
  BY DEF Frame
<1> QED BY <1>1, CacheType

\* The running frame ends.
LEMMA CallersSound ==
  ASSUME TypeOK, StackInv, stack # <<>>, NEW p,
         \A d \in Levels : d # Top.c \/ Top.fn = "credit" => p[d] = placement[d],
         \A i \in 1..Len(stack) - 1 : i + 1 = Len(stack) => ~WaitsForLoad(stack, i)
  PROVE  Sound(p, Callers) /\ (Top.fn # "credit" => Injects(Callers, Top.c))
<1> DEFINE n == Len(stack)
           r == Callers
<1>1. /\ n \in Nat \ {0} /\ stack \in Seq(Frame) /\ r \in Seq(Frame) /\ Len(r) = n - 1
      /\ \A i \in 1..n - 1 : r[i] = stack[i]
      /\ Top = stack[n] /\ Top \in Frame
  BY Split
<1>2. \A i, j \in 1..n : i < j => Above(stack[i], stack[j])
  BY DEF StackInv, Sound, Nested
<1>3. \A i \in 1..n - 1 :
        /\ i + 1 < n /\ WaitsForLoad(stack, i) => Allocates(p, stack[i], stack[i + 1])
        /\ ~WaitsForLoad(stack, i) => Settled(p, stack[i])
  BY BelowRely
<1>4. \A i \in 1..n - 1 : i + 1 = n => ~WaitsForLoad(stack, i)
  OBVIOUS
<1>5. \A i \in 1..n - 1 : WaitsForLoad(r, i) <=> i + 1 < n /\ WaitsForLoad(stack, i)
  <2> HIDE DEF n, r
  <2> SUFFICES ASSUME NEW i \in 1..n - 1
               PROVE  WaitsForLoad(r, i) <=> i + 1 < n /\ WaitsForLoad(stack, i)
    OBVIOUS
  <2>1. CASE i + 1 < n
    <3>1. i + 1 \in 1..n - 1 /\ i + 1 \in 1..n /\ r[i] = stack[i] /\ r[i + 1] = stack[i + 1]
      BY <1>1, <2>1
    <3> QED BY <1>1, <2>1, <3>1 DEF WaitsForLoad, n
  <2>2. CASE ~(i + 1 < n)
    <3>1. i + 1 \notin 1..n - 1
      BY <1>1, <2>2
    <3> QED BY <1>1, <2>2, <3>1 DEF WaitsForLoad
  <2> QED BY <2>1, <2>2
<1> HIDE DEF n, r
<1>6. Nested(r)
  <2> SUFFICES ASSUME NEW i \in 1..n - 1, NEW j \in 1..n - 1, i < j
               PROVE  Above(r[i], r[j])
    BY <1>1 DEF Nested
  <2>1. i \in 1..n /\ j \in 1..n
    BY <1>1
  <2> QED BY <1>1, <1>2, <2>1
<1>7. ASSUME NEW i \in 1..n - 1 PROVE Relies(p, r, i)
  <2>1. CASE WaitsForLoad(r, i)
    <3>1. i + 1 \in 1..n - 1
      BY <1>1, <1>5, <2>1
    <3> QED BY <1>1, <1>3, <1>5, <2>1, <3>1 DEF Relies
  <2>2. CASE ~WaitsForLoad(r, i)
    <3>1. ~WaitsForLoad(stack, i)
      <4>1. i + 1 < n \/ i + 1 = n
        BY <1>1
      <4> QED BY <1>4, <1>5, <2>2, <4>1
    <3> QED BY <1>1, <1>3, <2>2, <3>1 DEF Relies
  <2> QED BY <2>1, <2>2
<1>8. Sound(p, r)
  BY <1>1, <1>6, <1>7 DEF Sound
<1>9. ASSUME Top.fn # "credit", NEW i \in 1..n - 1
      PROVE  r[i].c < Top.c \/ (r[i].c = Top.c /\ r[i].fn \in {"load", "write"})
  <2>1. i \in 1..n /\ n \in 1..n /\ i < n
    BY <1>1
  <2>2. Above(stack[i], Top)
    BY <1>1, <1>2, <2>1
  <2> QED BY <1>1, <1>9, <2>2 DEF Above
<1>10. Top.fn # "credit" => Injects(r, Top.c)
  BY <1>1, <1>9 DEF Injects
<1> QED BY <1>8, <1>10 DEF r

\* The running frame goes on as frame g.
LEMMA ContinueSound ==
  ASSUME TypeOK, StackInv, stack # <<>>, NEW p,
         \A d \in Levels : d # Top.c => p[d] = placement[d],
         Top.fn # "credit",
         NEW g \in Frame, g.c = Top.c, Settled(p, g),
         g.fn \in Loading <=> Top.fn \in Loading,
         \A i \in 1..Len(stack) - 1 :
           i + 1 = Len(stack) /\ WaitsForLoad(stack, i) => Allocates(p, stack[i], g)
  PROVE  /\ Sound(p, Continue(g)) /\ Continue(g) \in Seq(Frame)
         /\ UpTo(Continue(g), Top.c)
         /\ g.fn \in {"load", "write"} => Injects(Continue(g), Top.c)
         /\ \A i \in 1..Len(Continue(g)) : i = Len(Continue(g)) => Continue(g)[i] = g
<1> DEFINE n == Len(stack)
           r == Continue(g)
<1>1. /\ n \in Nat \ {0} /\ stack \in Seq(Frame) /\ Top = stack[n] /\ Top \in Frame
      /\ Callers \in Seq(Frame) /\ Len(Callers) = n - 1
      /\ \A i \in 1..n - 1 : Callers[i] = stack[i]
  BY Split
<1>2. /\ r \in Seq(Frame) /\ Len(r) = n /\ r[n] = g
      /\ \A i \in 1..n - 1 : r[i] = stack[i]
  <2> HIDE DEF n
  <2>1. r = Append(Callers, g)
    BY DEF Continue
  <2> HIDE DEF r
  <2> QED BY <1>1, <2>1, Pushed
<1>3. \A i, j \in 1..n : i < j => Above(stack[i], stack[j])
  BY DEF StackInv, Sound, Nested
<1>4. \A i \in 1..n - 1 :
        /\ i + 1 < n /\ WaitsForLoad(stack, i) => Allocates(p, stack[i], stack[i + 1])
        /\ ~WaitsForLoad(stack, i) => Settled(p, stack[i])
  BY BelowRely
<1>5. \A i \in 1..n - 1 : i + 1 = n /\ WaitsForLoad(stack, i) => Allocates(p, stack[i], g)
  OBVIOUS
<1>6. \A i \in 1..n - 1 : WaitsForLoad(r, i) <=> WaitsForLoad(stack, i)
  <2> HIDE DEF n, r
  <2> SUFFICES ASSUME NEW i \in 1..n - 1
               PROVE  WaitsForLoad(r, i) <=> WaitsForLoad(stack, i)
    OBVIOUS
  <2>1. i + 1 \in 1..n /\ r[i] = stack[i] /\ (r[i + 1].fn \in Loading <=> stack[i + 1].fn \in Loading)
    <3>1. CASE i + 1 = n
      BY <1>1, <1>2, <3>1
    <3>2. CASE i + 1 # n
      <4>1. i + 1 \in 1..n - 1 /\ i + 1 \in 1..n
        BY <1>1, <3>2
      <4> QED BY <1>2, <4>1
    <3> QED BY <3>1, <3>2
  <2> QED BY <1>2, <2>1 DEF WaitsForLoad, n
<1> HIDE DEF n, r
<1>7. ASSUME NEW i \in 1..n - 1
      PROVE  Above(stack[i], g) /\ (r[i].c < Top.c \/ (r[i].c = Top.c /\ r[i].fn = "write"))
  <2>1. i \in 1..n /\ n \in 1..n /\ i < n
    BY <1>1
  <2>2. Above(stack[i], Top)
    BY <1>1, <1>3, <2>1
  <2>3. Top.fn # "credit" /\ (g.fn \in Loading <=> Top.fn \in Loading) /\ g.c = Top.c
    OBVIOUS
  <2>4. stack[i].c < Top.c \/ (stack[i].c = Top.c /\ stack[i].fn = "write" /\ Top.fn \in Loading)
    BY <2>2, <2>3 DEF Above
  <2>5. Above(stack[i], g)
    BY <2>3, <2>4 DEF Above
  <2> QED BY <1>2, <2>4, <2>5
<1>8. Nested(r)
  <2> SUFFICES ASSUME NEW i \in 1..n, NEW j \in 1..n, i < j
               PROVE  Above(r[i], r[j])
    BY <1>2 DEF Nested
  <2>1. i \in 1..n - 1
    BY <1>1
  <2>2. CASE j = n
    BY <1>2, <1>7, <2>1, <2>2
  <2>3. CASE j # n
    <3>1. j \in 1..n - 1
      BY <1>1, <2>3
    <3> QED BY <1>2, <1>3, <2>1, <3>1
  <2> QED BY <2>2, <2>3
<1>9. ASSUME NEW i \in 1..n PROVE Relies(p, r, i)
  <2>1. CASE i = n
    <3>1. ~WaitsForLoad(r, i)
      BY <1>1, <1>2, <2>1 DEF WaitsForLoad
    <3> QED BY <1>2, <2>1, <3>1 DEF Relies
  <2>2. CASE i # n
    <3>1. i \in 1..n - 1 /\ (i + 1 = n \/ i + 1 \in 1..n - 1)
      BY <1>1, <2>2
    <3>2. CASE ~WaitsForLoad(r, i)
      BY <1>2, <1>4, <1>6, <3>1, <3>2 DEF Relies
    <3>3. CASE WaitsForLoad(r, i) /\ i + 1 = n
      BY <1>2, <1>5, <1>6, <3>1, <3>3 DEF Relies
    <3>4. CASE WaitsForLoad(r, i) /\ i + 1 \in 1..n - 1
      <4>1. i + 1 < n
        BY <1>1, <3>4
      <4> QED BY <1>2, <1>4, <1>6, <3>1, <3>4, <4>1 DEF Relies
    <3> QED BY <3>1, <3>2, <3>3, <3>4
  <2> QED BY <2>1, <2>2
<1>10. Sound(p, r)
  BY <1>2, <1>8, <1>9 DEF Sound
<1>11. \A i \in 1..n : i = n \/ i \in 1..n - 1
  BY <1>1
<1>12. Top.c \in Nat /\ \A i \in 1..n : r[i].c \in Nat
  BY <1>1, <1>2, FrameLevel
<1>13. UpTo(r, Top.c) /\ (g.fn \in {"load", "write"} => Injects(r, Top.c))
  BY <1>2, <1>7, <1>11, <1>12 DEF UpTo, Injects
<1> QED BY <1>2, <1>10, <1>13 DEF r

(* The operators the actions share. *)

\* A load or a store of a cache further down may be put on any frames.
LEMMA CallSound ==
  ASSUME NEW p, NEW c \in Levels, NEW st \in Seq(Frame), Sound(p, st), UpTo(st, c),
         NEW f \in Frame, c < f.c, f.fn \in {"load", "store"}, f.fn = "store" => f.loc = -1,
         f.fn = "load" => \A i \in 1..Len(st) : i = Len(st) => st[i].fn # "write"
  PROVE  Sound(p, Append(st, f))
<1>1. c \in Nat /\ f.c \in Nat /\ \A i \in 1..Len(st) : st[i] \in Frame
  BY CacheType, FrameLevel
<1>2. ASSUME NEW i \in 1..Len(st) PROVE Above(st[i], f)
  <2>1. st[i].c \in Nat /\ st[i].c <= c
    BY <1>1, FrameLevel DEF UpTo
  <2> QED BY <1>1, <2>1 DEF Above
<1>3. Settled(p, f)
  BY DEF Settled
<1>4. f.fn \notin Loading \/ f.fn = "load"
  BY DEF Loading
<1> QED BY <1>2, <1>3, <1>4, PushSound DEF Loading

LEMMA PassDownSound ==
  ASSUME NEW p, NEW c \in Levels, NEW range \in AddrRange, NEW nt \in BOOLEAN, NEW st,
         NEW callers \in Seq(Frame), Sound(p, callers), UpTo(callers, c),
         PassDown(c, range, nt, st, callers)
  PROVE  Sound(p, stack')
<1> DEFINE below == Cache[c].store_to
           f     == StoreCall(below, range, nt)
<1>1. CASE below = None
  BY <1>1 DEF PassDown
<1>2. CASE below # None
  <2>1. below \in Levels /\ c < below
    BY <1>2, LinksLeadDown
  <2>2. f \in Frame
    BY <2>1, CallFrames
  <2>3. f.fn = "store" /\ f.loc = -1 /\ f.c = below
    BY DEF StoreCall
  <2>4. stack' = Append(callers, f)
    BY <1>2 DEF PassDown
  <2> HIDE DEF f, below
  <2> QED BY <2>1, <2>2, <2>3, <2>4, CallSound
<1> QED BY <1>1, <1>2

LEMMA FetchSound ==
  ASSUME NEW p, NEW c \in Levels, NEW source \in {Cache[c].load_from, Cache[c].victims_to},
         NEW range \in AddrRange, NEW st,
         NEW callers \in Seq(Frame), Sound(p, callers), UpTo(callers, c),
         \A i \in 1..Len(callers) : i = Len(callers) => callers[i].fn = "fill",
         Fetch(source, range, st, callers)
  PROVE  Sound(p, stack')
<1> DEFINE f == LoadCall(source, range)
<1>1. CASE source = None
  BY <1>1 DEF Fetch
<1>2. CASE source # None
  <2>1. source \in Levels /\ c < source
    BY <1>2, LinksLeadDown
  <2>2. f \in Frame
    BY <2>1, CallFrames
  <2>3. f.fn = "load" /\ f.c = source
    BY DEF LoadCall
  <2>4. stack' = Append(callers, f)
    BY <1>2 DEF Fetch
  <2> HIDE DEF f
  <2> QED BY <2>1, <2>2, <2>3, <2>4, CallSound
<1> QED BY <1>1, <1>2

LEMMA InjectSound ==
  ASSUME TypeOK, NEW c \in Levels, NEW e \in Entry, NEW idx \in ReplaceIdx(c),
         NEW callers \in Seq(Frame), Sound(placement', callers), Injects(callers, c),
         Inject(c, e, idx, callers)
  PROVE  Sound(placement', stack')
<1> DEFINE s   == SetId(c, e.cl_id)
           q   == placement[c][s]
           old == ReplaceEntry(c, q, idx)
           below == Cache[c].victims_to
<1>1. c \in Nat /\ \A i \in 1..Len(callers) : callers[i].c \in Nat
  BY CacheType, FrameLevel
<1>2. UpTo(callers, c)
  BY <1>1 DEF UpTo, Injects
<1>3. e.cl_id \in Nat /\ s \in Sets(c) /\ idx \in Ways(c)
  BY GeometryType, ReplaceIdxType DEF Entry
<1>4. old \in Entry
  <2>1. q \in [Ways(c) -> Entry]
    BY <1>3 DEF TypeOK, PlacementOK
  <2> HIDE DEF q
  <2> QED BY <1>3, <2>1, ReplaceEntryType
<1>5. \/ \E nt \in BOOLEAN : PassDown(c, LineRange(c, old.cl_id), nt,
                               Bump(stats, c, "EVICT", Cache[c].cl_size), callers)
      \/ /\ below # None
         /\ stack' = Append(Append(callers, CreditFrame(c)), InjectCall(below, old))
      \/ stack' = callers
  <2>1. \A slot, after : NonTemporalEvict(c, slot, after) \in BOOLEAN
    BY CacheType DEF Configuration, NonTemporalEvict
  <2> QED BY <2>1 DEF Inject
<1> HIDE DEF old, s, q
<1>6. CASE \E nt \in BOOLEAN : PassDown(c, LineRange(c, old.cl_id), nt,
                                 Bump(stats, c, "EVICT", Cache[c].cl_size), callers)
  <2>1. LineRange(c, old.cl_id) \in AddrRange
    BY <1>4, GeometryType DEF Entry
  <2> QED BY <1>2, <1>6, <2>1, PassDownSound
<1>7. CASE below # None /\ stack' = Append(Append(callers, CreditFrame(c)), InjectCall(below, old))
  <2> DEFINE f  == CreditFrame(c)
             g  == InjectCall(below, old)
             st == Append(callers, f)
  <2>1. f \in Frame /\ g \in Frame
    BY <1>4, <1>7, VictimFrames
  <2>2. f.fn = "credit" /\ f.c = c /\ g.fn = "inject" /\ g.c = below
    BY DEF CreditFrame, InjectCall
  <2>3. below \in Levels /\ below \in Nat /\ c < below /\ below \in VictimCaches
    BY <1>7, LinksLeadDown, CacheType DEF VictimCaches
  <2> HIDE DEF f, g, below
  <2>4. st \in Seq(Frame) /\ Len(st) = Len(callers) + 1
          /\ (\A i \in 1..Len(callers) : st[i] = callers[i]) /\ st[Len(callers) + 1] = f
    BY <2>1, Pushed
  <2>5. Sound(placement', st)
    <3>1. \A i \in 1..Len(callers) : Above(callers[i], f)
      BY <2>2 DEF Injects, Above
    <3>2. Settled(placement', f) /\ f.fn \notin Loading
      BY <2>2 DEF Settled, Loading
    <3> QED BY <2>1, <3>1, <3>2, PushSound
  <2> HIDE DEF st
  <2>6. \A i \in 1..Len(st) : Above(st[i], g)
    <3>1. \A i \in 1..Len(callers) : callers[i].c <= c
      BY <1>2 DEF UpTo
    <3>2. \A i \in 1..Len(st) : st[i].c \in Nat /\ st[i].c <= c
      <4> SUFFICES ASSUME NEW i \in 1..Len(st) PROVE st[i].c \in Nat /\ st[i].c <= c
        OBVIOUS
      <4>1. i = Len(callers) + 1 \/ i \in 1..Len(callers)
        BY <2>4
      <4> QED BY <1>1, <2>2, <2>4, <3>1, <4>1
    <3> QED BY <1>1, <2>2, <2>3, <3>2 DEF Above
  <2>7. Settled(placement', g) /\ g.fn \notin Loading
    BY <2>2, <2>3 DEF Settled, Loading
  <2>8. Sound(placement', Append(st, g))
    BY <2>1, <2>4, <2>5, <2>6, <2>7, PushSound
  <2> QED BY <1>7, <2>8 DEF st, f, g
<1>8. CASE stack' = callers
  BY <1>8
<1> QED BY <1>5, <1>6, <1>7, <1>8

(* The steps, one by one. *)

\* How a frame may go on.
LEMMA FrameSteps ==
  ASSUME NEW f \in Frame, NEW w \in Nat \cup {-1}
  PROVE  /\ [f EXCEPT !.cl = @ + 1, !.loc = w] \in Frame
         /\ [f EXCEPT !.fn = "fill"] \in Frame
         /\ [f EXCEPT !.fn = "load", !.cl = @ + 1, !.loc = w] \in Frame
         /\ [f EXCEPT !.fn = "write"] \in Frame
         /\ [f EXCEPT !.fn = "write", !.loc = w] \in Frame
         /\ [f EXCEPT !.fn = "store", !.cl = @ + 1, !.loc = w] \in Frame
         /\ [f EXCEPT !.fn = "clean"] \in Frame
         /\ [f EXCEPT !.loc = w] \in Frame
<1>1. f.cl + 1 \in Nat /\ w \in Nat \cup {-1}
  BY DEF Frame
<1>2. \A fn \in {"load", "fill", "store", "write", "clean"} : fn \in Functions_
  BY DEF Functions_
<1>3. [f EXCEPT !.cl = @ + 1, !.loc = w] \in Frame
  BY <1>1, Zenon DEF Frame
<1>4. [f EXCEPT !.fn = "load", !.cl = @ + 1, !.loc = w] \in Frame
  BY <1>1, <1>2, Zenon DEF Frame
<1>5. [f EXCEPT !.fn = "store", !.cl = @ + 1, !.loc = w] \in Frame
  BY <1>1, <1>2, Zenon DEF Frame
<1>6. [f EXCEPT !.fn = "write", !.loc = w] \in Frame
  BY <1>1, <1>2, Zenon DEF Frame
<1>7. /\ [f EXCEPT !.fn = "fill"] \in Frame
      /\ [f EXCEPT !.fn = "write"] \in Frame
      /\ [f EXCEPT !.fn = "clean"] \in Frame
  BY <1>2, Zenon DEF Frame
<1>8. [f EXCEPT !.loc = w] \in Frame
  BY <1>1, Zenon DEF Frame
<1> QED BY <1>3, <1>4, <1>5, <1>6, <1>7, <1>8

LEMMA FrameFields ==
  ASSUME NEW f \in Frame, NEW w
  PROVE  /\ LET g == [f EXCEPT !.cl = @ + 1, !.loc = w]
            IN  g.fn = f.fn /\ g.c = f.c /\ g.cl = f.cl + 1 /\ g.range = f.range /\ g.loc = w
         /\ LET g == [f EXCEPT !.fn = "fill"]
            IN  g.fn = "fill" /\ g.c = f.c /\ g.cl = f.cl /\ g.range = f.range
         /\ LET g == [f EXCEPT !.fn = "load", !.cl = @ + 1, !.loc = w]
            IN  g.fn = "load" /\ g.c = f.c /\ g.cl = f.cl + 1 /\ g.range = f.range /\ g.loc = w
         /\ LET g == [f EXCEPT !.fn = "write"]
            IN  g.fn = "write" /\ g.c = f.c /\ g.cl = f.cl /\ g.range = f.range /\ g.loc = f.loc
         /\ LET g == [f EXCEPT !.fn = "write", !.loc = w]
            IN  g.fn = "write" /\ g.c = f.c /\ g.cl = f.cl /\ g.range = f.range /\ g.loc = w
         /\ LET g == [f EXCEPT !.fn = "store", !.cl = @ + 1, !.loc = w]
            IN  g.fn = "store" /\ g.c = f.c /\ g.cl = f.cl + 1 /\ g.range = f.range /\ g.loc = w
         /\ LET g == [f EXCEPT !.fn = "clean"]
            IN  g.fn = "clean" /\ g.c = f.c
         /\ LET g == [f EXCEPT !.loc = w]
            IN  g.fn = f.fn /\ g.c = f.c /\ g.cl = f.cl /\ g.range = f.range /\ g.loc = w
  BY DEF Frame

\* A step that rewrites one set of the running frame's cache leaves the others.
LEMMA OtherCaches ==
  ASSUME PlacementOK, NEW c, NEW s, NEW q, placement' = [placement EXCEPT ![c][s] = q]
  PROVE  \A d \in Levels : d # c => placement'[d] = placement[d]
  BY DEF PlacementOK

LEMMA NewWhere ==
  ASSUME PlacementOK, NEW c \in Levels, NEW cl \in Nat, NEW q,
         placement' = [placement EXCEPT ![c][SetId(c, cl)] = q]
  PROVE  Where(placement', c, cl) = WayOf(c, q, cl)
<1>1. SetId(c, cl) \in Sets(c)
  BY GeometryType
<1>2. placement'[c][SetId(c, cl)] = q
  BY <1>1 DEF PlacementOK
<1> QED BY <1>2 DEF Where

\* The running load may be the one a write-allocate waits for.
LEMMA AwaitedLoad ==
  ASSUME TypeOK, StackInv, stack # <<>>, NEW i \in 1..Len(stack) - 1, i + 1 = Len(stack),
         WaitsForLoad(stack, i)
  PROVE  /\ stack[i].fn = "write" /\ stack[i] \in Frame
         /\ stack[i].c = Top.c /\ Top.range = LineRange(Top.c, stack[i].cl)
         /\ LastCl(Top.c, Top.range) = stack[i].cl
         /\ \/ Top.cl = stack[i].cl /\ Where(placement, Top.c, Top.cl) = -1
            \/ Top.fn = "load" /\ Top.cl = stack[i].cl + 1
                 /\ Top.loc = Where(placement, Top.c, stack[i].cl)
<1>1. Len(stack) \in Nat \ {0} /\ stack \in Seq(Frame) /\ Top = stack[Len(stack)] /\ i \in 1..Len(stack)
  BY Split
<1>2. Allocates(placement, stack[i], Top)
  BY <1>1 DEF StackInv, Sound, Relies
<1>3. stack[i] \in Frame /\ stack[i].c \in Levels /\ stack[i].cl \in Nat
  <2>1. stack[i] \in Frame
    BY <1>1
  <2> QED BY <2>1 DEF Frame
<1>4. LastCl(Top.c, Top.range) = stack[i].cl
  BY <1>2, <1>3, LineEnd DEF Allocates
<1> QED BY <1>2, <1>3, <1>4 DEF Allocates, WaitsForLoad

LEMMA TopSettled ==
  ASSUME TypeOK, StackInv, stack # <<>>
  PROVE  Settled(placement, Top)
<1>1. Len(stack) \in Nat \ {0} /\ Top = stack[Len(stack)]
  BY Split
<1>2. Relies(placement, stack, Len(stack)) /\ ~WaitsForLoad(stack, Len(stack))
  BY <1>1 DEF StackInv, Sound, WaitsForLoad
<1> QED BY <1>1, <1>2 DEF Relies

LEMMA LoadHitSound ==
  ASSUME TypeOK, StackInv, LoadHit
  PROVE  StackInv'
<1> DEFINE c   == Top.c
           loc == Location(c, Top.cl)
<1>1. /\ stack # <<>> /\ Top \in Frame /\ Top.fn = "load" /\ c \in Levels
      /\ Top.cl \in Nat /\ Top.range \in AddrRange
      /\ Top.cl <= LastCl(c, Top.range) /\ Where(placement, c, Top.cl) # -1
  BY TopType, LocationIsWhere DEF LoadHit
<1>2. \A d \in Levels : d # c => placement'[d] = placement[d]
  <2>1. \/ UNCHANGED placement
        \/ \E q : placement' = [placement EXCEPT ![c][TopSet] = q]
    BY DEF LoadHit
  <2>2. CASE UNCHANGED placement
    BY <2>2
  <2>3. CASE \E q : placement' = [placement EXCEPT ![c][TopSet] = q]
    <3>1. PICK q : placement' = [placement EXCEPT ![c][TopSet] = q]
      BY <2>3
    <3>2. PlacementOK
      BY DEF TypeOK
    <3> HIDE DEF c
    <3> QED BY <3>1, <3>2, OtherCaches
  <2> QED BY <2>1, <2>2, <2>3
<1>3. PICK w \in Nat : stack' = Continue([Top EXCEPT !.cl = @ + 1, !.loc = w])
  <2>1. 0 \in Nat /\ Cache[c].ways - 1 \in Nat
    BY <1>1, CacheType
  <2> QED BY <2>1 DEF LoadHit
<1> DEFINE g == [Top EXCEPT !.cl = @ + 1, !.loc = w]
<1>4. g \in Frame /\ g.c = c /\ g.fn = "load"
  <2>1. g \in Frame
    BY <1>1, FrameSteps
  <2>2. g.c = Top.c /\ g.fn = Top.fn
    BY <1>1, FrameFields
  <2> QED BY <1>1, <2>1, <2>2
<1>5. Settled(placement', g) /\ (g.fn \in Loading <=> Top.fn \in Loading) /\ Top.fn # "credit"
  BY <1>1, <1>4 DEF Settled, Loading
<1>6. ASSUME NEW i \in 1..Len(stack) - 1, i + 1 = Len(stack), WaitsForLoad(stack, i) PROVE FALSE
  <2>1. /\ LastCl(c, Top.range) = stack[i].cl
        /\ \/ Where(placement, c, Top.cl) = -1
           \/ Top.cl = stack[i].cl + 1
    BY <1>1, <1>6, AwaitedLoad
  <2>2. stack[i].cl \in Nat
    BY <1>1, <1>6, AwaitedLoad DEF Frame
  <2> QED BY <1>1, <2>1, <2>2
<1> HIDE DEF g, c
<1>7. Sound(placement', Continue(g))
  BY <1>1, <1>2, <1>4, <1>5, <1>6, ContinueSound DEF c
<1> QED BY <1>3, <1>7 DEF StackInv, g

LEMMA LoadMissSound ==
  ASSUME TypeOK, StackInv, LoadMiss
  PROVE  StackInv'
<1> DEFINE c == Top.c
           g == [Top EXCEPT !.fn = "fill"]
<1>1. /\ stack # <<>> /\ Top \in Frame /\ Top.fn = "load" /\ c \in Levels
      /\ Top.cl \in Nat /\ Top.range \in AddrRange
      /\ Top.cl <= LastCl(c, Top.range) /\ Where(placement, c, Top.cl) = -1
      /\ placement' = placement
  BY TopType, LocationIsWhere DEF LoadMiss
<1>2. PICK source \in {Cache[c].load_from, Cache[c].victims_to} : \E st :
        Fetch(source, LineRange(c, Top.cl), st, Continue(g))
  BY DEF LoadMiss
<1>3. g \in Frame /\ g.c = c /\ g.fn = "fill" /\ g.cl = Top.cl /\ g.range = Top.range
  BY <1>1, FrameSteps, FrameFields
<1>4. Settled(placement, g) /\ (g.fn \in Loading <=> Top.fn \in Loading) /\ Top.fn # "credit"
  BY <1>1, <1>3 DEF Settled, Loading
<1>5. ASSUME NEW i \in 1..Len(stack) - 1, i + 1 = Len(stack), WaitsForLoad(stack, i)
      PROVE  Allocates(placement, stack[i], g)
  <2>1. /\ LastCl(c, Top.range) = stack[i].cl /\ stack[i].c = c
        /\ Top.range = LineRange(c, stack[i].cl)
        /\ Top.cl = stack[i].cl \/ Top.cl = stack[i].cl + 1
    BY <1>1, <1>5, AwaitedLoad
  <2>2. stack[i].cl \in Nat
    BY <1>1, <1>5, AwaitedLoad DEF Frame
  <2>3. Top.cl = stack[i].cl
    BY <1>1, <2>1, <2>2
  <2> QED BY <1>1, <1>3, <2>1, <2>3 DEF Allocates
<1> HIDE DEF g, c
<1>6. /\ Sound(placement, Continue(g)) /\ Continue(g) \in Seq(Frame) /\ UpTo(Continue(g), c)
      /\ \A i \in 1..Len(Continue(g)) : i = Len(Continue(g)) => Continue(g)[i].fn = "fill"
  BY <1>1, <1>3, <1>4, <1>5, ContinueSound DEF c
<1>7. LineRange(c, Top.cl) \in AddrRange
  BY <1>1, GeometryType
<1>8. Sound(placement, stack')
  BY <1>1, <1>2, <1>6, <1>7, FetchSound
<1> QED BY <1>1, <1>8 DEF StackInv

LEMMA LoadFillSound ==
  ASSUME TypeOK, StackInv, LoadFill
  PROVE  StackInv'
<1> DEFINE c == Top.c
           e == [cl_id |-> Top.cl, dirty |-> FALSE, invalid |-> FALSE]
           q == placement[c][SetId(c, Top.cl)]
<1>1. /\ stack # <<>> /\ Top \in Frame /\ Top.fn = "fill" /\ c \in Levels /\ Top.cl \in Nat
  BY TopType DEF LoadFill
<1>2. Where(placement, c, Top.cl) = -1
  BY <1>1, TopSettled DEF Settled
<1>3. e \in Entry /\ ~e.invalid /\ e.cl_id = Top.cl
  BY <1>1 DEF Entry
<1>4. PICK idx \in ReplaceIdx(c) :
        Inject(c, e, idx, Continue([Top EXCEPT !.fn = "load", !.cl = @ + 1, !.loc = idx]))
  BY DEF LoadFill
<1> DEFINE g == [Top EXCEPT !.fn = "load", !.cl = @ + 1, !.loc = idx]
<1>5. placement' = [placement EXCEPT ![c][SetId(c, Top.cl)] = Injected(c, q, idx, e)]
  BY <1>3, <1>4 DEF Inject
<1>6. idx \in Nat
  BY <1>1, ReplaceIdxType, GeometryType
<1>7. /\ g \in Frame /\ g.c = c /\ g.fn = "load" /\ g.cl = Top.cl + 1
      /\ g.range = Top.range /\ g.loc = idx
  <2>1. g \in Frame
    BY <1>1, <1>6, FrameSteps
  <2> QED BY <1>1, <2>1, FrameFields
<1>8. q \in [Ways(c) -> Entry]
  BY <1>1, GeometryType DEF TypeOK, PlacementOK
<1>9. PlacementOK
  BY DEF TypeOK
<1> HIDE DEF e, c, q, g
<1>10. Where(placement', c, Top.cl) = idx
  <2>1. WayOf(c, q, Top.cl) = -1
    BY <1>2 DEF Where, q
  <2>2. WayOf(c, Injected(c, q, idx, e), Top.cl) = idx
    BY <1>1, <1>3, <1>8, <2>1, InjectedWay DEF c
  <2> QED BY <1>1, <1>5, <1>9, <2>2, NewWhere
<1>11. \A d \in Levels : d # c => placement'[d] = placement[d]
  BY <1>5, <1>9, OtherCaches
<1>12. Settled(placement', g) /\ (g.fn \in Loading <=> Top.fn \in Loading) /\ Top.fn # "credit"
  BY <1>1, <1>7 DEF Settled, Loading
<1>13. ASSUME NEW i \in 1..Len(stack) - 1, i + 1 = Len(stack), WaitsForLoad(stack, i)
       PROVE  Allocates(placement', stack[i], g)
  <2>1. /\ stack[i].c = c /\ Top.range = LineRange(c, stack[i].cl)
        /\ Top.cl = stack[i].cl
    BY <1>1, <1>13, AwaitedLoad DEF c
  <2> QED BY <1>7, <1>10, <2>1 DEF Allocates
<1>14. Sound(placement', Continue(g)) /\ Continue(g) \in Seq(Frame) /\ Injects(Continue(g), c)
  BY <1>1, <1>7, <1>11, <1>12, <1>13, ContinueSound DEF c
<1>15. Inject(c, e, idx, Continue(g))
  BY <1>4 DEF g
<1>16. Sound(placement', stack')
  BY <1>1, <1>3, <1>14, <1>15, InjectSound DEF c
<1> QED BY <1>16 DEF StackInv

LEMMA LoadReturnSound ==
  ASSUME TypeOK, StackInv, LoadReturn
  PROVE  StackInv'
<1> DEFINE n == Len(stack)
           m == n - 1
<1>1. /\ stack # <<>> /\ Top \in Frame /\ Top.fn = "load" /\ Top.c \in Levels /\ Top.cl \in Nat
      /\ Top.cl > LastCl(Top.c, Top.range) /\ Top.loc \in Nat \cup {-1}
      /\ placement' = placement
  BY TopType DEF LoadReturn
<1>2. /\ n \in Nat \ {0} /\ stack \in Seq(Frame) /\ Top = stack[n] /\ m \in Nat
      /\ Callers \in Seq(Frame) /\ Len(Callers) = m
      /\ \A i \in 1..m : Callers[i] = stack[i]
  BY <1>1, Split
<1>3. CASE ~(Callers # <<>> /\ Callers[Len(Callers)].fn = "write")
  <2>1. stack' = Callers
    BY <1>3 DEF LoadReturn, Returned
  <2>2. \A i \in 1..n - 1 : i + 1 = n => ~WaitsForLoad(stack, i)
    <3> SUFFICES ASSUME NEW i \in 1..n - 1, i + 1 = n PROVE ~WaitsForLoad(stack, i)
      OBVIOUS
    <3>1. i = m /\ m \in 1..m
      BY <1>2
    <3>2. Callers # <<>> /\ Callers[Len(Callers)] = stack[i]
      BY <1>2, <3>1
    <3> QED BY <1>3, <3>2 DEF WaitsForLoad
  <2>3. Sound(placement, Callers)
    BY <1>1, <2>2, CallersSound
  <2> QED BY <1>1, <2>1, <2>3 DEF StackInv
<1>4. CASE Callers # <<>> /\ Callers[Len(Callers)].fn = "write"
  <2> DEFINE f == stack[m]
             h == [f EXCEPT !.loc = Top.loc]
             r == [Callers EXCEPT ![m] = h]
  <2>1. m \in 1..m /\ m \in 1..n - 1 /\ m \in 1..n /\ m + 1 = n
    <3>1. m # 0
      BY <1>2, <1>4
    <3> QED BY <1>2, <3>1
  <2>2. f \in Frame /\ f.fn = "write" /\ Callers[m] = f
    BY <1>2, <1>4, <2>1
  <2>3. stack' = r
    BY <1>2, <1>4, <2>2 DEF LoadReturn, Returned
  <2>4. WaitsForLoad(stack, m)
    BY <1>1, <1>2, <2>1, <2>2 DEF WaitsForLoad, Loading
  <2>5. Top.loc = Where(placement, Top.c, f.cl) /\ f.c = Top.c
    <3>1. /\ LastCl(Top.c, Top.range) = f.cl /\ f.c = Top.c
          /\ \/ Top.cl = f.cl
             \/ Top.cl = f.cl + 1 /\ Top.loc = Where(placement, Top.c, f.cl)
      BY <1>1, <2>1, <2>4, AwaitedLoad
    <3>2. f.cl \in Nat
      BY <2>2 DEF Frame
    <3> QED BY <1>1, <3>1, <3>2
  <2>6. h.fn = f.fn /\ h.c = f.c /\ h.cl = f.cl /\ h.loc = Top.loc /\ h \in Frame
    <3>1. h \in Frame
      BY <1>1, <2>2, FrameSteps
    <3> QED BY <2>2, <3>1, FrameFields
  <2>7. \A i, j \in 1..n : i < j => Above(stack[i], stack[j])
    BY DEF StackInv, Sound, Nested
  <2>8. \A i \in 1..n - 1 :
          /\ i + 1 < n /\ WaitsForLoad(stack, i) => Allocates(placement, stack[i], stack[i + 1])
          /\ ~WaitsForLoad(stack, i) => Settled(placement, stack[i])
    BY <1>1, BelowRely
  <2> HIDE DEF h, f
  <2>9. r \in Seq(Frame) /\ Len(r) = m /\ r[m] = h /\ \A i \in 1..m : i # m => r[i] = stack[i]
    BY <1>2, <2>1, <2>6
  <2>10. \A i \in 1..m : r[i].fn = stack[i].fn /\ r[i].c = stack[i].c /\ i \in 1..n
    BY <1>2, <2>6, <2>9 DEF f
  <2> HIDE DEF r, n, m
  <2>11. Nested(r)
    <3> SUFFICES ASSUME NEW i \in 1..m, NEW j \in 1..m, i < j PROVE Above(r[i], r[j])
      BY <2>9 DEF Nested
    <3>1. Above(stack[i], stack[j])
      BY <2>7, <2>10
    <3> QED BY <2>10, <3>1 DEF Above
  <2>12. ASSUME NEW i \in 1..m PROVE Relies(placement, r, i)
    <3>1. CASE i = m
      <4>1. ~WaitsForLoad(r, i)
        BY <1>2, <2>9, <3>1 DEF WaitsForLoad
      <4>2. Settled(placement, r[i])
        BY <2>2, <2>5, <2>6, <2>9, <3>1 DEF Settled
      <4> QED BY <4>1, <4>2 DEF Relies
    <3>2. CASE i # m
      <4>1. i \in 1..n - 1 /\ i + 1 \in 1..m /\ i + 1 \in 1..n /\ i + 1 < n /\ r[i] = stack[i]
        BY <1>2, <2>1, <2>9, <3>2
      <4>2. WaitsForLoad(r, i) <=> WaitsForLoad(stack, i)
        BY <2>9, <2>10, <4>1 DEF WaitsForLoad, n
      <4>3. CASE ~WaitsForLoad(r, i)
        BY <2>8, <4>1, <4>2, <4>3 DEF Relies
      <4>4. CASE WaitsForLoad(r, i)
        <5>1. r[i + 1].fn # "write"
          BY <4>4 DEF WaitsForLoad, Loading
        <5>2. i + 1 # m
          BY <2>2, <2>6, <2>9, <5>1
        <5>3. r[i + 1] = stack[i + 1]
          BY <2>9, <4>1, <5>2
        <5> QED BY <2>8, <4>1, <4>2, <4>4, <5>3 DEF Relies
      <4> QED BY <4>3, <4>4
    <3> QED BY <3>1, <3>2
  <2> QED BY <1>1, <2>3, <2>9, <2>11, <2>12 DEF StackInv, Sound
<1> QED BY <1>3, <1>4

\* A frame that is not a load goes on, or ends: no write-allocate waits for it.
LEMMA OnwardSound ==
  ASSUME TypeOK, StackInv, stack # <<>>, NEW p,
         \A d \in Levels : d # Top.c => p[d] = placement[d],
         Top.fn \notin {"load", "fill", "credit"},
         NEW g \in Frame, g.c = Top.c, g.fn \notin Loading, Settled(p, g)
  PROVE  /\ Sound(p, Continue(g)) /\ Continue(g) \in Seq(Frame)
         /\ UpTo(Continue(g), Top.c)
         /\ g.fn = "write" => Injects(Continue(g), Top.c)
<1>1. Top.fn # "credit" /\ (g.fn \in Loading <=> Top.fn \in Loading)
  BY DEF Loading
<1>2. \A i \in 1..Len(stack) - 1 : i + 1 = Len(stack) => ~WaitsForLoad(stack, i)
  BY <1>1, Split DEF WaitsForLoad
<1> QED BY <1>1, <1>2, ContinueSound

LEMMA EndSound ==
  ASSUME TypeOK, StackInv, stack # <<>>, NEW p,
         \A d \in Levels : d # Top.c \/ Top.fn = "credit" => p[d] = placement[d],
         Top.fn \notin Loading
  PROVE  /\ Sound(p, Callers) /\ Callers \in Seq(Frame)
         /\ Top.fn # "credit" => Injects(Callers, Top.c)
<1>1. \A i \in 1..Len(stack) - 1 : i + 1 = Len(stack) => ~WaitsForLoad(stack, i)
  BY Split DEF WaitsForLoad
<1> QED BY <1>1, CallersSound, Split

LEMMA StoreAllocateSound ==
  ASSUME TypeOK, StackInv, StoreAllocate
  PROVE  StackInv'
<1> DEFINE c == Top.c
           g == [Top EXCEPT !.fn = "write"]
           h == LoadCall(c, LineRange(c, Top.cl))
           n == Len(stack)
<1>1. /\ stack # <<>> /\ Top \in Frame /\ Top.fn = "store" /\ c \in Levels /\ Top.cl \in Nat
      /\ Where(placement, c, Top.cl) = -1 /\ placement' = placement
      /\ stack' = Append(Continue(g), h)
  BY TopType, LocationIsWhere DEF StoreAllocate, Storing
<1>2. Top.loc = -1
  BY <1>1, TopSettled DEF Settled
<1>3. g \in Frame /\ g.c = c /\ g.fn = "write" /\ g.cl = Top.cl /\ g.loc = -1
  <2>1. g \in Frame
    BY <1>1, FrameSteps
  <2> QED BY <1>1, <1>2, <2>1, FrameFields
<1>4. h \in Frame /\ h.c = c /\ h.fn = "load" /\ h.cl = Top.cl /\ h.range = LineRange(c, Top.cl)
  <2>1. LineRange(c, Top.cl) \in AddrRange
    BY <1>1, GeometryType
  <2>2. ClId(c, LineRange(c, Top.cl).addr) = Top.cl
    BY <1>1, LineEnd
  <2> QED BY <1>1, <2>1, <2>2, CallFrames DEF LoadCall
<1>5. Settled(placement, g) /\ g.fn \notin Loading
  BY <1>1, <1>3 DEF Settled, Loading
<1>6. /\ n \in Nat \ {0} /\ stack \in Seq(Frame) /\ Top = stack[n]
      /\ Callers \in Seq(Frame) /\ Len(Callers) = n - 1
      /\ \A i \in 1..n - 1 : Callers[i] = stack[i]
  BY <1>1, Split
<1>7. \A i \in 1..n - 1 : stack[i].c < c
  <2> SUFFICES ASSUME NEW i \in 1..n - 1 PROVE stack[i].c < c
    OBVIOUS
  <2>1. i \in 1..n /\ n \in 1..n /\ i < n
    BY <1>6
  <2>2. Above(stack[i], Top)
    BY <1>6, <2>1 DEF StackInv, Sound, Nested
  <2> QED BY <1>1, <2>2 DEF Above, Loading
<1> HIDE DEF c, g, h, n
<1>8. Sound(placement, Continue(g)) /\ Continue(g) \in Seq(Frame)
  BY <1>1, <1>3, <1>5, OnwardSound DEF c
<1>9. /\ Len(Continue(g)) = n /\ Continue(g)[n] = g
      /\ \A i \in 1..n - 1 : Continue(g)[i] = stack[i]
  BY <1>3, <1>6, Pushed DEF Continue
<1>10. \A i \in 1..Len(Continue(g)) : Above(Continue(g)[i], h)
  <2> SUFFICES ASSUME NEW i \in 1..n PROVE Above(Continue(g)[i], h)
    BY <1>9
  <2>1. CASE i = n
    BY <1>3, <1>4, <1>9, <2>1 DEF Above, Loading
  <2>2. CASE i # n
    <3>1. i \in 1..n - 1
      BY <1>6, <2>2
    <3> QED BY <1>4, <1>7, <1>9, <3>1 DEF Above
  <2> QED BY <2>1, <2>2
<1>11. \A i \in 1..Len(Continue(g)) : i = Len(Continue(g)) => Allocates(placement, Continue(g)[i], h)
  BY <1>1, <1>3, <1>4, <1>9 DEF Allocates
<1>12. Settled(placement, h)
  BY <1>4 DEF Settled
<1>13. Sound(placement, Append(Continue(g), h))
  BY <1>4, <1>8, <1>10, <1>11, <1>12, PushSound
<1> QED BY <1>1, <1>13 DEF StackInv

LEMMA StoreInjectSound ==
  ASSUME TypeOK, StackInv, StoreInject
  PROVE  StackInv'
<1> DEFINE c == Top.c
           e == [cl_id |-> Top.cl, dirty |-> TRUE, invalid |-> FALSE]
           q == placement[c][SetId(c, Top.cl)]
<1>1. /\ stack # <<>> /\ Top \in Frame /\ Top.fn = "store" /\ c \in Levels /\ Top.cl \in Nat
      /\ Where(placement, c, Top.cl) = -1
  BY TopType, LocationIsWhere DEF StoreInject, Storing
<1>2. e \in Entry /\ ~e.invalid /\ e.cl_id = Top.cl
  BY <1>1 DEF Entry
<1>3. PICK idx \in ReplaceIdx(c) :
        Inject(c, e, idx, Continue([Top EXCEPT !.fn = "write", !.loc = idx]))
  BY DEF StoreInject
<1> DEFINE g == [Top EXCEPT !.fn = "write", !.loc = idx]
<1>4. placement' = [placement EXCEPT ![c][SetId(c, Top.cl)] = Injected(c, q, idx, e)]
  BY <1>2, <1>3 DEF Inject
<1>5. idx \in Nat
  BY <1>1, ReplaceIdxType, GeometryType
<1>6. g \in Frame /\ g.c = c /\ g.fn = "write" /\ g.cl = Top.cl /\ g.loc = idx
  <2>1. g \in Frame
    BY <1>1, <1>5, FrameSteps
  <2> QED BY <1>1, <2>1, FrameFields
<1>7. q \in [Ways(c) -> Entry]
  BY <1>1, GeometryType DEF TypeOK, PlacementOK
<1>8. PlacementOK
  BY DEF TypeOK
<1> HIDE DEF e, c, q, g
<1>9. Where(placement', c, Top.cl) = idx
  <2>1. WayOf(c, q, Top.cl) = -1
    BY <1>1 DEF Where, q
  <2>2. WayOf(c, Injected(c, q, idx, e), Top.cl) = idx
    BY <1>1, <1>2, <1>7, <2>1, InjectedWay DEF c
  <2> QED BY <1>1, <1>4, <1>8, <2>2, NewWhere
<1>10. \A d \in Levels : d # c => placement'[d] = placement[d]
  BY <1>4, <1>8, OtherCaches
<1>11. Settled(placement', g) /\ g.fn \notin Loading
  BY <1>1, <1>6, <1>9 DEF Settled, Loading
<1>12. Sound(placement', Continue(g)) /\ Continue(g) \in Seq(Frame) /\ Injects(Continue(g), c)
  BY <1>1, <1>6, <1>10, <1>11, OnwardSound DEF c
<1>13. Inject(c, e, idx, Continue(g))
  BY <1>3 DEF g
<1>14. Sound(placement', stack')
  BY <1>1, <1>2, <1>12, <1>13, InjectSound DEF c
<1> QED BY <1>14 DEF StackInv

LEMMA StoreLookupSound ==
  ASSUME TypeOK, StackInv, StoreLookup
  PROVE  StackInv'
<1> DEFINE w == Location(Top.c, Top.cl)
           g == [Top EXCEPT !.fn = "write", !.loc = w]
<1>1. /\ stack # <<>> /\ Top \in Frame /\ Top.fn = "store" /\ Top.c \in Levels /\ Top.cl \in Nat
      /\ placement' = placement /\ stack' = Continue(g)
  BY TopType DEF StoreLookup, Storing
<1>2. w = Where(placement, Top.c, Top.cl) /\ w \in Nat \cup {-1}
  <2>1. w \in Ways(Top.c) \cup {-1}
    BY <1>1, LocationType DEF TypeOK
  <2> QED BY <1>1, <2>1, LocationIsWhere, GeometryType
<1>3. g \in Frame /\ g.c = Top.c /\ g.fn = "write" /\ g.cl = Top.cl /\ g.loc = w
  <2>1. g \in Frame
    BY <1>1, <1>2, FrameSteps
  <2> QED BY <1>1, <2>1, FrameFields
<1> HIDE DEF w, g
<1>4. Settled(placement, g) /\ g.fn \notin Loading
  BY <1>2, <1>3 DEF Settled, Loading
<1>5. Sound(placement, Continue(g))
  BY <1>1, <1>3, <1>4, OnwardSound
<1> QED BY <1>1, <1>5 DEF StackInv

\* The rest of Cache__store and the write-back of single slots.
LEMMA NextLineSound ==
  ASSUME TypeOK, StackInv, Running("write"), NEW p,
         \A d \in Levels : d # Top.c => p[d] = placement[d]
  PROVE  Sound(p, Continue(NextLine)) /\ Continue(NextLine) \in Seq(Frame)
         /\ UpTo(Continue(NextLine), Top.c)
<1> DEFINE g == [Top EXCEPT !.fn = "store", !.cl = @ + 1, !.loc = -1]
<1>1. stack # <<>> /\ Top \in Frame /\ Top.fn = "write" /\ -1 \in Nat \cup {-1}
  BY TopType
<1>2. g \in Frame /\ g.c = Top.c /\ g.fn = "store" /\ g.loc = -1
  <2>1. g \in Frame
    BY <1>1, FrameSteps
  <2> QED BY <1>1, <2>1, FrameFields
<1>3. g = NextLine
  BY DEF NextLine
<1> HIDE DEF g
<1>4. Settled(p, g) /\ g.fn \notin Loading
  BY <1>2 DEF Settled, Loading
<1>5. Sound(p, Continue(g)) /\ Continue(g) \in Seq(Frame) /\ UpTo(Continue(g), Top.c)
  BY <1>1, <1>2, <1>4, OnwardSound
<1> QED BY <1>3, <1>5

LEMMA StoreDirtySound ==
  ASSUME TypeOK, StackInv, StoreDirty
  PROVE  StackInv'
<1> DEFINE q == [placement[Top.c][TopSet] EXCEPT ![Top.loc].dirty = TRUE]
<1>1. Running("write") /\ stack' = Continue(NextLine)
      /\ placement' = [placement EXCEPT ![Top.c][TopSet] = q]
  BY DEF StoreDirty
<1> HIDE DEF q
<1>2. \A d \in Levels : d # Top.c => placement'[d] = placement[d]
  BY <1>1, OtherCaches DEF TypeOK
<1>3. Sound(placement', Continue(NextLine))
  BY <1>1, <1>2, NextLineSound
<1> QED BY <1>1, <1>3 DEF StackInv

LEMMA StoreForwardSound ==
  ASSUME TypeOK, StackInv, StoreForward
  PROVE  StackInv'
<1> DEFINE range == ClipRange(Top.c, Top.cl, Top.range)
<1>1. Running("write") /\ placement' = placement
  BY DEF StoreForward
<1>2. /\ Top.c \in Levels /\ Top.cl \in Nat /\ Top.range \in AddrRange /\ Top.nt \in BOOLEAN
      /\ Top.cl <= LastCl(Top.c, Top.range)
  BY <1>1, TopType DEF FrameOK
<1>3. range \in AddrRange
  BY <1>2, ClipType
<1>4. PICK st : PassDown(Top.c, range, Top.nt, st, Continue(NextLine))
  BY DEF StoreForward
<1>5. /\ Sound(placement, Continue(NextLine)) /\ Continue(NextLine) \in Seq(Frame)
      /\ UpTo(Continue(NextLine), Top.c)
  BY <1>1, NextLineSound
<1> HIDE DEF range
<1>6. Sound(placement, stack')
  BY <1>2, <1>3, <1>4, <1>5, PassDownSound
<1> QED BY <1>1, <1>6 DEF StackInv

LEMMA NextSlotSound ==
  ASSUME TypeOK, StackInv, Running("flush") \/ Running("clean"), NEW p,
         \A d \in Levels : d # Top.c => p[d] = placement[d]
  PROVE  Sound(p, Continue(NextSlot(Top)))
<1> DEFINE f == [Top EXCEPT !.fn = "flush", !.loc = @ + 1]
           g == [Top EXCEPT !.fn = "flush", !.cl = @ + 1, !.loc = 0]
           h == NextSlot(Top)
<1>1. /\ stack # <<>> /\ Top \in Frame /\ Top.fn \in {"flush", "clean"} /\ FrameOK(Top)
      /\ Top.c \in Levels /\ Top.cl \in Nat
  BY TopType
<1>2. Top.loc + 1 \in Nat \cup {-1} /\ Top.cl + 1 \in Nat /\ "flush" \in Functions_
      /\ 0 \in Nat \cup {-1}
  <2>1. Top.loc \in Nat
    BY <1>1, GeometryType DEF FrameOK
  <2> QED BY <1>1, <2>1 DEF Functions_
<1>3. f \in Frame /\ g \in Frame
  BY <1>1, <1>2, Zenon DEF Frame
<1>4. f.fn = "flush" /\ f.c = Top.c /\ g.fn = "flush" /\ g.c = Top.c
  BY <1>1 DEF Frame
<1>5. h = f \/ h = g
  BY DEF NextSlot
<1> HIDE DEF f, g, h
<1>6. h \in Frame /\ h.c = Top.c /\ h.fn \notin Loading /\ Settled(p, h)
  BY <1>3, <1>4, <1>5 DEF Settled, Loading
<1>7. Top.fn \notin {"load", "fill", "credit"}
  BY <1>1
<1>8. Sound(p, Continue(h))
  BY <1>1, <1>6, <1>7, OnwardSound
<1> QED BY <1>8 DEF h

LEMMA FlushSlotSound ==
  ASSUME TypeOK, StackInv, FlushSlot
  PROVE  StackInv'
<1> DEFINE g    == [Top EXCEPT !.fn = "clean"]
           line == LineRange(Top.c, Slot.cl_id)
<1>1. /\ Running("flush") /\ stack # <<>> /\ Top \in Frame /\ FrameOK(Top) /\ Top.fn = "flush"
      /\ Top.c \in Levels /\ Top.cl \in Sets(Top.c) /\ placement' = placement
  BY TopType DEF FlushSlot
<1>2. \/ \E nt \in BOOLEAN : \E st : PassDown(Top.c, line, nt, st, Continue(g))
      \/ stack' = Continue(NextSlot(Top))
  <2>1. \A slot : NonTemporalFlush(Top.c, slot) \in BOOLEAN
    BY <1>1, CacheType DEF Configuration, NonTemporalFlush
  <2> QED BY <2>1 DEF FlushSlot
<1>3. line \in AddrRange
  <2>1. Top.loc \in Ways(Top.c)
    BY <1>1 DEF FrameOK
  <2>2. Slot \in Entry
    BY <1>1, <2>1 DEF Slot, TypeOK, PlacementOK
  <2> QED BY <1>1, <2>2, GeometryType DEF Entry
<1>4. g \in Frame /\ g.c = Top.c /\ g.fn = "clean"
  <2>1. g \in Frame
    BY <1>1, FrameSteps
  <2> QED BY <1>1, <2>1, FrameFields
<1> HIDE DEF g, line
<1>5. CASE \E nt \in BOOLEAN : \E st : PassDown(Top.c, line, nt, st, Continue(g))
  <2>1. Settled(placement, g) /\ g.fn \notin Loading
    BY <1>4 DEF Settled, Loading
  <2>2. Sound(placement, Continue(g)) /\ Continue(g) \in Seq(Frame) /\ UpTo(Continue(g), Top.c)
    BY <1>1, <1>4, <2>1, OnwardSound
  <2>3. Sound(placement, stack')
    BY <1>1, <1>3, <1>5, <2>2, PassDownSound
  <2> QED BY <1>1, <2>3 DEF StackInv
<1>6. CASE stack' = Continue(NextSlot(Top))
  <2>1. Sound(placement, Continue(NextSlot(Top)))
    BY <1>1, NextSlotSound
  <2> QED BY <1>1, <1>6, <2>1 DEF StackInv
<1> QED BY <1>2, <1>5, <1>6

LEMMA FlushCleanSound ==
  ASSUME TypeOK, StackInv, FlushClean
  PROVE  StackInv'
<1> DEFINE q == [placement[Top.c][Top.cl] EXCEPT ![Top.loc].dirty = FALSE]
<1>1. Running("clean") /\ stack' = Continue(NextSlot(Top))
      /\ placement' = [placement EXCEPT ![Top.c][Top.cl] = q]
  BY DEF FlushClean
<1> HIDE DEF q
<1>2. \A d \in Levels : d # Top.c => placement'[d] = placement[d]
  BY <1>1, OtherCaches DEF TypeOK
<1>3. Sound(placement', Continue(NextSlot(Top)))
  BY <1>1, <1>2, NextSlotSound
<1> QED BY <1>1, <1>3 DEF StackInv

LEMMA InjectVictimSound ==
  ASSUME TypeOK, StackInv, InjectVictim
  PROVE  StackInv'
<1> DEFINE e == [cl_id |-> Top.cl, dirty |-> Top.dirty, invalid |-> FALSE]
<1>1. stack # <<>> /\ Top \in Frame /\ Top.fn = "inject" /\ Top.c \in Levels
  BY TopType DEF InjectVictim
<1>2. e \in Entry
  BY TopType DEF InjectVictim, Entry
<1>3. PICK idx \in ReplaceIdx(Top.c) : Inject(Top.c, e, idx, Callers)
  BY DEF InjectVictim
<1> HIDE DEF e
<1>4. \E s, q : placement' = [placement EXCEPT ![Top.c][s] = q]
  BY <1>3 DEF Inject
<1>5. \A d \in Levels : d # Top.c => placement'[d] = placement[d]
  BY <1>4, OtherCaches DEF TypeOK
<1>6. Top.fn \notin Loading /\ Top.fn # "credit"
  BY <1>1 DEF Loading
<1>7. Sound(placement', Callers) /\ Callers \in Seq(Frame) /\ Injects(Callers, Top.c)
  BY <1>1, <1>5, <1>6, EndSound
<1>8. Sound(placement', stack')
  BY <1>1, <1>2, <1>3, <1>7, InjectSound
<1> QED BY <1>8 DEF StackInv

\* The functions that only return.
LEMMA ReturnsSound ==
  ASSUME TypeOK, StackInv, StoreReturn \/ CreditVictim \/ FlushReturn
  PROVE  StackInv'
<1>1. stack # <<>> /\ Top.fn \in {"store", "credit", "flush"}
      /\ placement' = placement /\ stack' = Callers
  BY TopType DEF StoreReturn, CreditVictim, FlushReturn
<1>2. Top.fn \notin Loading
  BY <1>1 DEF Loading
<1>3. Sound(placement, Callers)
  BY <1>1, <1>2, EndSound
<1> QED BY <1>1, <1>3 DEF StackInv

\* Between calls of the API there is no frame, and a call starts with one.
LEMMA SingleSound ==
  ASSUME NEW p, NEW f \in Frame, f.fn \in {"load", "store", "flush"},
         f.fn = "store" => f.loc = -1
  PROVE  Sound(p, <<f>>)
<1>1. Len(<<f>>) = 1 /\ <<f>>[1] = f
  OBVIOUS
<1>2. Settled(p, f) /\ f.fn # "write"
  BY DEF Settled
<1> DEFINE r == <<f>>
<1>3. Len(r) = 1 /\ r[1] = f
  BY <1>1
<1> HIDE DEF r
<1>4. Nested(r)
  BY <1>3 DEF Nested
<1>5. \A i \in 1..Len(r) : Relies(p, r, i)
  BY <1>2, <1>3 DEF Relies, WaitsForLoad
<1>6. Sound(p, r)
  BY <1>4, <1>5 DEF Sound
<1> QED BY <1>6 DEF r

LEMMA IdleStepsSound ==
  ASSUME TypeOK, StackInv, Call \/ WalkStep
  PROVE  StackInv'
<1>1. CASE stack' = stack /\ stack = <<>>
  BY <1>1 DEF StackInv, Sound, Nested
<1>2. CASE \E range \in Ranges : Load(range) \/ Store(range)
  <2>1. PICK range \in Ranges : Load(range) \/ Store(range)
    BY <1>2
  <2> DEFINE f == LoadCall(FirstLevel, range)
             g == StoreCall(FirstLevel, range, FALSE)
  <2>2. range \in AddrRange
    BY HierarchyAssumption
  <2>3. f \in Frame /\ g \in Frame
    BY <2>2, CallFrames, FirstLevelType
  <2>4. f.fn = "load" /\ g.fn = "store" /\ g.loc = -1
    BY DEF LoadCall, StoreCall
  <2>5. stack' = <<f>> \/ stack' = <<g>>
    BY <2>1 DEF Load, Store
  <2> HIDE DEF f, g
  <2>6. Sound(placement', <<f>>) /\ Sound(placement', <<g>>)
    BY <2>3, <2>4, SingleSound
  <2> QED BY <2>5, <2>6 DEF StackInv
<1>3. CASE VisitFlush
  <2> DEFINE f == FlushCall(Head(walk.pending))
  <2>1. Head(walk.pending) \in Levels
    BY <1>3 DEF VisitFlush, Visiting, TypeOK, WalkState
  <2>2. f \in Frame
    BY <2>1, FlushFrame
  <2>3. f.fn = "flush"
    BY DEF FlushCall
  <2>4. stack' = <<f>>
    BY <1>3 DEF VisitFlush
  <2> HIDE DEF f
  <2>5. Sound(placement', <<f>>)
    BY <2>2, <2>3, SingleSound
  <2> QED BY <2>4, <2>5 DEF StackInv
<1>4. \/ stack' = stack /\ stack = <<>>
      \/ \E range \in Ranges : Load(range) \/ Store(range)
      \/ VisitFlush
  BY DEF Call, StartWalk, WalkStep, Idle, WalkOn, VisitReset, VisitInvalidate, WalkEnd,
         WalkDone, Visiting, Walking
<1> QED BY <1>1, <1>2, <1>3, <1>4

\* The stack of every hierarchy is well nested, and what each frame keeps across
\* its calls stays true: the line a fill brings is still absent, and a
\* write-allocate gets the way its line is in.
THEOREM FramesStaySound == Spec => []StackInv
<1>1. Init => StackInv
  BY DEF Init, StackInv, Sound, Nested
<1>2. TypeOK /\ StackInv /\ [Next]_vars => StackInv'
  <2> SUFFICES ASSUME TypeOK, StackInv, [Next]_vars PROVE StackInv'
    OBVIOUS
  <2>1. CASE Call \/ WalkStep
    BY <2>1, IdleStepsSound
  <2>2. CASE LoadStep
    BY <2>2, LoadHitSound, LoadMissSound, LoadFillSound, LoadReturnSound DEF LoadStep
  <2>3. CASE StoreStep
    BY <2>3, StoreAllocateSound, StoreInjectSound, StoreLookupSound, StoreDirtySound,
       StoreForwardSound, ReturnsSound DEF StoreStep
  <2>4. CASE VictimStep
    BY <2>4, InjectVictimSound, ReturnsSound DEF VictimStep
  <2>5. CASE FlushStep
    BY <2>5, FlushSlotSound, FlushCleanSound, ReturnsSound DEF FlushStep
  <2>6. CASE UNCHANGED vars
    BY <2>6 DEF vars, StackInv
  <2> QED BY <2>1, <2>2, <2>3, <2>4, <2>5, <2>6 DEF Next, Step
<1> QED BY <1>1, <1>2, TypeCorrect, PTL DEF Spec

\* Cache__store marks the way its line is in, whatever the load or the injection
\* it made for the line has called in the meantime.
THEOREM WritesHitTheirLine == Spec => []WriteHitsItsLine
<1>1. TypeOK /\ StackInv => WriteHitsItsLine
  <2> SUFFICES ASSUME TypeOK, StackInv, Running("write")
               PROVE  Top.loc = Location(Top.c, Top.cl)
    BY DEF WriteHitsItsLine
  <2>1. stack # <<>> /\ Top.fn = "write"
    BY DEF Running
  <2>2. Settled(placement, Top)
    BY <2>1, TopSettled
  <2> QED BY <2>1, <2>2, LocationIsWhere DEF Settled
<1> QED BY <1>1, TypeCorrect, FramesStaySound, PTL

(* Lines are unique. *)

Distinct(c, q) ==
  \A v, w \in Ways(c) : ~q[v].invalid /\ Holds(q[w], q[v].cl_id) => v = w

LEMMA InjectedDistinct ==
  ASSUME NEW c \in Levels, NEW q \in [Ways(c) -> Entry], Distinct(c, q),
         NEW idx \in ReplaceIdx(c), NEW e \in Entry, ~e.invalid,
         WayOf(c, q, e.cl_id) = -1
  PROVE  Distinct(c, Injected(c, q, idx, e))
<1> DEFINE r == Injected(c, q, idx, e)
<1>1. idx \in Ways(c) /\ 0 \in Ways(c)
  BY ReplaceIdxType, GeometryType
<1>2. \A w \in Ways(c) : ~Holds(q[w], e.cl_id)
  BY WayOfHolds
<1>3. CASE Queued(c)
  <2>1. \A w \in Ways(c) : r[w] = IF w = 0 THEN e
                                  ELSE IF w <= Cache[c].ways - 1 THEN q[w - 1] ELSE q[w]
    BY <1>3 DEF Injected, PushFront, Queued
  <2>2. \A w \in Ways(c) : w \in Nat /\ w <= Cache[c].ways - 1 /\ (w # 0 => w - 1 \in Ways(c))
    BY CacheType DEF Ways
  <2> HIDE DEF r
  <2>3. \A w \in Ways(c) : IF w = 0 THEN r[w] = e ELSE w - 1 \in Ways(c) /\ r[w] = q[w - 1]
    BY <2>1, <2>2
  <2>4. Distinct(c, r)
    <3> SUFFICES ASSUME NEW v \in Ways(c), NEW w \in Ways(c),
                        ~r[v].invalid, Holds(r[w], r[v].cl_id)
                 PROVE  v = w
      BY DEF Distinct
    <3>1. CASE v = 0 /\ w = 0
      BY <3>1
    <3>2. CASE v = 0 /\ w # 0
      BY <1>2, <2>3, <3>2
    <3>3. CASE v # 0 /\ w = 0
      <4>1. v - 1 \in Ways(c) /\ r[v] = q[v - 1] /\ r[w] = e
        BY <2>3, <3>3
      <4>2. Holds(q[v - 1], e.cl_id)
        BY <4>1 DEF Holds
      <4> QED BY <1>2, <4>1, <4>2
    <3>4. CASE v # 0 /\ w # 0
      <4>1. v - 1 \in Ways(c) /\ r[v] = q[v - 1] /\ w - 1 \in Ways(c) /\ r[w] = q[w - 1]
        BY <2>3, <3>4
      <4>2. v - 1 = w - 1
        BY <4>1 DEF Distinct
      <4> QED BY <2>2, <4>2
    <3> QED BY <3>1, <3>2, <3>3, <3>4
  <2> QED BY <2>4 DEF r
<1>4. CASE ~Queued(c)
  <2>1. r = [q EXCEPT ![idx] = e]
    BY <1>4 DEF Injected, Queued
  <2>2. \A w \in Ways(c) : r[w] = IF w = idx THEN e ELSE q[w]
    BY <2>1
  <2> HIDE DEF r
  <2>3. Distinct(c, r)
    <3> SUFFICES ASSUME NEW v \in Ways(c), NEW w \in Ways(c),
                        ~r[v].invalid, Holds(r[w], r[v].cl_id)
                 PROVE  v = w
      BY DEF Distinct
    <3>1. CASE v = idx /\ w # idx
      BY <1>2, <2>2, <3>1
    <3>2. CASE v # idx /\ w = idx
      <4>1. Holds(q[v], e.cl_id)
        BY <2>2, <3>2 DEF Holds
      <4> QED BY <1>2, <4>1
    <3>3. CASE v # idx /\ w # idx
      BY <2>2, <3>3 DEF Distinct
    <3> QED BY <3>1, <3>2, <3>3
  <2> QED BY <2>3 DEF r
<1> QED BY <1>3, <1>4

\* A hit moves its line to the front and leaves no copy behind.
LEMMA PushFrontDistinct ==
  ASSUME NEW c \in Levels, NEW q \in [Ways(c) -> Entry], Distinct(c, q), NEW k \in Ways(c)
  PROVE  Distinct(c, PushFront(q, k, q[k]))
<1> DEFINE r     == PushFront(q, k, q[k])
           from(w) == IF w = 0 THEN k ELSE IF w <= k THEN w - 1 ELSE w
<1>1. k \in Nat /\ \A w \in Ways(c) : w \in Nat /\ (w # 0 => w - 1 \in Ways(c))
  BY CacheType DEF Ways
<1>2. \A w \in Ways(c) : r[w] = q[from(w)] /\ from(w) \in Ways(c)
  BY <1>1 DEF PushFront
<1>3. \A v, w \in Ways(c) : from(v) = from(w) => v = w
  BY <1>1
<1> HIDE DEF r, from
<1>4. Distinct(c, r)
  <2> SUFFICES ASSUME NEW v \in Ways(c), NEW w \in Ways(c),
                      ~r[v].invalid, Holds(r[w], r[v].cl_id)
               PROVE  v = w
    BY DEF Distinct
  <2>1. from(v) = from(w)
    BY <1>2 DEF Distinct
  <2> QED BY <1>3, <2>1
<1> QED BY <1>4 DEF r

LEMMA UniqueUpdate ==
  ASSUME PlacementOK, NoDuplicateLines, NEW c \in Levels, NEW s \in Sets(c),
         NEW q, c \notin VictimCaches => Distinct(c, q),
         placement' = [placement EXCEPT ![c][s] = q]
  PROVE  NoDuplicateLines'
<1> SUFFICES ASSUME NEW d \in Levels \ VictimCaches, NEW t \in Sets(d)
             PROVE  Distinct(d, placement'[d][t])
  BY DEF NoDuplicateLines, Distinct
<1>1. placement \in [Levels -> {placement[x] : x \in Levels}]
  BY DEF PlacementOK
<1>2. placement[d] \in [Sets(d) -> [Ways(d) -> Entry]]
  BY DEF PlacementOK
<1>3. Distinct(d, placement[d][t])
  BY DEF NoDuplicateLines, Distinct
<1>4. CASE d = c /\ t = s
  BY <1>1, <1>2, <1>4
<1>5. CASE ~(d = c /\ t = s)
  <2>1. placement'[d][t] = placement[d][t]
    BY <1>1, <1>2, <1>5
  <2> QED BY <1>3, <2>1
<1> QED BY <1>4, <1>5

LEMMA DirtyBitUnique ==
  ASSUME PlacementOK, NoDuplicateLines, NEW c \in Levels, NEW s \in Sets(c),
         NEW w, NEW d, placement' = [placement EXCEPT ![c][s][w].dirty = d]
  PROVE  NoDuplicateLines'
<1> DEFINE q == placement[c][s]
           r == [q EXCEPT ![w].dirty = d]
<1>1. q \in [Ways(c) -> Entry]
  BY DEF PlacementOK
<1>2. ASSUME NEW v \in Ways(c)
      PROVE  r[v].invalid = q[v].invalid /\ r[v].cl_id = q[v].cl_id
  BY <1>1 DEF Entry
<1>3. c \notin VictimCaches => Distinct(c, q)
  BY DEF NoDuplicateLines, Distinct
<1>4. c \notin VictimCaches => Distinct(c, r)
  <2> HIDE DEF q, r
  <2> QED BY <1>2, <1>3 DEF Distinct, Holds
<1>5. placement' = [placement EXCEPT ![c][s] = r]
  OBVIOUS
<1> HIDE DEF r
<1> QED BY <1>4, <1>5, UniqueUpdate

LEMMA InjectUnique ==
  ASSUME PlacementOK, NoDuplicateLines, NEW c \in Levels, NEW e \in Entry,
         ~e.invalid, NEW idx \in ReplaceIdx(c), NEW callers, Inject(c, e, idx, callers),
         c \in VictimCaches \/ Where(placement, c, e.cl_id) = -1
  PROVE  NoDuplicateLines'
<1> DEFINE s == SetId(c, e.cl_id)
           q == placement[c][s]
<1>1. s \in Sets(c)
  BY GeometryType DEF Entry
<1>2. q \in [Ways(c) -> Entry]
  BY <1>1 DEF PlacementOK
<1>3. c \notin VictimCaches => Distinct(c, q)
  BY <1>1 DEF NoDuplicateLines, Distinct
<1>4. c \in VictimCaches \/ WayOf(c, q, e.cl_id) = -1
  BY DEF Where
<1>5. placement' = [placement EXCEPT ![c][s] = Injected(c, q, idx, e)]
  BY DEF Inject
<1> HIDE DEF s, q
<1>6. c \notin VictimCaches => Distinct(c, Injected(c, q, idx, e))
  BY <1>2, <1>3, <1>4, InjectedDistinct
<1> QED BY <1>1, <1>5, <1>6, UniqueUpdate

LEMMA LoadStepsUnique ==
  ASSUME TypeOK, StackInv, NoDuplicateLines, LoadHit \/ LoadFill
  PROVE  NoDuplicateLines'
<1>1. CASE LoadHit
  <2> DEFINE c   == Top.c
             loc == Location(c, Top.cl)
             q   == placement[c][TopSet]
  <2>1. c \in Levels /\ Top.cl \in Nat /\ TopSet \in Sets(c) /\ TopSet = SetId(c, Top.cl)
    BY <1>1, TopType DEF LoadHit, TopSet
  <2>2. loc \in Ways(c)
    BY <1>1, <2>1, LocationType DEF LoadHit, TypeOK
  <2>3. q \in [Ways(c) -> Entry] /\ PlacementOK
    BY <2>1 DEF TypeOK, PlacementOK
  <2>4. CASE UNCHANGED placement
    BY <2>4 DEF NoDuplicateLines
  <2>5. CASE placement' = [placement EXCEPT ![Top.c][TopSet] = PushFront(@, loc, @[loc])]
    <3>1. c \notin VictimCaches => Distinct(c, q)
      BY <2>1 DEF NoDuplicateLines, Distinct
    <3>2. placement' = [placement EXCEPT ![c][TopSet] = PushFront(q, loc, q[loc])]
      BY <2>5
    <3> HIDE DEF c, loc, q
    <3>3. c \notin VictimCaches => Distinct(c, PushFront(q, loc, q[loc]))
      BY <2>1, <2>2, <2>3, <3>1, PushFrontDistinct
    <3> QED BY <2>1, <2>3, <3>2, <3>3, UniqueUpdate
  <2> QED BY <1>1, <2>4, <2>5 DEF LoadHit
<1>2. CASE LoadFill
  <2> DEFINE e == [cl_id |-> Top.cl, dirty |-> FALSE, invalid |-> FALSE]
  <2>1. stack # <<>> /\ Top.fn = "fill" /\ Top.c \in Levels /\ Top.cl \in Nat
    BY <1>2, TopType DEF LoadFill
  <2>2. e \in Entry /\ ~e.invalid /\ e.cl_id = Top.cl
    BY <2>1 DEF Entry
  <2>3. Where(placement, Top.c, Top.cl) = -1
    BY <2>1, TopSettled DEF Settled
  <2>4. PICK idx \in ReplaceIdx(Top.c) :
          Inject(Top.c, e, idx, Continue([Top EXCEPT !.fn = "load", !.cl = @ + 1, !.loc = idx]))
    BY <1>2 DEF LoadFill
  <2> HIDE DEF e
  <2> QED BY <2>1, <2>2, <2>3, <2>4, InjectUnique DEF TypeOK
<1> QED BY <1>1, <1>2

LEMMA StoreStepsUnique ==
  ASSUME TypeOK, StackInv, NoDuplicateLines, StoreInject \/ StoreDirty \/ FlushClean
  PROVE  NoDuplicateLines'
<1>1. CASE StoreInject
  <2> DEFINE e == [cl_id |-> Top.cl, dirty |-> TRUE, invalid |-> FALSE]
  <2>1. Top.c \in Levels /\ Top.cl \in Nat /\ Where(placement, Top.c, Top.cl) = -1
    BY <1>1, TopType, LocationIsWhere DEF StoreInject, Storing
  <2>2. e \in Entry /\ ~e.invalid /\ e.cl_id = Top.cl
    BY <2>1 DEF Entry
  <2>3. PICK idx \in ReplaceIdx(Top.c) :
          Inject(Top.c, e, idx, Continue([Top EXCEPT !.fn = "write", !.loc = idx]))
    BY <1>1 DEF StoreInject
  <2> HIDE DEF e
  <2> QED BY <2>1, <2>2, <2>3, InjectUnique DEF TypeOK
<1>2. CASE StoreDirty
  <2>1. Top.c \in Levels /\ TopSet \in Sets(Top.c)
    BY <1>2, TopType DEF StoreDirty
  <2>2. placement' = [placement EXCEPT ![Top.c][TopSet][Top.loc].dirty = TRUE]
    BY <1>2 DEF StoreDirty
  <2> QED BY <2>1, <2>2, DirtyBitUnique DEF TypeOK
<1>3. CASE FlushClean
  <2>1. Top.c \in Levels /\ Top.cl \in Sets(Top.c)
    BY <1>3, TopType DEF FlushClean, FrameOK
  <2>2. placement' = [placement EXCEPT ![Top.c][Top.cl][Top.loc].dirty = FALSE]
    BY <1>3 DEF FlushClean
  <2> QED BY <2>1, <2>2, DirtyBitUnique DEF TypeOK
<1> QED BY <1>1, <1>2, <1>3

LEMMA InjectVictimUnique ==
  ASSUME TypeOK, StackInv, NoDuplicateLines, InjectVictim
  PROVE  NoDuplicateLines'
<1> DEFINE e == [cl_id |-> Top.cl, dirty |-> Top.dirty, invalid |-> FALSE]
<1>1. stack # <<>> /\ Top.fn = "inject" /\ Top.c \in Levels /\ e \in Entry /\ ~e.invalid
  BY TopType DEF InjectVictim, Entry
<1>2. Top.c \in VictimCaches
  BY <1>1, TopSettled DEF Settled
<1>3. PICK idx \in ReplaceIdx(Top.c) : Inject(Top.c, e, idx, Callers)
  BY DEF InjectVictim
<1> HIDE DEF e
<1> QED BY <1>1, <1>2, <1>3, InjectUnique DEF TypeOK

LEMMA VisitInvalidateUnique ==
  ASSUME TypeOK, NoDuplicateLines, VisitInvalidate
  PROVE  NoDuplicateLines'
<1> DEFINE c == Head(walk.pending)
<1> SUFFICES ASSUME NEW d \in Levels \ VictimCaches, NEW t \in Sets(d)
             PROVE  Distinct(d, placement'[d][t])
  BY DEF NoDuplicateLines, Distinct
<1>1. placement' = [placement EXCEPT ![c] =
        [s \in DOMAIN placement[c] |-> [w \in DOMAIN placement[c][s] |->
           [placement[c][s][w] EXCEPT !.invalid = TRUE]]]]
  BY DEF VisitInvalidate
<1>2. /\ placement = [x \in Levels |-> placement[x]]
      /\ placement[d] \in [Sets(d) -> [Ways(d) -> Entry]]
  BY DEF TypeOK, PlacementOK
<1>3. CASE d = c
  <2>1. \A w \in Ways(d) :
          placement'[d][t][w] = [placement[d][t][w] EXCEPT !.invalid = TRUE]
    BY <1>1, <1>2, <1>3
  <2>2. \A w \in Ways(d) : placement[d][t][w] \in Entry
    BY <1>2
  <2>3. \A e \in Entry : [e EXCEPT !.invalid = TRUE].invalid
    BY DEF Entry
  <2>4. \A w \in Ways(d) : placement'[d][t][w].invalid
    BY <2>1, <2>2, <2>3
  <2> QED BY <2>4 DEF Distinct
<1>4. CASE d # c
  <2>1. placement'[d] = placement[d]
    BY <1>1, <1>2, <1>4
  <2> QED BY <2>1 DEF NoDuplicateLines, Distinct
<1> QED BY <1>3, <1>4

LEMMA OtherStepsUnique ==
  ASSUME NoDuplicateLines,
         \/ Call \/ LoadMiss \/ LoadReturn \/ StoreAllocate \/ StoreLookup
         \/ StoreForward \/ StoreReturn \/ CreditVictim \/ FlushSlot \/ FlushReturn
         \/ WalkOn \/ VisitFlush \/ VisitReset \/ WalkEnd \/ UNCHANGED vars
  PROVE  NoDuplicateLines'
<1>1. placement' = placement
  BY DEF Call, Load, Store, StartWalk, LoadMiss, LoadReturn, StoreAllocate, StoreLookup,
         StoreForward, StoreReturn, CreditVictim, FlushSlot, FlushReturn, WalkOn,
         VisitFlush, VisitReset, WalkEnd, vars
<1> QED BY <1>1 DEF NoDuplicateLines

\* No cache that is not a victim cache holds a line twice, although Cache__load
\* injects a line it looked for before it called other levels.
THEOREM LinesAreUnique == Spec => []NoDuplicateLines
<1>1. Init => NoDuplicateLines
  BY DEF Init, NoDuplicateLines
<1>2. TypeOK /\ StackInv /\ NoDuplicateLines /\ [Next]_vars => NoDuplicateLines'
  <2> SUFFICES ASSUME TypeOK, StackInv, NoDuplicateLines, [Next]_vars
               PROVE  NoDuplicateLines'
    OBVIOUS
  <2>1. CASE Call \/ UNCHANGED vars
    BY <2>1, OtherStepsUnique
  <2>2. CASE LoadStep
    BY <2>2, LoadStepsUnique, OtherStepsUnique DEF LoadStep
  <2>3. CASE StoreStep
    BY <2>3, StoreStepsUnique, OtherStepsUnique DEF StoreStep
  <2>4. CASE VictimStep
    BY <2>4, InjectVictimUnique, OtherStepsUnique DEF VictimStep
  <2>5. CASE FlushStep
    BY <2>5, StoreStepsUnique, OtherStepsUnique DEF FlushStep
  <2>6. CASE WalkStep
    BY <2>6, VisitInvalidateUnique, OtherStepsUnique DEF WalkStep
  <2> QED BY <2>1, <2>2, <2>3, <2>4, <2>5, <2>6 DEF Next, Step
<1> QED BY <1>1, <1>2, TypeCorrect, FramesStaySound, PTL DEF Spec
=============================================================================
