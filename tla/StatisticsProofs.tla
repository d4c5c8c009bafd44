---------------------------- MODULE StatisticsProofs ----------------------------
(***************************************************************************)
(* The counters of every hierarchy: loads are hits or misses, victim       *)
(* caches only hit, evictions are stores, and what is printed for main     *)
(* memory are the accesses it received.  Then what the loops over levels() *)
(* reach, and that a load finds its line where it asked for it.            *)
(***************************************************************************)
EXTENDS Statistics, FiniteSetTheorems, BufferProofs

(* Which caches are asked for what. *)

LoadsFrom(c, d) == d \in {Cache[c].load_from, Cache[c].victims_to}

\* Line sizes are powers of two (cache.py:295), so a wider line is a multiple.
Widens(c, d) == \E k \in 1..Cache[d].cl_size : Cache[d].cl_size = k * Cache[c].cl_size

\* The caches that are never asked for more than one of their lines at a time.
Served ==
  {d \in Levels \ {FirstLevel} : \A c \in Levels : LoadsFrom(c, d) => Widens(c, d)}

\* The caches that are never asked for less than one of their lines.
Whole ==
  {d \in Levels : /\ \A c \in Levels : LoadsFrom(c, d) => Cache[c].cl_size >= Cache[d].cl_size
                  /\ d = FirstLevel => \A r \in Ranges : r.length >= Cache[d].cl_size}

\* The caches that are loaded from only when they have the line: victim caches to
\* which no other link for loads leads and that do not load by themselves.
HitOnly ==
  {d \in Levels \ {FirstLevel} :
     /\ ~Cache[d].write_allocate
     /\ \A c \in Levels :
          /\ Cache[c].load_from # d
          /\ Cache[c].victims_to = d => Cache[c].cl_size = Cache[d].cl_size}

(* The inductive invariant: frames. *)

\* What is true of a frame from its call on.
Fit(f) ==
  /\ f.fn \in Loading /\ f.c \in Served =>
       LastCl(f.c, f.range) <= f.cl /\ f.range.length <= Cache[f.c].cl_size
  /\ f.fn \in Loading /\ f.c \in Whole => f.range.length >= Cache[f.c].cl_size
  /\ f.fn = "fill" => f.c \notin HitOnly
  /\ f.fn = "load" /\ ClId(f.c, f.range.addr) < f.cl => f.loc # -1

\* What is true of a frame whose function has called another one.
Done(f) == f.fn = "load" /\ f.c \in Served => LastCl(f.c, f.range) < f.cl

HasWay(f) == f.fn = "write" /\ Cache[f.c].write_back => f.loc # -1

FramesFit(st) ==
  \A i \in 1..Len(st) : /\ Fit(st[i])
                        /\ i < Len(st) => Done(st[i])
                        /\ HasWay(st[i]) \/ WaitsForLoad(st, i)

Steady(st) ==
  \A i \in 1..Len(st) : Fit(st[i]) /\ Done(st[i]) /\ (HasWay(st[i]) \/ WaitsForLoad(st, i))

(* Lines of one cache in those of another. *)

LEMMA WidensMeans ==
  ASSUME NEW c \in Levels, NEW d \in Levels, Widens(c, d)
  PROVE  \E k \in Nat \ {0} : Cache[d].cl_size = k * Cache[c].cl_size
<1>1. Cache[d].cl_size \in Nat
  BY CacheType
<1>2. PICK k \in 1..Cache[d].cl_size : Cache[d].cl_size = k * Cache[c].cl_size
  BY DEF Widens
<1>3. k \in Nat \ {0}
  BY <1>1, <1>2
<1> QED BY <1>2, <1>3

LEMMA SameSizeWidens ==
  ASSUME NEW c \in Levels, NEW d \in Levels, Cache[c].cl_size = Cache[d].cl_size
  PROVE  Widens(c, d)
<1>1. Cache[d].cl_size \in Nat \ {0}
  BY CacheType
<1>2. 1 \in 1..Cache[d].cl_size /\ Cache[d].cl_size = 1 * Cache[c].cl_size
  BY <1>1
<1> QED BY <1>2 DEF Widens

\* Number a * n of a cache with lines of n bytes and number a * n + n - 1 are in
\* one line of a cache whose lines have k * n bytes.
LEMMA DivInside ==
  ASSUME NEW a \in Nat, NEW n \in Nat \ {0}, NEW k \in Nat \ {0}
  PROVE  (a * n + n - 1) \div (k * n) = (a * n) \div (k * n)
<1> DEFINE q == a \div k
           r == a % k
           d == k * n
           m == q * d
           s == r * n
<1>1. q \in Nat /\ r \in Nat /\ r < k /\ a = q * k + r
  OBVIOUS
<1>2. d \in Nat \ {0}
  <2>1. \A x, y \in Nat \ {0} : x * y \in Nat \ {0}
    OBVIOUS
  <2> QED BY <2>1
<1>3. m \in Nat /\ s \in Nat
  BY <1>1, <1>2, TimesIsNat
<1>4. a * n = m + s
  <2>1. \A x, y, z \in Nat : (x * y + z) * n = x * (y * n) + z * n
    OBVIOUS
  <2>2. a * n = (q * k + r) * n
    BY <1>1
  <2> HIDE DEF q, r
  <2> QED BY <1>1, <2>1, <2>2
<1>5. s + n <= d
  <2>1. \A x, y \in Nat : x + 1 <= y => x * n + n <= y * n
    <3> SUFFICES ASSUME NEW x \in Nat, NEW y \in Nat, x + 1 <= y PROVE x * n + n <= y * n
      OBVIOUS
    <3>1. (x + 1) * n <= y * n
      OBVIOUS
    <3>2. (x + 1) * n = x * n + n
      OBVIOUS
    <3> QED BY <3>1, <3>2
  <2>2. r + 1 <= k
    BY <1>1
  <2> QED BY <1>1, <2>1, <2>2
<1>6. \A x \in Nat, y \in Nat : y < d => (x * d + y) \div d = x
  <2>1. \A x \in Nat, y \in Nat, e \in Nat \ {0} : y < e => (x * e + y) \div e = x
    OBVIOUS
  <2> HIDE DEF d
  <2> QED BY <1>2, <2>1
<1>7. \A y \in Nat : y < d => (m + y) \div d = q
  <2> HIDE DEF d, q
  <2> QED BY <1>1, <1>6
<1> HIDE DEF d, m, s, q
<1>8. s \in Nat /\ s < d /\ s + n - 1 \in Nat /\ s + n - 1 < d
  BY <1>2, <1>3, <1>5
<1>9. (m + s) \div d = q /\ (m + (s + n - 1)) \div d = q
  BY <1>7, <1>8
<1>10. a * n + n - 1 = m + (s + n - 1)
  BY <1>3, <1>4, <1>2
<1> QED BY <1>4, <1>9, <1>10 DEF d

\* A whole line of one cache is in one line of a cache it loads from.
LEMMA LineInLine ==
  ASSUME NEW c \in Levels, NEW d \in Levels, NEW cl \in Nat, Widens(c, d)
  PROVE  /\ LastCl(d, LineRange(c, cl)) = ClId(d, LineRange(c, cl).addr)
         /\ LineRange(c, cl).length <= Cache[d].cl_size
<1> DEFINE n == Cache[c].cl_size
<1>1. n \in Nat \ {0}
  BY CacheType
<1>2. PICK k \in Nat \ {0} : Cache[d].cl_size = k * n
  BY WidensMeans
<1>3. (cl * n + n - 1) \div (k * n) = (cl * n) \div (k * n)
  BY <1>1, <1>2, DivInside
<1>4. n <= k * n
  <2>1. \A x \in Nat \ {0} : n <= x * n
    BY <1>1
  <2> QED BY <1>2, <2>1
<1>5. LineRange(c, cl) = [addr |-> cl * n, length |-> n]
  BY DEF LineRange
<1>6. LastCl(d, LineRange(c, cl)) = ClId(d, LineRange(c, cl).addr)
  BY <1>2, <1>3, <1>5 DEF LastCl, ClId
<1>7. LineRange(c, cl).length <= Cache[d].cl_size
  BY <1>2, <1>4, <1>5
<1> QED BY <1>6, <1>7

\* A line that is asked for is not behind the last one.
LEMMA LineAsked ==
  ASSUME NEW c \in Levels, NEW d \in Levels, NEW cl \in Nat
  PROVE  ClId(d, LineRange(c, cl).addr) <= LastCl(d, LineRange(c, cl))
<1> DEFINE a == cl * Cache[c].cl_size
           n == Cache[c].cl_size
           m == Cache[d].cl_size
<1>1. n \in Nat \ {0} /\ m \in Nat \ {0}
  BY CacheType
<1>2. a \in Nat
  BY <1>1, TimesIsNat
<1>3. LineRange(c, cl) = [addr |-> a, length |-> n]
  BY DEF LineRange
<1> HIDE DEF a, n, m
<1>4. a <= a + n - 1 /\ a + n - 1 \in Int /\ a \in Int
  BY <1>1, <1>2
<1>5. a \div m <= (a + n - 1) \div m
  BY <1>1, <1>4, DivMonotone
<1> QED BY <1>3, <1>5 DEF ClId, LastCl, m

(* Frames that have called, and the frames above them. *)

LEMMA SteadyFits ==
  ASSUME NEW st, Steady(st)
  PROVE  FramesFit(st)
BY DEF Steady, FramesFit

LEMMA PushFits ==
  ASSUME NEW st \in Seq(Frame), Steady(st), NEW f \in Frame, Fit(f), HasWay(f)
  PROVE  FramesFit(Append(st, f)) /\ (Done(f) => Steady(Append(st, f)))
<1> DEFINE r == Append(st, f)
           n == Len(st)
<1>1. n \in Nat /\ Len(r) = n + 1 /\ (\A i \in 1..n : r[i] = st[i]) /\ r[n + 1] = f
  BY Pushed
<1> HIDE DEF r
<1>2. ASSUME NEW i \in 1..n
      PROVE  Fit(r[i]) /\ Done(r[i]) /\ (HasWay(r[i]) \/ WaitsForLoad(r, i))
  <2>1. Fit(st[i]) /\ Done(st[i]) /\ (HasWay(st[i]) \/ WaitsForLoad(st, i)) /\ r[i] = st[i]
    BY <1>1 DEF Steady
  <2>2. WaitsForLoad(st, i) => WaitsForLoad(r, i)
    <3> SUFFICES ASSUME WaitsForLoad(st, i) PROVE WaitsForLoad(r, i)
      OBVIOUS
    <3>1. i + 1 \in 1..n /\ i + 1 \in 1..n + 1
      BY <1>1 DEF WaitsForLoad
    <3> QED BY <1>1, <2>1, <3>1 DEF WaitsForLoad
  <2> QED BY <2>1, <2>2
<1>3. \A i \in 1..n + 1 : i \notin 1..n => i = n + 1
  BY <1>1
<1>4. FramesFit(r)
  <2>1. \A i \in 1..n + 1 : i < n + 1 => i \in 1..n
    BY <1>1
  <2> QED BY <1>1, <1>2, <1>3, <2>1 DEF FramesFit
<1>5. Done(f) => Steady(r)
  BY <1>1, <1>2, <1>3 DEF Steady
<1> QED BY <1>4, <1>5 DEF r

\* The frames below the running one.
LEMMA BelowSteady ==
  ASSUME TypeOK, stack # <<>>, FramesFit(stack), NEW i \in 1..Len(stack) - 1
  PROVE  /\ Fit(stack[i]) /\ Done(stack[i]) /\ (HasWay(stack[i]) \/ WaitsForLoad(stack, i))
         /\ i + 1 < Len(stack) /\ WaitsForLoad(stack, i) => WaitsForLoad(Callers, i)
<1>1. /\ Len(stack) \in Nat \ {0} /\ Len(Callers) = Len(stack) - 1
      /\ \A j \in 1..Len(stack) - 1 : Callers[j] = stack[j]
  BY Split
<1>2. i \in 1..Len(stack) /\ i < Len(stack)
  BY <1>1
<1>3. i + 1 < Len(stack) => i + 1 \in 1..Len(stack) - 1
  BY <1>1
<1>4. i + 1 < Len(stack) /\ WaitsForLoad(stack, i) => WaitsForLoad(Callers, i)
  <2> SUFFICES ASSUME i + 1 < Len(stack), WaitsForLoad(stack, i) PROVE WaitsForLoad(Callers, i)
    OBVIOUS
  <2>1. Callers[i] = stack[i] /\ Callers[i + 1] = stack[i + 1] /\ i + 1 \in 1..Len(Callers)
    BY <1>1, <1>3
  <2> QED BY <2>1 DEF WaitsForLoad
<1> QED BY <1>2, <1>4 DEF FramesFit

LEMMA CallersSteady ==
  ASSUME TypeOK, stack # <<>>, FramesFit(stack), Top.fn \notin Loading
  PROVE  Steady(Callers) /\ Callers \in Seq(Frame)
<1>1. /\ Len(stack) \in Nat \ {0} /\ Callers \in Seq(Frame) /\ Len(Callers) = Len(stack) - 1
      /\ \A j \in 1..Len(stack) - 1 : Callers[j] = stack[j]
      /\ Top = stack[Len(stack)]
  BY Split
<1>2. ASSUME NEW i \in 1..Len(stack) - 1
      PROVE  Fit(Callers[i]) /\ Done(Callers[i]) /\ (HasWay(Callers[i]) \/ WaitsForLoad(Callers, i))
  <2>1. i + 1 = Len(stack) => ~WaitsForLoad(stack, i)
    BY <1>1 DEF WaitsForLoad
  <2>2. i + 1 < Len(stack) \/ i + 1 = Len(stack)
    BY <1>1
  <2> QED BY <1>1, <2>1, <2>2, BelowSteady
<1> QED BY <1>1, <1>2 DEF Steady

LEMMA ContinueSteady ==
  ASSUME TypeOK, stack # <<>>, FramesFit(stack), NEW g \in Frame, Fit(g), Done(g), HasWay(g),
         Top.fn \in Loading => g.fn \in Loading
  PROVE  Steady(Continue(g)) /\ Continue(g) \in Seq(Frame)
<1> DEFINE n == Len(stack)
           r == Append(Callers, g)
<1>1. /\ n \in Nat \ {0} /\ Callers \in Seq(Frame) /\ Len(Callers) = n - 1
      /\ \A j \in 1..n - 1 : Callers[j] = stack[j]
      /\ Top = stack[n]
  BY Split
<1>2. /\ r \in Seq(Frame) /\ Len(r) = n /\ r[n] = g
      /\ \A j \in 1..n - 1 : r[j] = stack[j]
  <2>1. /\ r \in Seq(Frame) /\ Len(r) = Len(Callers) + 1 /\ r[Len(Callers) + 1] = g
        /\ \A j \in 1..Len(Callers) : r[j] = Callers[j]
    BY <1>1, Pushed
  <2> QED BY <1>1, <2>1
<1> HIDE DEF r
<1>3. ASSUME NEW i \in 1..n, i # n
      PROVE  Fit(r[i]) /\ Done(r[i]) /\ (HasWay(r[i]) \/ WaitsForLoad(r, i))
  <2>1. i \in 1..n - 1 /\ r[i] = stack[i]
    BY <1>1, <1>2, <1>3
  <2>2. Fit(stack[i]) /\ Done(stack[i]) /\ (HasWay(stack[i]) \/ WaitsForLoad(stack, i))
    BY <2>1, BelowSteady
  <2>3. WaitsForLoad(stack, i) => WaitsForLoad(r, i)
    <3> SUFFICES ASSUME WaitsForLoad(stack, i) PROVE WaitsForLoad(r, i)
      OBVIOUS
    <3>1. CASE i + 1 = n
      <4>1. r[i + 1].fn \in Loading /\ i + 1 \in 1..Len(r)
        BY <1>1, <1>2, <3>1 DEF WaitsForLoad
      <4> QED BY <2>1, <4>1 DEF WaitsForLoad
    <3>2. CASE i + 1 # n
      <4>1. i + 1 \in 1..n - 1 /\ i + 1 \in 1..Len(r)
        BY <1>1, <1>2, <2>1, <3>2
      <4> QED BY <1>2, <2>1, <4>1 DEF WaitsForLoad
    <3> QED BY <3>1, <3>2
  <2> QED BY <2>1, <2>2, <2>3
<1>4. Steady(r)
  BY <1>2, <1>3 DEF Steady
<1> QED BY <1>2, <1>4 DEF Continue, r

\* The load of a write-allocate returns the way it has put the line in.
LEMMA ReturnedSteady ==
  ASSUME TypeOK, StackInv, FramesFit(stack), LoadReturn
  PROVE  Steady(stack')
<1> DEFINE n == Len(stack)
           m == n - 1
<1>1. /\ stack # <<>> /\ Top \in Frame /\ Top.fn = "load" /\ Top.c \in Levels /\ Top.cl \in Nat
      /\ Top.cl > LastCl(Top.c, Top.range) /\ Top.loc \in Nat \cup {-1}
  BY TopType DEF LoadReturn
<1>2. /\ n \in Nat \ {0} /\ stack \in Seq(Frame) /\ Top = stack[n] /\ m \in Nat
      /\ Callers \in Seq(Frame) /\ Len(Callers) = m
      /\ \A i \in 1..m : Callers[i] = stack[i]
  BY <1>1, Split
<1>3. CASE ~(Callers # <<>> /\ Callers[Len(Callers)].fn = "write")
  <2>1. stack' = Callers
    BY <1>3 DEF LoadReturn, Returned
  <2>2. ASSUME NEW i \in 1..m
        PROVE  Fit(Callers[i]) /\ Done(Callers[i]) /\ (HasWay(Callers[i]) \/ WaitsForLoad(Callers, i))
    <3>1. i + 1 < n \/ i = m
      BY <1>2
    <3>2. i = m => HasWay(stack[i])
      <4>1. i = m => Callers # <<>> /\ Callers[Len(Callers)] = stack[i]
        BY <1>2
      <4> QED BY <1>3, <4>1 DEF HasWay
    <3> QED BY <1>1, <1>2, <3>1, <3>2, BelowSteady
  <2> QED BY <1>2, <2>1, <2>2 DEF Steady
<1>4. CASE Callers # <<>> /\ Callers[Len(Callers)].fn = "write"
  <2> DEFINE f == stack[m]
             h == [f EXCEPT !.loc = Top.loc]
             r == [Callers EXCEPT ![m] = h]
  <2>1. m \in 1..m /\ m \in 1..n - 1 /\ m \in 1..n /\ m + 1 = n
    <3>1. m # 0
      BY <1>2, <1>4
    <3> QED BY <1>2, <3>1
  <2>2. f \in Frame /\ f.fn = "write" /\ Callers[m] = f
    BY <1>2, <1>4, <2>1
  <2>3. stack' = r
    BY <1>2, <1>4, <2>2 DEF LoadReturn, Returned
  <2>4. WaitsForLoad(stack, m)
    BY <1>1, <1>2, <2>1, <2>2 DEF WaitsForLoad, Loading
  <2>5. Top.loc # -1
    <3>1. Top.range = LineRange(Top.c, f.cl) /\ LastCl(Top.c, Top.range) = f.cl /\ f.cl \in Nat
      BY <1>1, <2>1, <2>2, <2>4, AwaitedLoad DEF Frame
    <3>2. ClId(Top.c, Top.range.addr) = f.cl
      BY <1>1, <3>1, LineEnd
    <3>3. Fit(Top)
      <4>1. n \in 1..n
        BY <1>2
      <4> QED BY <1>2, <4>1 DEF FramesFit
    <3> QED BY <1>1, <3>1, <3>2, <3>3 DEF Fit
  <2>6. h.fn = "write" /\ h.loc = Top.loc /\ h \in Frame
    <3>1. h \in Frame
      BY <1>1, <2>2, FrameSteps
    <3> QED BY <2>2, <3>1, FrameFields
  <2>7. Fit(h) /\ Done(h) /\ HasWay(h)
    BY <2>5, <2>6 DEF Fit, Done, HasWay, Loading
  <2> HIDE DEF h, f
  <2>8. r \in Seq(Frame) /\ Len(r) = m /\ r[m] = h /\ \A i \in 1..m : i # m => r[i] = stack[i]
    BY <1>2, <2>1, <2>6
  <2> HIDE DEF r
  <2>9. ASSUME NEW i \in 1..m, i # m
        PROVE  Fit(r[i]) /\ Done(r[i]) /\ (HasWay(r[i]) \/ WaitsForLoad(r, i))
    <3>1. i \in 1..n - 1 /\ r[i] = stack[i]
      BY <1>2, <2>8, <2>9
    <3>2. Fit(stack[i]) /\ Done(stack[i]) /\ (HasWay(stack[i]) \/ WaitsForLoad(stack, i))
      BY <1>1, <3>1, BelowSteady
    <3>3. WaitsForLoad(stack, i) => WaitsForLoad(r, i)
      <4> SUFFICES ASSUME WaitsForLoad(stack, i) PROVE WaitsForLoad(r, i)
        OBVIOUS
      <4>1. i + 1 \in 1..m
        BY <1>2, <2>9
      <4>2. i + 1 # m
        <5>1. stack[i + 1].fn # "write"
          BY DEF WaitsForLoad, Loading
        <5> QED BY <2>2, <5>1 DEF f
      <4> QED BY <2>8, <3>1, <4>1, <4>2 DEF WaitsForLoad
    <3> QED BY <3>1, <3>2, <3>3
  <2>10. Steady(r)
    BY <2>7, <2>8, <2>9 DEF Steady
  <2> QED BY <2>3, <2>10 DEF r
<1> QED BY <1>3, <1>4

(* Counters. *)

\* One more access of n bytes.
Counted(x, n) == [count |-> x.count + 1, byte |-> x.byte + n]

LEMMA BumpValue ==
  ASSUME NEW st \in CounterTable, NEW c \in Levels, NEW k \in Counters, NEW n,
         NEW d \in Levels, NEW j \in Counters
  PROVE  Bump(st, c, k, n)[d][j] = IF d = c /\ j = k THEN Counted(st[c][k], n) ELSE st[d][j]
BY DEF Bump, CounterTable, Counted

LoadSide == {"LOAD", "HIT", "MISS"}

\* Counter table st agrees with the counters of loads as they are now.
SameLoads(st) == \A c \in Levels : \A k \in LoadSide : st[c][k] = stats[c][k]

LEMMA StoreBumpSame ==
  ASSUME TypeOK, NEW st \in CounterTable, SameLoads(st), NEW c \in Levels,
         NEW k \in {"STORE", "EVICT"}, NEW n
  PROVE  SameLoads(Bump(st, c, k, n))
<1> SUFFICES ASSUME NEW d \in Levels, NEW j \in LoadSide
             PROVE  Bump(st, c, k, n)[d][j] = stats[d][j]
  BY DEF SameLoads
<1>1. k \in Counters /\ j \in Counters /\ j # k
  BY DEF Counters, LoadSide
<1>2. Bump(st, c, k, n)[d][j] = st[d][j]
  BY <1>1, BumpValue
<1> QED BY <1>2 DEF SameLoads

LEMMA PassDownLoads ==
  ASSUME TypeOK, NEW c \in Levels, NEW range, NEW nt, NEW st \in CounterTable,
         SameLoads(st), NEW callers, PassDown(c, range, nt, st, callers)
  PROVE  SameLoads(stats') /\ memory'["loads"] = memory["loads"]
<1>1. CASE Cache[c].store_to = None
  <2>1. stats' = st /\ memory' = Accessed("stores", range)
    BY <1>1 DEF PassDown
  <2>2. Accessed("stores", range)["loads"] = memory["loads"]
    BY DEF Accessed, TypeOK, AccessTable
  <2> QED BY <2>1, <2>2
<1>2. CASE Cache[c].store_to # None
  <2>1. /\ stats' = Bump(st, Cache[c].store_to, "STORE", range.length)
        /\ memory' = memory
    BY <1>2 DEF PassDown
  <2>2. Cache[c].store_to \in Levels
    BY <1>2, LinksLeadDown
  <2> QED BY <2>1, <2>2, StoreBumpSame
<1> QED BY <1>1, <1>2

LEMMA InjectLoads ==
  ASSUME TypeOK, NEW c \in Levels, NEW e, NEW idx, NEW callers, Inject(c, e, idx, callers)
  PROVE  SameLoads(stats') /\ memory'["loads"] = memory["loads"]
<1>1. \/ \E range, nt : PassDown(c, range, nt, Bump(stats, c, "EVICT", Cache[c].cl_size), callers)
      \/ UNCHANGED <<stats, memory>>
  BY DEF Inject
<1>2. SameLoads(stats) /\ stats \in CounterTable
  BY DEF SameLoads, TypeOK
<1>3. SameLoads(Bump(stats, c, "EVICT", Cache[c].cl_size))
  BY <1>2, StoreBumpSame
<1>4. Bump(stats, c, "EVICT", Cache[c].cl_size) \in CounterTable
  <2>1. Cache[c].cl_size \in Nat
    BY CacheType
  <2> QED BY <1>2, <2>1, BumpType DEF Counters
<1>5. CASE UNCHANGED <<stats, memory>>
  BY <1>2, <1>5
<1>6. CASE \E range, nt :
             PassDown(c, range, nt, Bump(stats, c, "EVICT", Cache[c].cl_size), callers)
  BY <1>3, <1>4, <1>6, PassDownLoads
<1> QED BY <1>1, <1>5, <1>6

\* A function that stores or delivers leaves steady frames.
LEMMA PassDownSteady ==
  ASSUME TypeOK, NEW c \in Levels, NEW range \in AddrRange, NEW nt \in BOOLEAN, NEW st,
         NEW callers \in Seq(Frame), Steady(callers), PassDown(c, range, nt, st, callers)
  PROVE  Steady(stack')
<1> DEFINE below == Cache[c].store_to
           f     == StoreCall(below, range, nt)
<1>1. CASE below = None
  BY <1>1 DEF PassDown
<1>2. CASE below # None
  <2>1. below \in Levels
    BY <1>2, LinksLeadDown
  <2>2. f \in Frame /\ f.fn = "store"
    BY <2>1, CallFrames DEF StoreCall
  <2>3. stack' = Append(callers, f)
    BY <1>2 DEF PassDown
  <2> HIDE DEF f
  <2>4. Fit(f) /\ HasWay(f) /\ Done(f)
    BY <2>2 DEF Fit, HasWay, Done, Loading
  <2> QED BY <2>2, <2>3, <2>4, PushFits
<1> QED BY <1>1, <1>2

LEMMA InjectSteady ==
  ASSUME TypeOK, NEW c \in Levels, NEW e \in Entry, NEW idx \in ReplaceIdx(c),
         NEW callers \in Seq(Frame), Steady(callers), Inject(c, e, idx, callers)
  PROVE  Steady(stack')
<1> DEFINE s     == SetId(c, e.cl_id)
           q     == placement[c][s]
           old   == ReplaceEntry(c, q, idx)
           below == Cache[c].victims_to
           f     == CreditFrame(c)
           g     == InjectCall(below, old)
<1>1. e.cl_id \in Nat /\ s \in Sets(c) /\ idx \in Ways(c)
  BY GeometryType, ReplaceIdxType DEF Entry
<1>2. q \in [Ways(c) -> Entry]
  BY <1>1 DEF TypeOK, PlacementOK
<1>3. old \in Entry
  <2> HIDE DEF q
  <2> QED BY <1>1, <1>2, ReplaceEntryType
<1>4. \/ \E nt \in BOOLEAN : \E st : PassDown(c, LineRange(c, old.cl_id), nt, st, callers)
      \/ below # None /\ stack' = Append(Append(callers, f), g)
      \/ stack' = callers
  <2>1. \A slot, after : NonTemporalEvict(c, slot, after) \in BOOLEAN
    BY CacheType DEF Configuration, NonTemporalEvict
  <2> QED BY <2>1 DEF Inject
<1> HIDE DEF old, s, q
<1>5. CASE \E nt \in BOOLEAN : \E st : PassDown(c, LineRange(c, old.cl_id), nt, st, callers)
  <2>1. LineRange(c, old.cl_id) \in AddrRange
    BY <1>3, GeometryType DEF Entry
  <2> QED BY <1>5, <2>1, PassDownSteady
<1>6. CASE below # None /\ stack' = Append(Append(callers, f), g)
  <2>1. f \in Frame /\ g \in Frame
    BY <1>3, <1>6, VictimFrames
  <2>2. f.fn = "credit" /\ g.fn = "inject"
    BY DEF CreditFrame, InjectCall
  <2> HIDE DEF f, g
  <2>3. Fit(f) /\ HasWay(f) /\ Done(f) /\ Fit(g) /\ HasWay(g) /\ Done(g)
    BY <2>2 DEF Fit, HasWay, Done, Loading
  <2>4. Steady(Append(callers, f)) /\ Append(callers, f) \in Seq(Frame)
    BY <2>1, <2>3, PushFits, Pushed
  <2> QED BY <1>6, <2>1, <2>3, <2>4, PushFits
<1>7. CASE stack' = callers
  BY <1>7
<1> QED BY <1>4, <1>5, <1>6, <1>7

(* The steps that look up nothing. *)

LEMMA TopFit ==
  ASSUME TypeOK, stack # <<>>, FramesFit(stack)
  PROVE  Fit(Top) /\ HasWay(Top)
<1>1. Len(stack) \in 1..Len(stack) /\ Top = stack[Len(stack)] /\ Len(stack) \in Nat
  BY Split
<1>2. ~WaitsForLoad(stack, Len(stack))
  BY <1>1 DEF WaitsForLoad
<1> QED BY <1>1, <1>2 DEF FramesFit

\* A load whose line is there goes on to the next.
LEMMA NextFit ==
  ASSUME NEW f \in Frame, f.fn \in Loading, Fit(f), NEW w \in Nat,
         NEW g, g.fn = "load", g.c = f.c, g.cl = f.cl + 1, g.range = f.range, g.loc = w
  PROVE  Fit(g) /\ Done(g) /\ HasWay(g)
<1>1. f.cl \in Nat /\ LastCl(f.c, f.range) \in Int /\ g.fn \in Loading
  BY ClIdType, FrameLevel DEF Frame, Loading
<1>2. f.c \in Served => LastCl(f.c, f.range) <= f.cl /\ f.range.length <= Cache[f.c].cl_size
  BY DEF Fit
<1>3. f.c \in Whole => f.range.length >= Cache[f.c].cl_size
  BY DEF Fit
<1>4. LastCl(f.c, f.range) <= f.cl => LastCl(f.c, f.range) < f.cl + 1
  BY <1>1
<1>5. w # -1 /\ (f.cl < f.cl + 1)
  BY <1>1
<1>6. Fit(g)
  <2>1. g.c \in Served => LastCl(g.c, g.range) <= g.cl /\ g.range.length <= Cache[g.c].cl_size
    BY <1>1, <1>2
  <2> QED BY <1>1, <1>3, <1>5, <2>1 DEF Fit
<1>7. Done(g)
  BY <1>2, <1>4 DEF Done
<1> QED BY <1>6, <1>7 DEF HasWay

\* Frames that are no loads and no writes are always in order.
LEMMA PlainFit ==
  ASSUME NEW g, g.fn \notin Loading, g.fn # "write"
  PROVE  Fit(g) /\ Done(g) /\ HasWay(g)
BY DEF Fit, Done, HasWay, Loading

LEMMA LoadFillSteady ==
  ASSUME TypeOK, FramesFit(stack), LoadFill
  PROVE  Steady(stack')
<1> DEFINE e == [cl_id |-> Top.cl, dirty |-> FALSE, invalid |-> FALSE]
<1>1. /\ stack # <<>> /\ Top \in Frame /\ Top.fn = "fill" /\ Top.c \in Levels /\ Top.cl \in Nat
  BY TopType DEF LoadFill
<1>2. PICK idx \in ReplaceIdx(Top.c) :
        Inject(Top.c, e, idx, Continue([Top EXCEPT !.fn = "load", !.cl = @ + 1, !.loc = idx]))
  BY DEF LoadFill
<1> DEFINE g == [Top EXCEPT !.fn = "load", !.cl = @ + 1, !.loc = idx]
<1>3. e \in Entry
  BY <1>1 DEF Entry
<1>4. idx \in Nat
  BY <1>1, ReplaceIdxType, GeometryType
<1>5. g \in Frame
  BY <1>1, <1>4, FrameSteps
<1>6. g.fn = "load" /\ g.c = Top.c /\ g.cl = Top.cl + 1 /\ g.range = Top.range /\ g.loc = idx
  BY <1>1, FrameFields
<1>7. Inject(Top.c, e, idx, Continue(g))
  BY <1>2
<1> HIDE DEF g, e
<1>8. Fit(g) /\ Done(g) /\ HasWay(g)
  BY <1>1, <1>4, <1>6, TopFit, NextFit DEF Loading
<1>9. Steady(Continue(g)) /\ Continue(g) \in Seq(Frame)
  BY <1>1, <1>5, <1>6, <1>8, ContinueSteady DEF Loading
<1> QED BY <1>1, <1>3, <1>7, <1>9, InjectSteady

LEMMA StoreInjectSteady ==
  ASSUME TypeOK, FramesFit(stack), StoreInject
  PROVE  Steady(stack')
<1> DEFINE e == [cl_id |-> Top.cl, dirty |-> TRUE, invalid |-> FALSE]
<1>1. /\ stack # <<>> /\ Top \in Frame /\ Top.fn = "store" /\ Top.c \in Levels /\ Top.cl \in Nat
  BY TopType DEF StoreInject, Storing
<1>2. PICK idx \in ReplaceIdx(Top.c) :
        Inject(Top.c, e, idx, Continue([Top EXCEPT !.fn = "write", !.loc = idx]))
  BY DEF StoreInject
<1> DEFINE g == [Top EXCEPT !.fn = "write", !.loc = idx]
<1>3. e \in Entry
  BY <1>1 DEF Entry
<1>4. idx \in Nat
  BY <1>1, ReplaceIdxType, GeometryType
<1>5. g \in Frame
  BY <1>1, <1>4, FrameSteps
<1>6. g.fn = "write" /\ g.loc = idx
  BY <1>1, FrameFields
<1>7. Inject(Top.c, e, idx, Continue(g))
  BY <1>2
<1> HIDE DEF g, e
<1>8. Fit(g) /\ Done(g) /\ HasWay(g)
  BY <1>4, <1>6 DEF Fit, Done, HasWay, Loading
<1>9. Steady(Continue(g)) /\ Continue(g) \in Seq(Frame)
  BY <1>1, <1>5, <1>8, ContinueSteady DEF Loading
<1> QED BY <1>1, <1>3, <1>7, <1>9, InjectSteady

LEMMA StoreLookupSteady ==
  ASSUME TypeOK, FramesFit(stack), StoreLookup
  PROVE  Steady(stack')
<1> DEFINE w == Location(Top.c, Top.cl)
           g == [Top EXCEPT !.fn = "write", !.loc = w]
<1>1. /\ stack # <<>> /\ Top \in Frame /\ Top.fn = "store" /\ Top.c \in Levels /\ Top.cl \in Nat
      /\ stack' = Continue(g) /\ (w # -1 \/ ~Cache[Top.c].write_back)
  BY TopType DEF StoreLookup, Storing
<1>2. w \in Nat \cup {-1}
  <2>1. w \in Ways(Top.c) \cup {-1}
    BY <1>1, LocationType DEF TypeOK
  <2> QED BY <1>1, <2>1, GeometryType
<1>3. g \in Frame
  BY <1>1, <1>2, FrameSteps
<1>4. g.fn = "write" /\ g.loc = w /\ g.c = Top.c
  BY <1>1, FrameFields
<1> HIDE DEF g
<1>5. Fit(g) /\ Done(g) /\ HasWay(g)
  BY <1>1, <1>4 DEF Fit, Done, HasWay, Loading
<1>6. Steady(Continue(g)) /\ Continue(g) \in Seq(Frame)
  BY <1>1, <1>3, <1>5, ContinueSteady DEF Loading
<1> QED BY <1>1, <1>6

LEMMA WriteSteady ==
  ASSUME TypeOK, FramesFit(stack), StoreDirty \/ StoreForward
  PROVE  Steady(stack')
<1>1. /\ stack # <<>> /\ Top \in Frame /\ Top.fn = "write" /\ Top.c \in Levels /\ Top.cl \in Nat
      /\ Top.range \in AddrRange /\ Top.nt \in BOOLEAN /\ Top.cl <= LastCl(Top.c, Top.range)
  BY TopType DEF StoreDirty, StoreForward, FrameOK
<1>2. NextLine \in Frame /\ Fit(NextLine) /\ Done(NextLine) /\ HasWay(NextLine)
  <2>1. NextLine \in Frame /\ NextLine.fn = "store"
    BY <1>1, NextLineFrame
  <2> QED BY <2>1, PlainFit DEF Loading
<1>3. Steady(Continue(NextLine)) /\ Continue(NextLine) \in Seq(Frame)
  BY <1>1, <1>2, ContinueSteady DEF Loading
<1>4. CASE StoreDirty
  BY <1>3, <1>4 DEF StoreDirty
<1>5. CASE StoreForward
  <2> DEFINE range == ClipRange(Top.c, Top.cl, Top.range)
  <2>1. range \in AddrRange
    BY <1>1, ClipType
  <2>2. PICK st : PassDown(Top.c, range, Top.nt, st, Continue(NextLine))
    BY <1>5 DEF StoreForward
  <2> HIDE DEF range
  <2> QED BY <1>1, <1>3, <2>1, <2>2, PassDownSteady
<1> QED BY <1>4, <1>5

LEMMA VictimSteady ==
  ASSUME TypeOK, FramesFit(stack), InjectVictim
  PROVE  Steady(stack')
<1> DEFINE e == [cl_id |-> Top.cl, dirty |-> Top.dirty, invalid |-> FALSE]
<1>1. stack # <<>> /\ Top.c \in Levels /\ e \in Entry /\ Top.fn = "inject"
  BY TopType DEF InjectVictim, Entry
<1>2. PICK idx \in ReplaceIdx(Top.c) : Inject(Top.c, e, idx, Callers)
  BY DEF InjectVictim
<1> HIDE DEF e
<1>3. Steady(Callers) /\ Callers \in Seq(Frame)
  BY <1>1, CallersSteady DEF Loading
<1> QED BY <1>1, <1>2, <1>3, InjectSteady

\* A dirty slot is stored one level down.
LEMMA FlushSlotCases ==
  ASSUME TypeOK, FlushSlot
  PROVE  /\ LineRange(Top.c, Slot.cl_id) \in AddrRange
         /\ \/ \E nt \in BOOLEAN :
                 PassDown(Top.c, LineRange(Top.c, Slot.cl_id), nt,
                          Bump(stats, Top.c, "EVICT", TopLine),
                          Continue([Top EXCEPT !.fn = "clean"]))
            \/ stack' = Continue(NextSlot(Top)) /\ UNCHANGED <<stats, memory, owed>>
<1>1. /\ Top \in Frame /\ FrameOK(Top) /\ Top.fn = "flush" /\ Top.c \in Levels
      /\ Top.cl \in Sets(Top.c)
  BY TopType DEF FlushSlot
<1>2. \A slot : NonTemporalFlush(Top.c, slot) \in BOOLEAN
  BY <1>1, CacheType DEF Configuration, NonTemporalFlush
<1>3. Top.loc \in Ways(Top.c)
  BY <1>1 DEF FrameOK
<1>4. Slot \in Entry
  BY <1>1, <1>3 DEF Slot, TypeOK, PlacementOK
<1>5. LineRange(Top.c, Slot.cl_id) \in AddrRange
  BY <1>1, <1>4, GeometryType DEF Entry
<1> QED BY <1>2, <1>5 DEF FlushSlot

LEMMA FlushSteady ==
  ASSUME TypeOK, FramesFit(stack), FlushSlot \/ FlushClean
  PROVE  Steady(stack')
<1> DEFINE g == [Top EXCEPT !.fn = "clean"]
<1>1. /\ stack # <<>> /\ Top \in Frame /\ Top.fn \in {"flush", "clean"} /\ Top.c \in Levels
  BY TopType DEF FlushSlot, FlushClean
<1>2. Steady(Continue(NextSlot(Top)))
  <2>1. NextSlot(Top) \in Frame /\ NextSlot(Top).fn = "flush"
    BY NextSlotFrame DEF FlushSlot, FlushClean
  <2>2. Fit(NextSlot(Top)) /\ Done(NextSlot(Top)) /\ HasWay(NextSlot(Top))
    BY <2>1, PlainFit DEF Loading
  <2> QED BY <1>1, <2>1, <2>2, ContinueSteady DEF Loading
<1>3. CASE FlushClean \/ stack' = Continue(NextSlot(Top))
  BY <1>2, <1>3 DEF FlushClean
<1>4. CASE /\ LineRange(Top.c, Slot.cl_id) \in AddrRange
           /\ \E nt \in BOOLEAN : \E st : PassDown(Top.c, LineRange(Top.c, Slot.cl_id), nt, st, Continue(g))
  <2>1. g \in Frame
    BY <1>1, FrameSteps
  <2>2. g.fn = "clean"
    BY <1>1, FrameFields
  <2> HIDE DEF g
  <2>3. Fit(g) /\ Done(g) /\ HasWay(g)
    BY <2>2, PlainFit DEF Loading
  <2>4. Steady(Continue(g)) /\ Continue(g) \in Seq(Frame)
    BY <1>1, <2>1, <2>3, ContinueSteady DEF Loading
  <2> QED BY <1>1, <1>4, <2>4, PassDownSteady
<1> QED BY <1>3, <1>4, FlushSlotCases

\* The steps that neither look a line up nor ask for one.
QuietStep ==
  \/ LoadFill \/ LoadReturn
  \/ StoreInject \/ StoreLookup \/ StoreDirty \/ StoreForward \/ StoreReturn
  \/ VictimStep \/ FlushStep

LEMMA QuietSteady ==
  ASSUME TypeOK, StackInv, FramesFit(stack), QuietStep
  PROVE  Steady(stack')
<1>1. CASE LoadReturn
  BY <1>1, ReturnedSteady
<1>2. CASE StoreReturn \/ CreditVictim \/ FlushReturn
  <2>1. stack # <<>> /\ Top.fn \notin Loading /\ stack' = Callers
    BY <1>2 DEF StoreReturn, CreditVictim, FlushReturn, Running, Loading
  <2> QED BY <2>1, CallersSteady
<1> QED BY <1>1, <1>2, LoadFillSteady, StoreInjectSteady, StoreLookupSteady, WriteSteady,
           VictimSteady, FlushSteady DEF QuietStep, VictimStep, FlushStep

LEMMA QuietLoads ==
  ASSUME TypeOK, QuietStep
  PROVE  SameLoads(stats') /\ memory'["loads"] = memory["loads"]
<1>1. SameLoads(stats) /\ stats \in CounterTable
  BY DEF SameLoads, TypeOK
<1>2. ASSUME UNCHANGED <<stats, memory>>
      PROVE  SameLoads(stats') /\ memory'["loads"] = memory["loads"]
  BY <1>1, <1>2
<1>3. CASE LoadReturn \/ StoreLookup \/ StoreDirty \/ StoreReturn \/ FlushClean \/ FlushReturn
  BY <1>2, <1>3 DEF LoadReturn, StoreLookup, StoreDirty, StoreReturn, FlushClean, FlushReturn
<1>4. CASE LoadFill \/ StoreInject \/ InjectVictim
  <2>1. Top.c \in Levels
    BY <1>4, TopType DEF LoadFill, StoreInject, Storing, InjectVictim
  <2>2. \E e, idx, callers : Inject(Top.c, e, idx, callers)
    BY <1>4 DEF LoadFill, StoreInject, InjectVictim
  <2> QED BY <2>1, <2>2, InjectLoads
<1>5. CASE StoreForward
  <2> DEFINE range == ClipRange(Top.c, Top.cl, Top.range)
             st    == IF Cache[Top.c].store_to = None THEN stats
                      ELSE Bump(stats, Top.c, "EVICT", range.length)
  <2>1. Top.c \in Levels /\ range \in AddrRange
    BY <1>5, TopType, ClipType DEF StoreForward, FrameOK
  <2>2. PassDown(Top.c, range, Top.nt, st, Continue(NextLine))
    BY <1>5 DEF StoreForward
  <2>3. range.length \in Nat
    BY <2>1 DEF AddrRange
  <2> HIDE DEF range
  <2>4. SameLoads(st) /\ st \in CounterTable
    BY <1>1, <2>1, <2>3, StoreBumpSame, BumpType DEF Counters
  <2> HIDE DEF st
  <2> QED BY <2>1, <2>2, <2>4, PassDownLoads
<1>6. CASE CreditVictim
  <2>1. Top.c \in Levels /\ TopLine \in Nat /\ Cache[Top.c].victims_to \in Levels
    <3>1. Top.c \in Levels /\ TopLine \in Nat /\ Cache[Top.c].victims_to # None
      BY <1>6, TopType DEF CreditVictim, FrameOK
    <3> QED BY <3>1, LinksLeadDown
  <2> DEFINE st == Bump(stats, Top.c, "EVICT", TopLine)
  <2>2. stats' = Bump(st, Cache[Top.c].victims_to, "STORE", TopLine) /\ memory' = memory
    BY <1>6 DEF CreditVictim
  <2>3. SameLoads(st) /\ st \in CounterTable
    BY <1>1, <2>1, StoreBumpSame, BumpType DEF Counters
  <2> HIDE DEF st
  <2> QED BY <2>1, <2>2, <2>3, StoreBumpSame
<1>7. CASE FlushSlot
  <2>1. Top.c \in Levels /\ TopLine \in Nat
    BY <1>7, TopType DEF FlushSlot
  <2>2. SameLoads(Bump(stats, Top.c, "EVICT", TopLine))
        /\ Bump(stats, Top.c, "EVICT", TopLine) \in CounterTable
    BY <1>1, <2>1, StoreBumpSame, BumpType DEF Counters
  <2> QED BY <1>2, <1>7, <2>1, <2>2, FlushSlotCases, PassDownLoads
<1> QED BY <1>3, <1>4, <1>5, <1>6, <1>7 DEF QuietStep, VictimStep, FlushStep

(* The inductive invariant: counters of loads. *)

NothingMore == [count |-> 0, byte |-> 0]

\* The running frame is about to look up a line of cache c.
Looking(st, c) ==
  /\ st # <<>>
  /\ LET f == st[Len(st)] IN f.fn = "load" /\ f.c = c /\ f.cl <= LastCl(f.c, f.range)

\* What is counted as a load and not yet as a hit or a miss.
Pending(st, c) ==
  IF Looking(st, c) THEN [count |-> 1, byte |-> st[Len(st)].range.length] ELSE NothingMore

LoadsCounted ==
  \A c \in Served :
    stats[c]["LOAD"] = Plus(Plus(stats[c]["HIT"], stats[c]["MISS"]), Pending(stack, c))

NeverMissing ==
  \A d \in HitOnly : /\ stats[d]["MISS"] = NothingMore
                     /\ Looking(stack, d) => Location(d, stack[Len(stack)].cl) # -1

LoadsInv == FramesFit(stack) /\ LoadsCounted /\ NeverMissing

LEMMA CounterRecords ==
  ASSUME stats \in CounterTable, NEW c \in Levels, NEW k \in Counters
  PROVE  /\ stats[c][k] \in Counter
         /\ stats[c][k].count \in Nat /\ stats[c][k].byte \in Nat
BY DEF CounterTable, Counter

\* Counting what was pending, and counting and asking at once.
LEMMA CountPending ==
  ASSUME NEW h \in Counter, NEW m \in Counter, NEW n \in Nat
  PROVE  /\ Plus(Plus(h, m), [count |-> 1, byte |-> n])
              = Plus(Plus(Counted(h, n), m), NothingMore)
         /\ Plus(Plus(h, m), [count |-> 1, byte |-> n])
              = Plus(Plus(h, Counted(m, n)), NothingMore)
         /\ Counted(Plus(Plus(h, m), NothingMore), n)
              = Plus(Plus(h, m), [count |-> 1, byte |-> n])
<1>1. h.count \in Nat /\ h.byte \in Nat /\ m.count \in Nat /\ m.byte \in Nat
  BY DEF Counter
<1> QED BY <1>1 DEF Plus, Counted, NothingMore

LEMMA SteadyLooks ==
  ASSUME NEW st \in Seq(Frame), Steady(st), NEW c \in Served
  PROVE  ~Looking(st, c)
<1> SUFFICES ASSUME Looking(st, c) PROVE FALSE
  OBVIOUS
<1>1. Len(st) \in 1..Len(st)
  BY DEF Looking
<1> DEFINE f == st[Len(st)]
<1>2. f \in Frame
  BY <1>1
<1>3. Done(f)
  BY <1>1 DEF Steady
<1>4. f.cl \in Nat /\ LastCl(f.c, f.range) \in Int
  BY <1>2, ClIdType, FrameLevel DEF Frame
<1>5. f.fn = "load" /\ f.c \in Served /\ f.cl <= LastCl(f.c, f.range)
  BY DEF Looking
<1> QED BY <1>3, <1>4, <1>5 DEF Done

LEMMA HitOnlyServed == HitOnly \subseteq Served
<1> SUFFICES ASSUME NEW d \in HitOnly, NEW c \in Levels, LoadsFrom(c, d) PROVE Widens(c, d)
  BY DEF HitOnly, Served
<1>1. d \in Levels /\ Cache[c].cl_size = Cache[d].cl_size
  BY DEF HitOnly, LoadsFrom
<1> QED BY <1>1, SameSizeWidens

LEMMA QuietCounts ==
  ASSUME TypeOK, TypeOK', StackInv, LoadsInv, QuietStep
  PROVE  LoadsInv'
<1>1. Steady(stack') /\ SameLoads(stats')
  BY QuietSteady, QuietLoads DEF LoadsInv
<1>2. FramesFit(stack')
  BY <1>1, SteadyFits
<1>3. stack' \in Seq(Frame)
  BY DEF TypeOK, FramesOK
<1>4. \A c \in Served : ~Looking(stack', c)
  BY <1>1, <1>3, SteadyLooks
<1>5. \A c \in Served : ~Looking(stack, c)
  <2>1. \A c \in Levels : ~(Running("load") /\ Top.c = c /\ Top.cl <= LastCl(Top.c, Top.range))
                          => ~Looking(stack, c)
    BY DEF Looking, Running, Top
  <2>2. CASE LoadReturn
    <3>1. Top.c \in Levels /\ Top.cl \in Nat /\ Top.range \in AddrRange
      BY <2>2, TopType DEF LoadReturn
    <3>2. LastCl(Top.c, Top.range) \in Int
      BY <3>1, ClIdType
    <3> QED BY <2>1, <2>2, <3>1, <3>2 DEF LoadReturn, Served
  <2>3. CASE ~LoadReturn
    <3>1. ~Running("load")
      BY <2>3 DEF QuietStep, VictimStep, FlushStep, LoadFill, StoreInject, StoreLookup, Storing,
         StoreDirty, StoreForward, StoreReturn, InjectVictim, CreditVictim, FlushSlot,
         FlushClean, FlushReturn, Running
    <3> QED BY <2>1, <3>1 DEF Served
  <2> QED BY <2>2, <2>3
<1>6. \A c \in Served : Pending(stack', c) = Pending(stack, c)
  BY <1>4, <1>5 DEF Pending
<1>7. \A c \in Levels : /\ stats'[c]["LOAD"] = stats[c]["LOAD"]
                        /\ stats'[c]["HIT"] = stats[c]["HIT"]
                        /\ stats'[c]["MISS"] = stats[c]["MISS"]
  BY <1>1 DEF SameLoads, LoadSide
<1>8. LoadsCounted'
  BY <1>6, <1>7 DEF LoadsInv, LoadsCounted, Served
<1>9. NeverMissing'
  BY <1>4, <1>7, HitOnlyServed DEF LoadsInv, NeverMissing, HitOnly
<1> QED BY <1>2, <1>8, <1>9 DEF LoadsInv

\* No load is under way.
Balanced(st) ==
  /\ \A c \in Served : st[c]["LOAD"] = Plus(Plus(st[c]["HIT"], st[c]["MISS"]), NothingMore)
  /\ \A d \in HitOnly : st[d]["MISS"] = NothingMore

LEMMA RestCounts ==
  ASSUME TypeOK', Steady(stack'), Balanced(stats')
  PROVE  LoadsInv'
<1>1. stack' \in Seq(Frame)
  BY DEF TypeOK, FramesOK
<1>2. \A c \in Served : ~Looking(stack', c)
  BY <1>1, SteadyLooks
<1>3. \A c \in Served : Pending(stack', c) = NothingMore
  BY <1>2 DEF Pending
<1>4. FramesFit(stack')
  BY SteadyFits
<1>5. LoadsCounted'
  BY <1>3 DEF LoadsCounted, Balanced
<1>6. NeverMissing'
  BY <1>2, HitOnlyServed DEF NeverMissing, Balanced
<1> QED BY <1>4, <1>5, <1>6 DEF LoadsInv

\* Cache s is asked for a range.
LEMMA AskCounts ==
  ASSUME NEW s \in Levels, NEW range \in AddrRange,
         s \in Served => ClId(s, range.addr) <= LastCl(s, range),
         s \in HitOnly => Location(s, ClId(s, range.addr)) # -1,
         NEW st \in CounterTable, Balanced(st), stats' = Bump(st, s, "LOAD", range.length),
         stack' # <<>>, stack'[Len(stack')] = LoadCall(s, range), FramesFit(stack'),
         UNCHANGED placement
  PROVE  LoadsInv'
<1> DEFINE f == stack'[Len(stack')]
<1>1. f.fn = "load" /\ f.c = s /\ f.cl = ClId(s, range.addr) /\ f.range = range
  BY DEF LoadCall
<1>2. \A d \in Served : Looking(stack', d) <=> d = s
  BY <1>1 DEF Looking
<1>3. \A d \in Served : Pending(stack', d) = IF d = s THEN [count |-> 1, byte |-> range.length]
                                  ELSE NothingMore
  BY <1>1, <1>2 DEF Pending
<1>4. range.length \in Nat
  BY DEF AddrRange
<1>5. \A d \in Levels :
        /\ stats'[d]["HIT"] = st[d]["HIT"] /\ stats'[d]["MISS"] = st[d]["MISS"]
        /\ stats'[d]["LOAD"] = IF d = s THEN Counted(st[s]["LOAD"], range.length) ELSE st[d]["LOAD"]
  BY BumpValue DEF Counters
<1>6. ASSUME NEW d \in Served
      PROVE  stats'[d]["LOAD"] = Plus(Plus(stats'[d]["HIT"], stats'[d]["MISS"]), Pending(stack', d))
  <2>1. d \in Levels /\ st[d]["LOAD"] = Plus(Plus(st[d]["HIT"], st[d]["MISS"]), NothingMore)
    BY DEF Served, Balanced
  <2>2. st[d]["HIT"] \in Counter /\ st[d]["MISS"] \in Counter
    BY <2>1 DEF CounterTable, Counters
  <2>3. CASE d = s
    BY <1>3, <1>4, <1>5, <2>1, <2>2, <2>3, CountPending
  <2>4. CASE d # s
    BY <1>3, <1>5, <2>1, <2>4
  <2> QED BY <2>3, <2>4
<1>7. LoadsCounted'
  BY <1>6 DEF LoadsCounted
<1>8. ASSUME NEW d \in HitOnly
      PROVE  /\ stats'[d]["MISS"] = NothingMore
             /\ Looking(stack', d) => Where(placement', d, f.cl) # -1
  <2>1. d \in Levels /\ st[d]["MISS"] = NothingMore
    BY DEF HitOnly, Balanced
  <2>2. d = s => Where(placement, d, f.cl) # -1
    BY <1>1, LocationIsWhere
  <2> QED BY <1>1, <1>2, <1>5, <2>1, <2>2, HitOnlyServed
<1>9. NeverMissing'
  BY <1>8 DEF NeverMissing, Location, Where, WayOf
<1> QED BY <1>7, <1>9 DEF LoadsInv

\* A load that is about to look up its line, and nothing else, is under way.
LEMMA LookupBalances ==
  ASSUME TypeOK, LoadsInv, Running("load"), Top.cl <= LastCl(Top.c, Top.range),
         NEW k \in {"HIT", "MISS"}, NEW st \in CounterTable, k = "MISS" => Top.c \notin HitOnly,
         st = Bump(stats, Top.c, k, Smaller(TopLine, Top.range.length))
  PROVE  Balanced(st)
<1> DEFINE c == Top.c
           n == Smaller(TopLine, Top.range.length)
<1>1. /\ stack # <<>> /\ Top \in Frame /\ Top.fn = "load" /\ c \in Levels
      /\ Top.range \in AddrRange /\ TopLine \in Nat /\ TopLine = Cache[c].cl_size
  BY TopType DEF Running, TopLine
<1>2. Fit(Top)
  BY <1>1, TopFit DEF LoadsInv
<1>3. /\ \A d : Looking(stack, d) <=> d = c
      /\ Top = stack[Len(stack)]
  BY <1>1 DEF Looking, Top
<1>4. n \in Nat /\ k \in Counters
  BY <1>1 DEF Smaller, AddrRange, Counters
<1>5. \A d \in Levels :
        /\ st[d]["LOAD"] = stats[d]["LOAD"]
        /\ st[d]["HIT"] = IF d = c /\ k = "HIT" THEN Counted(stats[c]["HIT"], n) ELSE stats[d]["HIT"]
        /\ st[d]["MISS"] = IF d = c /\ k = "MISS" THEN Counted(stats[c]["MISS"], n) ELSE stats[d]["MISS"]
  <2> HIDE DEF c, n
  <2> QED BY <1>1, <1>4, BumpValue DEF TypeOK, Counters, c, n
<1>6. ASSUME NEW d \in Served
      PROVE  st[d]["LOAD"] = Plus(Plus(st[d]["HIT"], st[d]["MISS"]), NothingMore)
  <2>1. d \in Levels
    BY DEF Served
  <2>2. stats[d]["LOAD"] = Plus(Plus(stats[d]["HIT"], stats[d]["MISS"]), Pending(stack, d))
    BY DEF LoadsInv, LoadsCounted
  <2>3. CASE d = c
    <3>1. n = Top.range.length
      <4>1. Top.range.length <= TopLine
        BY <1>1, <1>2, <2>3 DEF Fit, Loading
      <4> QED BY <1>1, <4>1 DEF Smaller, AddrRange
    <3>2. Pending(stack, d) = [count |-> 1, byte |-> n]
      BY <1>3, <2>3, <3>1 DEF Pending
    <3>3. stats[d]["HIT"] \in Counter /\ stats[d]["MISS"] \in Counter
      BY <2>1, CounterRecords DEF TypeOK, Counters
    <3> HIDE DEF n, c
    <3> QED BY <1>4, <1>5, <2>1, <2>2, <2>3, <3>2, <3>3, CountPending
  <2>4. CASE d # c
    <3>1. Pending(stack, d) = NothingMore
      BY <1>3, <2>4 DEF Pending
    <3> HIDE DEF n, c
    <3> QED BY <1>5, <2>1, <2>2, <2>4, <3>1
  <2> QED BY <2>3, <2>4
<1>7. ASSUME NEW d \in HitOnly
      PROVE  st[d]["MISS"] = NothingMore
  <2>1. d \in Levels /\ stats[d]["MISS"] = NothingMore
    BY DEF HitOnly, LoadsInv, NeverMissing
  <2> HIDE DEF n, c
  <2> QED BY <1>5, <2>1 DEF c
<1> QED BY <1>6, <1>7 DEF Balanced

LEMMA LoadHitCounts ==
  ASSUME TypeOK, TypeOK', LoadsInv, LoadHit
  PROVE  LoadsInv'
<1>1. /\ stack # <<>> /\ Top \in Frame /\ Top.fn = "load" /\ Top.c \in Levels /\ Top.cl \in Nat
      /\ stats' = Bump(stats, Top.c, "HIT", Smaller(TopLine, Top.range.length))
  BY TopType DEF LoadHit
<1>2. PICK w \in Nat : stack' = Continue([Top EXCEPT !.cl = @ + 1, !.loc = w])
  <2>1. 0 \in Nat /\ Cache[Top.c].ways - 1 \in Nat
    BY <1>1, CacheType
  <2> QED BY <2>1 DEF LoadHit
<1> DEFINE g == [Top EXCEPT !.cl = @ + 1, !.loc = w]
<1>3. g \in Frame
  BY <1>1, <1>2, FrameSteps
<1>4. g.fn = "load" /\ g.c = Top.c /\ g.cl = Top.cl + 1 /\ g.range = Top.range /\ g.loc = w
  BY <1>1, FrameFields
<1> HIDE DEF g
<1>5. Fit(Top) /\ FramesFit(stack)
  BY <1>1, TopFit DEF LoadsInv
<1>6. Fit(g) /\ Done(g) /\ HasWay(g)
  BY <1>1, <1>2, <1>4, <1>5, NextFit DEF Loading
<1>7. Steady(stack')
  BY <1>1, <1>2, <1>3, <1>4, <1>5, <1>6, ContinueSteady DEF Loading, g
<1>8. Balanced(stats')
  <2>1. stats' \in CounterTable
    BY DEF TypeOK
  <2> QED BY <1>1, <2>1, LookupBalances DEF LoadHit
<1> QED BY <1>7, <1>8, RestCounts

\* On a miss a whole line is asked for, of a victim cache only if it is there.
LEMMA LoadMissCounts ==
  ASSUME TypeOK, TypeOK', LoadsInv, LoadMiss
  PROVE  LoadsInv'
<1> DEFINE c       == Top.c
           k       == Cache[c]
           victims == Cache[c].victims_to
           hit     == victims # None /\ Location(victims, Top.cl) # -1
           source  == IF hit THEN victims ELSE Cache[c].load_from
           range   == LineRange(c, Top.cl)
           st      == Bump(stats, c, "MISS", Smaller(TopLine, Top.range.length))
           g       == [Top EXCEPT !.fn = "fill"]
<1>1. /\ stack # <<>> /\ Top \in Frame /\ Top.fn = "load" /\ c \in Levels /\ Top.cl \in Nat
      /\ Top.cl <= LastCl(c, Top.range) /\ Running("load") /\ Top.range \in AddrRange
      /\ TopLine \in Nat
  BY TopType DEF LoadMiss
<1>2. Fetch(source, range, st, Continue(g)) /\ Location(c, Top.cl) = -1 /\ UNCHANGED placement
  BY DEF LoadMiss
<1>3. c \notin HitOnly
  <2>1. Looking(stack, c) /\ Top = stack[Len(stack)]
    BY <1>1 DEF Looking, Top
  <2> QED BY <1>2, <2>1 DEF LoadsInv, NeverMissing
<1>4. g \in Frame
  BY <1>1, FrameSteps
<1>5. g.fn = "fill" /\ g.c = c /\ g.cl = Top.cl /\ g.range = Top.range /\ g.loc = Top.loc
  BY <1>1, FrameFields
<1>6. st \in CounterTable
  <2>1. Smaller(TopLine, Top.range.length) \in Nat
    BY <1>1 DEF Smaller, AddrRange
  <2> QED BY <1>1, <2>1, BumpType DEF TypeOK, Counters
<1>7. Balanced(st)
  BY <1>1, <1>3, <1>6, LookupBalances
<1>8. Steady(Continue(g)) /\ Continue(g) \in Seq(Frame)
  <2>1. Fit(Top) /\ FramesFit(stack)
    BY <1>1, TopFit DEF LoadsInv
  <2>2. Fit(g) /\ Done(g) /\ HasWay(g)
    <3> HIDE DEF g
    <3> QED BY <1>1, <1>3, <1>5, <2>1 DEF Fit, Done, HasWay, Loading
  <2> HIDE DEF g
  <2> QED BY <1>1, <1>4, <1>5, <2>1, <2>2, ContinueSteady DEF Loading
<1> HIDE DEF g, st, range
<1>9. CASE source = None
  <2>1. stats' = st /\ stack' = Continue(g)
    BY <1>2, <1>9 DEF Fetch
  <2> QED BY <1>7, <1>8, <2>1, RestCounts
<1>10. CASE source # None
  <2> DEFINE l == LoadCall(source, range)
  <2>1. /\ stats' = Bump(st, source, "LOAD", range.length)
        /\ stack' = Append(Continue(g), l)
    BY <1>2, <1>10 DEF Fetch
  <2>2. source \in Levels /\ c < source /\ LoadsFrom(c, source)
    BY <1>1, <1>10, LinksLeadDown DEF LoadsFrom
  <2>3. range \in AddrRange
    BY <1>1, GeometryType DEF range
  <2>4. l \in Frame
    BY <2>2, <2>3, CallFrames
  <2>5. l.fn = "load" /\ l.c = source /\ l.cl = ClId(source, range.addr) /\ l.range = range /\ l.loc = -1
    BY DEF LoadCall
  <2>6. /\ ClId(source, range.addr) <= LastCl(source, range)
        /\ ClId(source, range.addr) \in Nat
    BY <1>1, <2>2, <2>3, LineAsked, ClIdType DEF range, AddrRange
  <2>7. Fit(l) /\ HasWay(l)
    <3>1. source \in Served =>
            LastCl(source, range) <= ClId(source, range.addr) /\ range.length <= Cache[source].cl_size
      <4>1. source \in Served => Widens(c, source)
        BY <1>1, <2>2 DEF Served
      <4>2. source \in Served => LastCl(source, range) = ClId(source, range.addr)
                                 /\ range.length <= Cache[source].cl_size
        BY <1>1, <2>2, <4>1, LineInLine DEF range
      <4> QED BY <2>6, <4>2
    <3>2. source \in Whole => range.length >= Cache[source].cl_size
      <4>1. range.length = Cache[c].cl_size
        BY DEF range, LineRange
      <4> QED BY <1>1, <2>2, <4>1 DEF Whole
    <3> HIDE DEF l, source
    <3> QED BY <2>5, <2>6, <3>1, <3>2 DEF Fit, HasWay, Loading
  <2>8. FramesFit(stack') /\ stack' # <<>> /\ stack'[Len(stack')] = l
    <3> HIDE DEF l
    <3>1. FramesFit(Append(Continue(g), l)) /\ Len(Append(Continue(g), l)) = Len(Continue(g)) + 1
          /\ Append(Continue(g), l)[Len(Continue(g)) + 1] = l
      BY <1>8, <2>4, <2>7, PushFits, Pushed
    <3>2. Append(Continue(g), l) # <<>>
      <4>1. Len(Continue(g)) \in Nat /\ Len(<<>>) = 0
        BY <1>8
      <4> QED BY <3>1, <4>1
    <3> QED BY <2>1, <3>1, <3>2
  <2>9. source \in HitOnly => Location(source, ClId(source, range.addr)) # -1
    <3> SUFFICES ASSUME source \in HitOnly PROVE Location(source, ClId(source, range.addr)) # -1
      OBVIOUS
    <3>1. Cache[c].load_from # source /\ source = victims /\ Location(victims, Top.cl) # -1
      BY <1>1 DEF HitOnly
    <3>2. Cache[c].cl_size = Cache[source].cl_size
      BY <1>1, <3>1 DEF HitOnly
    <3>3. ClId(c, range.addr) = Top.cl
      BY <1>1, LineEnd DEF range
    <3>4. ClId(source, range.addr) = Top.cl
      BY <3>2, <3>3 DEF ClId
    <3> QED BY <3>1, <3>4
  <2> HIDE DEF l, source
  <2> QED BY <1>2, <1>6, <1>7, <2>1, <2>2, <2>3, <2>6, <2>8, <2>9, AskCounts DEF l
<1> QED BY <1>9, <1>10

LEMMA AwaitFits ==
  ASSUME NEW st \in Seq(Frame), Steady(st), NEW g \in Frame, NEW l \in Frame,
         g.fn = "write", l.fn = "load", Fit(l)
  PROVE  /\ FramesFit(Append(Append(st, g), l))
         /\ Len(Append(Append(st, g), l)) = Len(st) + 2 /\ Append(Append(st, g), l)[Len(st) + 2] = l
<1> DEFINE n == Len(st)
           q == Append(st, g)
           r == Append(q, l)
<1>1. n \in Nat /\ q \in Seq(Frame) /\ Len(q) = n + 1 /\ (\A i \in 1..n : q[i] = st[i]) /\ q[n + 1] = g
  BY Pushed
<1>2. /\ Len(r) = n + 2 /\ (\A i \in 1..n : r[i] = st[i]) /\ r[n + 1] = g /\ r[n + 2] = l
  <2> HIDE DEF q
  <2>1. Len(r) = Len(q) + 1 /\ (\A i \in 1..Len(q) : r[i] = q[i]) /\ r[Len(q) + 1] = l
    BY <1>1, Pushed
  <2> QED BY <1>1, <2>1
<1> HIDE DEF r, q
<1>3. ASSUME NEW i \in 1..n
      PROVE  Fit(r[i]) /\ Done(r[i]) /\ (HasWay(r[i]) \/ WaitsForLoad(r, i))
  <2>1. Fit(st[i]) /\ Done(st[i]) /\ (HasWay(st[i]) \/ WaitsForLoad(st, i)) /\ r[i] = st[i]
    BY <1>2 DEF Steady
  <2>2. WaitsForLoad(st, i) => WaitsForLoad(r, i)
    <3> SUFFICES ASSUME WaitsForLoad(st, i) PROVE WaitsForLoad(r, i)
      OBVIOUS
    <3>1. i + 1 \in 1..n /\ i + 1 \in 1..n + 2
      BY <1>1 DEF WaitsForLoad
    <3> QED BY <1>2, <2>1, <3>1 DEF WaitsForLoad
  <2> QED BY <2>1, <2>2
<1>4. Fit(r[n + 1]) /\ Done(r[n + 1]) /\ WaitsForLoad(r, n + 1)
  <2>1. n + 1 + 1 \in 1..n + 2 /\ n + 1 + 1 = n + 2
    BY <1>1
  <2> QED BY <1>2, <2>1 DEF Fit, Done, WaitsForLoad, Loading
<1>5. Fit(r[n + 2]) /\ HasWay(r[n + 2])
  BY <1>2 DEF HasWay
<1>6. \A i \in 1..n + 2 : i \in 1..n \/ i = n + 1 \/ (i = n + 2 /\ ~(i < n + 2))
  BY <1>1
<1>7. FramesFit(r)
  BY <1>2, <1>3, <1>4, <1>5, <1>6 DEF FramesFit
<1> QED BY <1>2, <1>7 DEF r, q

\* A write-allocate asks its own cache for a line of that cache.
LEMMA StoreAllocateCounts ==
  ASSUME TypeOK, TypeOK', LoadsInv, StoreAllocate
  PROVE  LoadsInv'
<1> DEFINE c     == Top.c
           range == LineRange(c, Top.cl)
           g     == [Top EXCEPT !.fn = "write"]
           l     == LoadCall(c, range)
<1>1. /\ stack # <<>> /\ Top \in Frame /\ Top.fn = "store" /\ c \in Levels /\ Top.cl \in Nat
      /\ TopLine = Cache[c].cl_size /\ Cache[c].write_allocate
  BY TopType DEF StoreAllocate, Storing, TopLine, Allocating
<1>2. range \in AddrRange /\ range.length = Cache[c].cl_size
      /\ LastCl(c, range) = Top.cl /\ ClId(c, range.addr) = Top.cl
  <2>1. range.length = Cache[c].cl_size
    BY DEF LineRange
  <2> HIDE DEF c
  <2> QED BY <1>1, <2>1, GeometryType, LineEnd
<1>3. g \in Frame /\ g.fn = "write"
  BY <1>1, FrameSteps, FrameFields
<1>4. stats' = Bump(stats, c, "LOAD", range.length) /\ stack' = Append(Append(Callers, g), l)
      /\ UNCHANGED placement
  BY <1>1, <1>2 DEF StoreAllocate, Continue
<1> HIDE DEF range, g
<1>5. l \in Frame
  BY <1>1, <1>2, CallFrames
<1>6. l.fn = "load" /\ l.c = c /\ l.cl = ClId(c, range.addr) /\ l.range = range /\ l.loc = -1
  BY DEF LoadCall
<1>7. Cache[c].cl_size \in Nat
  BY <1>1, CacheType
<1> HIDE DEF l
<1>8. Fit(l)
  BY <1>1, <1>2, <1>6, <1>7 DEF Fit, Loading
<1>9. Steady(Callers) /\ Callers \in Seq(Frame)
  BY <1>1, CallersSteady DEF Loading, LoadsInv
<1>10. FramesFit(stack') /\ stack' # <<>> /\ stack'[Len(stack')] = l
  <2>1. /\ FramesFit(Append(Append(Callers, g), l)) /\ Len(Append(Append(Callers, g), l)) = Len(Callers) + 2
        /\ Append(Append(Callers, g), l)[Len(Callers) + 2] = l
    BY <1>3, <1>5, <1>6, <1>8, <1>9, AwaitFits
  <2>2. Append(Append(Callers, g), l) # <<>>
    BY <1>3, <1>9
  <2> QED BY <1>4, <2>1, <2>2
<1>11. Balanced(stats)
  <2>1. \A d : ~Looking(stack, d)
    BY <1>1 DEF Looking, Top
  <2>2. \A d : Pending(stack, d) = NothingMore
    BY <2>1 DEF Pending
  <2> QED BY <2>2 DEF LoadsInv, LoadsCounted, NeverMissing, Balanced
<1>12. c \notin HitOnly
  BY <1>1 DEF HitOnly
<1> HIDE DEF c
<1>13. ClId(c, range.addr) <= LastCl(c, range)
  BY <1>1, <1>2 DEF c
<1> QED BY <1>1, <1>2, <1>4, <1>10, <1>11, <1>12, <1>13, AskCounts DEF TypeOK, l, c

LEMMA SingleFits ==
  ASSUME NEW f \in Frame, Fit(f), HasWay(f)
  PROVE  FramesFit(<<f>>) /\ (Done(f) => Steady(<<f>>))
<1>1. Len(<<f>>) = 1 /\ <<f>>[1] = f /\ \A i \in 1..1 : i = 1
  OBVIOUS
<1> QED BY <1>1 DEF FramesFit, Steady

\* Between calls no load is under way.
LEMMA IdleBalanced ==
  ASSUME LoadsInv, stack = <<>>
  PROVE  Balanced(stats)
<1>1. \A c : Pending(stack, c) = NothingMore
  BY DEF Pending, Looking
<1> QED BY <1>1 DEF LoadsInv, LoadsCounted, NeverMissing, Balanced

LEMMA IdleCounts ==
  ASSUME TypeOK, TypeOK', LoadsInv, Call \/ WalkStep
  PROVE  LoadsInv'
<1>1. stack = <<>> /\ Balanced(stats) /\ stats \in CounterTable
  BY IdleBalanced DEF Call, Load, Store, StartWalk, Idle, WalkStep, WalkOn, VisitFlush,
     VisitReset, VisitInvalidate, WalkEnd, WalkDone, Visiting, Walking, TypeOK
<1>2. Steady(<<>>)
  BY DEF Steady
<1>3. ASSUME NEW range \in Ranges, Load(range)
      PROVE  LoadsInv'
  <2> DEFINE l == LoadCall(FirstLevel, range)
  <2>1. range \in AddrRange /\ FirstLevel \in Levels
    BY HierarchyAssumption, FirstLevelType
  <2>2. l \in Frame
    BY <2>1, CallFrames
  <2>3. l.fn = "load" /\ l.c = FirstLevel /\ l.cl = ClId(FirstLevel, range.addr) /\ l.range = range
    BY DEF LoadCall
  <2>4. /\ stack' = <<l>> /\ stats' = Bump(stats, FirstLevel, "LOAD", range.length)
        /\ UNCHANGED placement
    BY <1>3 DEF Load
  <2>5. FirstLevel \notin Served /\ FirstLevel \notin HitOnly
    BY DEF Served, HitOnly
  <2>6. ClId(FirstLevel, range.addr) \in Nat
    BY <2>1, ClIdType
  <2> HIDE DEF l
  <2>7. Fit(l) /\ HasWay(l)
    <3>1. FirstLevel \in Whole => range.length >= Cache[FirstLevel].cl_size
      BY DEF Whole
    <3>2. ~(l.cl < l.cl)
      BY <2>3, <2>6
    <3> QED BY <2>3, <2>5, <3>1, <3>2 DEF Fit, HasWay, Loading
  <2>8. FramesFit(stack') /\ stack' # <<>> /\ stack'[Len(stack')] = l
    <3>1. Len(<<l>>) = 1 /\ <<l>>[1] = l /\ <<l>> # <<>>
      OBVIOUS
    <3> QED BY <2>2, <2>4, <2>7, <3>1, SingleFits
  <2> QED BY <1>1, <2>1, <2>4, <2>5, <2>8, AskCounts DEF l
<1>4. ASSUME NEW range \in Ranges, Store(range)
      PROVE  LoadsInv'
  <2> DEFINE f == StoreCall(FirstLevel, range, FALSE)
  <2>1. range \in AddrRange /\ range.length \in Nat /\ FirstLevel \in Levels
    BY HierarchyAssumption, FirstLevelType DEF AddrRange
  <2>2. f \in Frame /\ f.fn = "store"
    BY <2>1, CallFrames DEF StoreCall
  <2>3. stack' = <<f>> /\ stats' = Bump(stats, FirstLevel, "STORE", range.length)
    BY <1>4 DEF Store
  <2> HIDE DEF f
  <2>4. Steady(stack')
    BY <2>2, <2>3, PlainFit, SingleFits DEF Loading
  <2>5. SameLoads(stats')
    BY <1>1, <2>1, <2>3, StoreBumpSame DEF SameLoads
  <2>6. Balanced(stats')
    BY <1>1, <2>5 DEF Balanced, SameLoads, LoadSide, Served, HitOnly
  <2> QED BY <2>4, <2>6, RestCounts
<1>5. CASE VisitFlush
  <2> DEFINE f == FlushCall(Head(walk.pending))
  <2>1. Head(walk.pending) \in Levels
    BY <1>5 DEF VisitFlush, Visiting, TypeOK, WalkState
  <2>2. f \in Frame /\ f.fn = "flush" /\ stack' = <<f>> /\ stats' = stats
    BY <1>5, <2>1, FlushFrame DEF FlushCall, VisitFlush
  <2> HIDE DEF f
  <2>3. Steady(stack')
    BY <2>2, PlainFit, SingleFits DEF Loading
  <2> QED BY <1>1, <2>2, <2>3, RestCounts
<1>6. CASE VisitReset
  <2> DEFINE h == Head(walk.pending)
  <2>1. stack' = <<>> /\ stats' = [stats EXCEPT ![h] = Zero]
    BY <1>1, <1>6 DEF VisitReset
  <2> HIDE DEF h
  <2>2. \A d \in Levels : stats'[d] = IF d = h THEN Zero ELSE stats[d]
    BY <1>1, <2>1 DEF CounterTable
  <2>3. /\ Zero["LOAD"] = Plus(Plus(Zero["HIT"], Zero["MISS"]), NothingMore)
        /\ Zero["MISS"] = NothingMore
    BY DEF Zero, Counters, Plus, NothingMore
  <2>4. Balanced(stats')
    BY <1>1, <2>2, <2>3 DEF Balanced, Served, HitOnly
  <2> QED BY <1>2, <2>1, <2>4, RestCounts
<1>7. CASE stack' = stack /\ stats' = stats
  BY <1>1, <1>2, <1>7, RestCounts
<1>8. \/ \E range \in Ranges : Load(range) \/ Store(range)
      \/ VisitFlush \/ VisitReset
      \/ stack' = stack /\ stats' = stats
  BY DEF Call, StartWalk, WalkStep, WalkOn, VisitInvalidate, WalkEnd
<1> QED BY <1>3, <1>4, <1>5, <1>6, <1>7, <1>8

LEMMA InitCounts == Init => LoadsInv
<1> SUFFICES ASSUME Init PROVE LoadsInv
  OBVIOUS
<1>1. stack = <<>> /\ \A c \in Levels : stats[c] = Zero
  BY DEF Init
<1>2. /\ Zero["LOAD"] = Plus(Plus(Zero["HIT"], Zero["MISS"]), NothingMore)
      /\ Zero["MISS"] = NothingMore
  BY DEF Zero, Counters, Plus, NothingMore
<1>3. \A c : Pending(stack, c) = NothingMore /\ ~Looking(stack, c)
  BY <1>1 DEF Pending, Looking
<1>4. FramesFit(stack)
  BY <1>1 DEF FramesFit
<1> QED BY <1>1, <1>2, <1>3, <1>4 DEF LoadsInv, LoadsCounted, NeverMissing, Served, HitOnly

\* For every hierarchy: what a cache that serves others has counted as loads, less
\* the load about to look up its line, are its hits and misses, and a cache that
\* is only asked for lines it holds has not missed.
LEMMA LoadsStayCounted == Spec => []LoadsInv
<1>1. TypeOK /\ TypeOK' /\ StackInv /\ LoadsInv /\ [Next]_vars => LoadsInv'
  <2> SUFFICES ASSUME TypeOK, TypeOK', StackInv, LoadsInv, [Next]_vars PROVE LoadsInv'
    OBVIOUS
  <2>1. CASE Call \/ WalkStep
    BY <2>1, IdleCounts
  <2>2. CASE LoadHit \/ LoadMiss \/ StoreAllocate
    BY <2>2, LoadHitCounts, LoadMissCounts, StoreAllocateCounts
  <2>3. CASE QuietStep
    BY <2>3, QuietCounts
  <2>4. CASE UNCHANGED vars
    BY <2>4 DEF vars, LoadsInv, LoadsCounted, NeverMissing, Location
  <2> QED BY <2>1, <2>2, <2>3, <2>4
          DEF Next, Step, LoadStep, StoreStep, VictimStep, FlushStep, QuietStep
<1> QED BY <1>1, InitCounts, TypeCorrect, FramesStaySound, PTL DEF Spec

(* Loads are hits or misses. *)

\* Every cache that asks another for its lines asks for at most one line of that
\* one: sizes are powers of two (cache.py:295), and caches further away have lines
\* that are as wide or wider.
LinesWiden == \A c, d \in Levels : LoadsFrom(c, d) => Widens(c, d)

\* Where lines do not get narrower on the way to memory, every load of a lower
\* level has been counted as exactly one hit or one miss, with as many bytes, when a
\* call of the program ends, for every hierarchy and every sequence of calls.
THEOREM LoadsAreHitsOrMisses == LinesWiden => (Spec => []LoadsHitOrMiss)
<1> SUFFICES ASSUME LinesWiden PROVE Spec => []LoadsHitOrMiss
  OBVIOUS
<1>1. Levels \ {FirstLevel} \subseteq Served
  BY DEF LinesWiden, Served
<1>2. TypeOK /\ LoadsInv => LoadsHitOrMiss
  <2> SUFFICES ASSUME TypeOK, LoadsInv, stack = <<>>, NEW c \in Levels \ {FirstLevel}
               PROVE  stats[c]["LOAD"] = Plus(stats[c]["HIT"], stats[c]["MISS"])
    BY DEF LoadsHitOrMiss, Idle
  <2>1. stats[c]["LOAD"] = Plus(Plus(stats[c]["HIT"], stats[c]["MISS"]), NothingMore)
    BY <1>1, IdleBalanced DEF Balanced
  <2>2. stats[c]["HIT"] \in Counter /\ stats[c]["MISS"] \in Counter
    BY CounterRecords DEF TypeOK, Counters
  <2>3. \A x, y \in Counter : Plus(Plus(x, y), NothingMore) = Plus(x, y)
    BY DEF Plus, NothingMore, Counter
  <2> QED BY <2>1, <2>2, <2>3
<1> QED BY <1>2, TypeCorrect, LoadsStayCounted, PTL

\* A victim cache whose lines are as wide as those of the cache above it, to which
\* no other link for loads leads and which does not allocate lines on stores never
\* misses, and its loads are its hits: it is asked only for lines it holds, and
\* between that look-up and its own nothing takes the line away.
THEOREM VictimsOnlyHit == VictimCaches \ {None} \subseteq HitOnly => (Spec => []VictimLoadsHit)
<1> SUFFICES ASSUME VictimCaches \ {None} \subseteq HitOnly PROVE Spec => []VictimLoadsHit
  OBVIOUS
<1>1. TypeOK /\ LoadsInv => VictimLoadsHit
  <2> SUFFICES ASSUME TypeOK, LoadsInv, stack = <<>>, NEW c \in HitOnly
               PROVE  /\ stats[c]["LOAD"] = stats[c]["HIT"]
                      /\ stats[c]["MISS"] = NothingMore
    BY DEF VictimLoadsHit, Idle, NothingMore
  <2>1. /\ stats[c]["LOAD"] = Plus(Plus(stats[c]["HIT"], stats[c]["MISS"]), NothingMore)
        /\ stats[c]["MISS"] = NothingMore
    BY IdleBalanced, HitOnlyServed DEF Balanced
  <2>2. stats[c]["HIT"] \in Counter
    BY CounterRecords DEF TypeOK, Counters, HitOnly
  <2>3. \A x \in Counter : Plus(Plus(x, NothingMore), NothingMore) = x
    BY DEF Plus, NothingMore, Counter
  <2> QED BY <2>1, <2>2, <2>3
<1> QED BY <1>1, TypeCorrect, LoadsStayCounted, PTL

(* The loops over levels(). *)

Closed(S) == \A q \in S : Cache[q].load_from # None => Cache[q].load_from \in S

\* The caches that the links for loads lead to from p on, p among them.
Chain(p) == {q \in Levels : \A S \in SUBSET Levels : p \in S /\ Closed(S) => q \in S}

\* levels() yields the chain of the first level with its victim and store links:
\* here it yields every cache there is.
LevelsReached ==
  \A c \in Levels : \E q \in Chain(FirstLevel) : c \in {q, Cache[q].victims_to, Cache[q].store_to}

OneOf(c, s) == \E i \in 1..Len(s) : s[i] = c

\* What a loop over levels() has still to visit.
ToCome(c) ==
  \/ OneOf(c, walk.pending)
  \/ walk.p # None /\ \E q \in Chain(walk.p) : OneOf(c, Yield(q))

LEMMA ChainStart ==
  ASSUME NEW p \in Levels
  PROVE  p \in Chain(p)
BY DEF Chain

LEMMA ChainClosed ==
  ASSUME NEW p \in Levels
  PROVE  Closed(Chain(p))
<1> SUFFICES ASSUME NEW q \in Chain(p), Cache[q].load_from # None
             PROVE  Cache[q].load_from \in Chain(p)
  BY DEF Closed
<1>1. q \in Levels /\ Cache[q].load_from \in Levels
  BY LinksLeadDown DEF Chain
<1>2. ASSUME NEW S \in SUBSET Levels, p \in S, Closed(S)
      PROVE  Cache[q].load_from \in S
  <2>1. q \in S
    BY <1>2 DEF Chain
  <2> QED BY <1>2, <2>1 DEF Closed
<1> QED BY <1>1, <1>2 DEF Chain

\* The chain is its first cache and the chain of the next one.
LEMMA ChainStep ==
  ASSUME NEW p \in Levels, NEW q \in Chain(p), q # p
  PROVE  Cache[p].load_from # None /\ q \in Chain(Cache[p].load_from)
<1>1. CASE Cache[p].load_from = None
  <2>1. Closed({p}) /\ {p} \in SUBSET Levels
    BY <1>1 DEF Closed
  <2> QED BY <2>1 DEF Chain
<1>2. CASE Cache[p].load_from # None
  <2> DEFINE n == Cache[p].load_from
             S == {p} \cup Chain(n)
  <2>1. n \in Levels
    BY <1>2, LinksLeadDown
  <2>2. n \in Chain(n) /\ Closed(Chain(n)) /\ Chain(n) \subseteq Levels
    BY <2>1, ChainStart, ChainClosed DEF Chain
  <2>3. S \in SUBSET Levels /\ Closed(S) /\ p \in S
    BY <2>2 DEF Closed
  <2> HIDE DEF S
  <2>4. q \in S
    BY <2>3 DEF Chain
  <2> QED BY <1>2, <2>4 DEF S
<1> QED BY <1>1, <1>2

\* levels() yields a cache and those of its links that are not on the chain.
LEMMA YieldsAll ==
  ASSUME NEW q \in Levels, NEW c \in Levels, c \in {q, Cache[q].victims_to, Cache[q].store_to},
         c # Cache[q].load_from
  PROVE  OneOf(c, Yield(q))
<1> DEFINE k == Cache[q]
           s == IF k.victims_to # None /\ k.victims_to # k.load_from THEN <<k.victims_to>> ELSE <<>>
           t == IF k.store_to # None /\ k.store_to # k.load_from /\ k.store_to # k.victims_to
                THEN <<k.store_to>> ELSE <<>>
<1>1. Yield(q) = <<q>> \o s \o t
  BY DEF Yield
<1>2. s \in Seq(Levels) /\ t \in Seq(Levels)
  <2>1. (k.victims_to # None => <<k.victims_to>> \in Seq(Levels)) /\ <<>> \in Seq(Levels)
    BY LinksLeadDown
  <2>2. k.store_to # None => <<k.store_to>> \in Seq(Levels)
    BY LinksLeadDown
  <2> QED BY <2>1, <2>2
<1>3. c # None
  BY DEF Levels, None
<1>4. c = q \/ OneOf(c, s) \/ OneOf(c, t)
  <2>1. c = k.victims_to => OneOf(c, s)
    <3> SUFFICES ASSUME c = k.victims_to PROVE OneOf(c, s)
      OBVIOUS
    <3>1. s = <<c>>
      BY <1>3
    <3> QED BY <3>1 DEF OneOf
  <2>2. c = k.store_to /\ c # k.victims_to => OneOf(c, t)
    <3> SUFFICES ASSUME c = k.store_to, c # k.victims_to PROVE OneOf(c, t)
      OBVIOUS
    <3>1. t = <<c>>
      BY <1>3
    <3> QED BY <3>1 DEF OneOf
  <2> HIDE DEF s, t
  <2> QED BY <2>1, <2>2
<1> HIDE DEF s, t
<1>5. ASSUME NEW u \in Seq(Levels), NEW v \in Seq(Levels), OneOf(c, u) \/ OneOf(c, v)
      PROVE  OneOf(c, u \o v)
  <2>1. /\ u \o v \in Seq(Levels) /\ Len(u \o v) = Len(u) + Len(v) /\ Len(u) \in Nat /\ Len(v) \in Nat
        /\ \A i \in 1..Len(u) : (u \o v)[i] = u[i]
        /\ \A i \in 1..Len(v) : (u \o v)[Len(u) + i] = v[i]
    OBVIOUS
  <2>2. CASE OneOf(c, u)
    <3>1. PICK i \in 1..Len(u) : u[i] = c
      BY <2>2 DEF OneOf
    <3>2. i \in 1..Len(u \o v)
      BY <2>1, <3>1
    <3> QED BY <2>1, <3>1, <3>2 DEF OneOf
  <2>3. CASE OneOf(c, v)
    <3>1. PICK i \in 1..Len(v) : v[i] = c
      BY <2>3 DEF OneOf
    <3>2. Len(u) + i \in 1..Len(u \o v)
      BY <2>1, <3>1
    <3> QED BY <2>1, <3>1, <3>2 DEF OneOf
  <2> QED BY <1>5, <2>2, <2>3
<1>6. <<q>> \in Seq(Levels) /\ (c = q => OneOf(c, <<q>>))
  BY DEF OneOf
<1>7. <<q>> \o s \in Seq(Levels)
  BY <1>2, <1>6
<1>8. CASE c = q \/ OneOf(c, s)
  <2>1. OneOf(c, <<q>> \o s)
    BY <1>2, <1>5, <1>6, <1>8
  <2> QED BY <1>1, <1>2, <1>5, <1>7, <2>1
<1>9. CASE OneOf(c, t)
  BY <1>1, <1>2, <1>5, <1>7, <1>9
<1> QED BY <1>4, <1>8, <1>9

\* A loop that starts has every cache to come.
LEMMA AllToCome ==
  ASSUME LevelsReached, NEW c \in Levels
  PROVE  \E q \in Chain(FirstLevel) : OneOf(c, Yield(q))
<1>1. PICK q \in Chain(FirstLevel) : c \in {q, Cache[q].victims_to, Cache[q].store_to}
  BY DEF LevelsReached
<1>2. q \in Levels
  BY DEF Chain
<1>3. CASE c # Cache[q].load_from
  BY <1>1, <1>2, <1>3, YieldsAll
<1>4. CASE c = Cache[q].load_from
  <2>1. c # None
    BY DEF Levels, None
  <2>2. c \in Chain(FirstLevel)
    BY <1>4, <2>1, ChainClosed, FirstLevelType DEF Closed
  <2>3. c # Cache[c].load_from
    <3>1. Cache[c].load_from # None => c < Cache[c].load_from
      BY LinksLeadDown
    <3>2. c \in Nat /\ ~(c < c)
      BY DEF Levels
    <3> QED BY <2>1, <3>1, <3>2
  <2> QED BY <2>2, <2>3, YieldsAll
<1> QED BY <1>3, <1>4

\* The loop takes the next cache of the chain, and visits what that yields.
LEMMA GoesOn ==
  ASSUME TypeOK, WalkOn, NEW c \in Levels, ToCome(c)
  PROVE  ToCome(c)'
<1>1. walk.p \in Levels /\ walk.pending = <<>>
  BY DEF WalkOn, TypeOK, WalkState
<1>2. walk'.pending = Yield(walk.p) /\ walk'.p = Cache[walk.p].load_from
  BY DEF WalkOn, TypeOK, WalkState
<1>3. ~OneOf(c, walk.pending)
  BY <1>1 DEF OneOf
<1>4. PICK q \in Chain(walk.p) : OneOf(c, Yield(q))
  BY <1>3 DEF ToCome
<1>5. q # walk.p => walk'.p # None /\ q \in Chain(walk'.p)
  BY <1>1, <1>2, ChainStep
<1> QED BY <1>2, <1>4, <1>5 DEF ToCome

LEMMA VisitsHead ==
  ASSUME TypeOK, walk.pending # <<>>, walk' = Visited, NEW c \in Levels, ToCome(c),
         c # Head(walk.pending)
  PROVE  ToCome(c)'
<1> DEFINE s == walk.pending
<1>1. s \in Seq(Levels)
  BY DEF TypeOK, WalkState
<1>2. walk'.pending = Tail(s) /\ walk'.p = walk.p
  BY DEF Visited, TypeOK, WalkState
<1>3. ASSUME OneOf(c, s)
      PROVE  OneOf(c, Tail(s))
  <2>1. PICK i \in 1..Len(s) : s[i] = c
    BY <1>3 DEF OneOf
  <2> HIDE DEF s
  <2>2. i # 1
    BY <2>1 DEF s
  <2>3. /\ Len(Tail(s)) = Len(s) - 1 /\ Len(s) \in Nat
        /\ \A j \in 1..Len(s) - 1 : Tail(s)[j] = s[j + 1]
    BY <1>1 DEF s
  <2>4. i - 1 \in 1..Len(s) - 1 /\ i - 1 + 1 = i
    BY <2>2, <2>3
  <2>5. i - 1 \in 1..Len(Tail(s)) /\ Tail(s)[i - 1] = c
    BY <2>1, <2>3, <2>4
  <2> QED BY <2>5 DEF OneOf
<1> QED BY <1>2, <1>3 DEF ToCome

\* Nothing is to come when the loop ends.
LEMMA NothingToCome ==
  ASSUME WalkDone, NEW c
  PROVE  ~ToCome(c)
BY DEF WalkDone, ToCome, OneOf

\* The slots of cache c hold nothing.
Emptied(c) == \A s \in Sets(c) : \A w \in Ways(c) : placement[c][s][w].invalid

\* A loop that resets counters or invalidates lines has left no cache out.
SweptOrToCome ==
  /\ walk.job \in {"reset_stats", "mark_all_invalid"} => stack = <<>>
  /\ walk.job = "reset_stats" => \A c \in Levels : stats[c] = Zero \/ ToCome(c)
  /\ walk.job = "mark_all_invalid" => \A c \in Levels : Emptied(c) \/ ToCome(c)

LEMMA RunningHasStack ==
  ASSUME RunningStep
  PROVE  stack # <<>>
BY DEF RunningStep, LoadStep, StoreStep, VictimStep, FlushStep, LoadHit, LoadMiss, LoadFill,
   LoadReturn, StoreAllocate, StoreInject, StoreLookup, Storing, StoreDirty, StoreForward,
   StoreReturn, InjectVictim, CreditVictim, FlushSlot, FlushClean, FlushReturn, Running

\* The cache that is visited is swept, and the others stay as they are.
LEMMA ResetSweeps ==
  ASSUME TypeOK, VisitReset, NEW c \in Levels
  PROVE  stats'[c] = IF c = Head(walk.pending) THEN Zero ELSE stats[c]
BY DEF VisitReset, TypeOK, CounterTable

LEMMA InvalidateSweeps ==
  ASSUME TypeOK, VisitInvalidate, NEW c \in Levels
  PROVE  c = Head(walk.pending) \/ Emptied(c) => Emptied(c)'
<1> DEFINE h == Head(walk.pending)
<1>1. ASSUME c = h, NEW s \in Sets(c), NEW w \in Ways(c)
      PROVE  placement'[c][s][w].invalid
  <2>1. placement' = [placement EXCEPT ![h] =
          [t \in DOMAIN placement[h] |-> [v \in DOMAIN placement[h][t] |->
             [placement[h][t][v] EXCEPT !.invalid = TRUE]]]]
    BY DEF VisitInvalidate
  <2>2. /\ placement = [x \in Levels |-> placement[x]]
        /\ placement[c] \in [Sets(c) -> [Ways(c) -> Entry]]
    BY DEF TypeOK, PlacementOK
  <2>3. placement'[c][s][w] = [placement[c][s][w] EXCEPT !.invalid = TRUE]
    BY <1>1, <2>1, <2>2
  <2>4. placement[c][s][w] \in Entry
    BY <2>2
  <2>5. \A e \in Entry : [e EXCEPT !.invalid = TRUE].invalid
    BY DEF Entry
  <2> QED BY <2>3, <2>4, <2>5
<1>2. ASSUME Emptied(c)
      PROVE  Emptied(c)'
  BY <1>2, Invalidated DEF Emptied
<1> QED BY <1>1, <1>2 DEF Emptied

LEMMA WalkSweeps ==
  ASSUME TypeOK, LevelsReached, SweptOrToCome, WalkStep
  PROVE  SweptOrToCome'
<1>0. stack = <<>> /\ walk \in WalkState
  BY DEF WalkStep, WalkOn, VisitFlush, VisitReset, VisitInvalidate, WalkEnd, WalkDone,
     Visiting, Walking, TypeOK
<1>1. CASE WalkOn
  <2>1. walk'.job = walk.job /\ UNCHANGED <<stack, stats, placement>>
    BY <1>0, <1>1 DEF WalkOn, WalkState
  <2>2. \A c \in Levels : Emptied(c)' <=> Emptied(c)
    BY <2>1 DEF Emptied
  <2> QED BY <1>1, <2>1, <2>2, GoesOn DEF SweptOrToCome
<1>2. CASE VisitFlush
  <2>1. walk'.job = "force_write_back"
    BY <1>0, <1>2 DEF VisitFlush, Visiting, Visited, WalkState
  <2> QED BY <2>1 DEF SweptOrToCome
<1>3. CASE VisitReset
  <2>1. /\ walk'.job = "reset_stats" /\ walk.job = "reset_stats" /\ stack' = stack
        /\ walk.pending # <<>> /\ walk' = Visited
    BY <1>0, <1>3 DEF VisitReset, Visiting, Visited, WalkState
  <2>2. \A c \in Levels : stats'[c] = Zero \/ ToCome(c)'
    BY <1>3, <2>1, ResetSweeps, VisitsHead DEF SweptOrToCome
  <2> QED BY <1>0, <2>1, <2>2 DEF SweptOrToCome
<1>4. CASE VisitInvalidate
  <2>1. /\ walk'.job = "mark_all_invalid" /\ walk.job = "mark_all_invalid" /\ stack' = stack
        /\ walk.pending # <<>> /\ walk' = Visited
    BY <1>0, <1>4 DEF VisitInvalidate, Visiting, Visited, WalkState
  <2>2. \A c \in Levels : Emptied(c)' \/ ToCome(c)'
    BY <1>4, <2>1, InvalidateSweeps, VisitsHead DEF SweptOrToCome
  <2> QED BY <1>0, <2>1, <2>2 DEF SweptOrToCome
<1>5. CASE WalkEnd
  <2>1. stack' = <<>>
    BY <1>0, <1>5 DEF WalkEnd
  <2>2. CASE walk.job = "mark_all_invalid"
    <3>1. walk'.job = "reset_stats" /\ walk'.p = FirstLevel
      BY <1>0, <1>5, <2>2 DEF WalkEnd, WalkState
    <3>2. FirstLevel # None
      BY DEF FirstLevel, None
    <3>3. \A c \in Levels : ToCome(c)'
      BY <3>1, <3>2, AllToCome DEF ToCome
    <3> QED BY <2>1, <3>1, <3>3 DEF SweptOrToCome
  <2>3. CASE walk.job # "mark_all_invalid"
    <3>1. walk'.job = "none"
      BY <1>0, <1>5, <2>3 DEF WalkEnd, WalkState
    <3> QED BY <3>1 DEF SweptOrToCome
  <2> QED BY <2>2, <2>3
<1> QED BY <1>1, <1>2, <1>3, <1>4, <1>5 DEF WalkStep

LEMMA StaysSwept == LevelsReached => (Spec => []SweptOrToCome)
<1> SUFFICES ASSUME LevelsReached PROVE Spec => []SweptOrToCome
  OBVIOUS
<1>1. Init => SweptOrToCome
  BY DEF Init, SweptOrToCome
<1>2. TypeOK /\ SweptOrToCome /\ [Next]_vars => SweptOrToCome'
  <2> SUFFICES ASSUME TypeOK, SweptOrToCome, [Next]_vars PROVE SweptOrToCome'
    OBVIOUS
  <2>1. CASE RunningStep
    <3>1. walk' = walk /\ stack # <<>>
      BY <2>1, StepOwes, RunningHasStack
    <3> QED BY <3>1 DEF SweptOrToCome
  <2>2. ASSUME NEW job \in Jobs, StartWalk(job)
        PROVE  SweptOrToCome'
    <3>1. walk'.p = FirstLevel /\ FirstLevel # None /\ stack' = <<>>
      BY <2>2 DEF StartWalk, Idle, FirstLevel, None
    <3>2. \A c \in Levels : ToCome(c)'
      BY <3>1, AllToCome DEF ToCome
    <3> QED BY <3>1, <3>2 DEF SweptOrToCome
  <2>3. ASSUME NEW range \in Ranges, Load(range) \/ Store(range)
        PROVE  SweptOrToCome'
    <3>1. walk'.job = "none"
      BY <2>3 DEF Load, Store, Idle
    <3> QED BY <3>1 DEF SweptOrToCome
  <2>4. CASE WalkStep
    BY <2>4, WalkSweeps
  <2>5. CASE UNCHANGED vars
    <3>1. \A c \in Levels : (Emptied(c)' <=> Emptied(c)) /\ (ToCome(c)' <=> ToCome(c))
      BY <2>5 DEF vars, Emptied, ToCome
    <3> QED BY <2>5, <3>1 DEF vars, SweptOrToCome
  <2> QED BY <2>1, <2>2, <2>3, <2>4, <2>5 DEF Next, Step, RunningStep, Call
<1> QED BY <1>1, <1>2, TypeCorrect, PTL DEF Spec

\* Where every cache is on the chain of load links from the first level, or a victim
\* cache or store target of one that is, reset_stats leaves no counter of any cache
\* as it was: the conditions in levels() that avoid visiting a cache twice leave
\* none out.
THEOREM EveryCounterIsReset == LevelsReached => (Spec => ResetReachesAll)
<1> SUFFICES ASSUME LevelsReached PROVE Spec => ResetReachesAll
  OBVIOUS
<1>1. SweptOrToCome => [WalkEnd /\ walk.job = "reset_stats" => \A c \in Levels : stats[c] = Zero]_vars
  BY NothingToCome DEF SweptOrToCome, WalkEnd
<1> QED BY <1>1, StaysSwept, PTL DEF ResetReachesAll

\* In the same hierarchies mark_all_invalid leaves no valid line in any cache.
THEOREM EveryLineIsInvalidated == LevelsReached => (Spec => InvalidateReachesAll)
<1> SUFFICES ASSUME LevelsReached PROVE Spec => InvalidateReachesAll
  OBVIOUS
<1>1. SweptOrToCome => [WalkEnd /\ walk.job = "mark_all_invalid" => AllInvalid]_vars
  BY NothingToCome DEF SweptOrToCome, WalkEnd, AllInvalid, Emptied
<1> QED BY <1>1, StaysSwept, PTL DEF InvalidateReachesAll

(* Sums over sets of caches: FiniteSetsExt takes the elements one by one. *)

Pick(s) == CHOOSE x \in s : TRUE

\* Function g gives for every subset of S the sum of F over it.
Sums(g, F, S) ==
  g = [s \in SUBSET S |-> IF s = {} THEN 0 ELSE F[Pick(s)] + g[s \ {Pick(s)}]]

LEMMA PickOne ==
  ASSUME NEW s, s # {}
  PROVE  Pick(s) \in s
BY DEF Pick

\* The subsets of a finite set, smaller ones first.
LEMMA SmallerSubsets ==
  ASSUME NEW S, IsFiniteSet(S), NEW T \in SUBSET S, T # {}
  PROVE  /\ Cardinality(T) \in Nat /\ Cardinality(T) # 0 /\ Cardinality(T) <= Cardinality(S)
         /\ T \ {Pick(T)} \in SUBSET S
         /\ Cardinality(T \ {Pick(T)}) = Cardinality(T) - 1
<1>1. IsFiniteSet(T) /\ Cardinality(T) <= Cardinality(S)
  BY FS_Subset
<1>2. Cardinality(T) \in Nat /\ Cardinality(T) # 0
  BY <1>1, FS_CardinalityType, FS_EmptySet
<1>3. Cardinality(T \ {Pick(T)}) = Cardinality(T) - 1
  BY <1>1, PickOne, FS_RemoveElement
<1> QED BY <1>1, <1>2, <1>3

LEMMA SumExists ==
  ASSUME NEW S, IsFiniteSet(S), NEW F
  PROVE  \E g : Sums(g, F, S)
<1> DEFINE Sub(n)  == {s \in SUBSET S : Cardinality(s) <= n}
           Next_(g, s) == IF s = {} THEN 0 ELSE F[Pick(s)] + g[s \ {Pick(s)}]
           Good(n) == \E g : g = [s \in Sub(n) |-> Next_(g, s)]
           bad     == {n \in Nat : ~Good(n)}
<1>1. Good(0)
  <2>1. \A s \in Sub(0) : s = {}
    <3> SUFFICES ASSUME NEW s \in SUBSET S, Cardinality(s) <= 0, s # {} PROVE FALSE
      OBVIOUS
    <3>1. Cardinality(s) \in Nat /\ Cardinality(s) # 0
      BY SmallerSubsets
    <3> QED BY <3>1
  <2> DEFINE g == [s \in Sub(0) |-> 0]
  <2>2. g = [s \in Sub(0) |-> Next_(g, s)]
    BY <2>1
  <2> QED BY <2>2
<1>2. ASSUME NEW n \in Nat, Good(n)
      PROVE  Good(n + 1)
  <2>1. PICK g : g = [s \in Sub(n) |-> Next_(g, s)]
    BY <1>2
  <2> DEFINE h == [s \in Sub(n + 1) |-> Next_(g, s)]
  <2>2. ASSUME NEW s \in Sub(n + 1), s # {}
        PROVE  s \ {Pick(s)} \in Sub(n) /\ s \ {Pick(s)} \in Sub(n + 1)
    <3>1. s \in SUBSET S /\ Cardinality(s) <= n + 1
      OBVIOUS
    <3>2. Cardinality(s) \in Nat /\ Cardinality(s \ {Pick(s)}) = Cardinality(s) - 1
          /\ s \ {Pick(s)} \in SUBSET S
      BY <2>2, <3>1, SmallerSubsets
    <3> QED BY <3>1, <3>2
  <2>3. \A s \in Sub(n) : g[s] = Next_(g, s)
    BY <2>1
  <2>4. \A s \in Sub(n + 1) : h[s] = Next_(g, s)
    OBVIOUS
  <2>5. ASSUME NEW s \in Sub(n + 1)
        PROVE  Next_(g, s) = Next_(h, s)
    <3>1. CASE s = {}
      BY <3>1
    <3>2. CASE s # {}
      <4>1. h[s \ {Pick(s)}] = Next_(g, s \ {Pick(s)}) /\ g[s \ {Pick(s)}] = Next_(g, s \ {Pick(s)})
        <5> HIDE DEF h, Sub, Next_
        <5> QED BY <2>2, <2>3, <2>4, <3>2
      <4>2. h[s \ {Pick(s)}] = g[s \ {Pick(s)}]
        BY <4>1
      <4> HIDE DEF h
      <4> QED BY <3>2, <4>2
    <3> QED BY <3>1, <3>2
  <2>6. h = [s \in Sub(n + 1) |-> Next_(h, s)]
    <3>1. [s \in Sub(n + 1) |-> Next_(g, s)] = [s \in Sub(n + 1) |-> Next_(h, s)]
      <4> HIDE DEF h, Sub, Next_
      <4> QED BY <2>5
    <3> QED BY <3>1
  <2> QED BY <2>6
<1>3. bad = {}
  <2> SUFFICES ASSUME bad # {} PROVE FALSE
    OBVIOUS
  <2>1. bad \in SUBSET Nat
    OBVIOUS
  <2>2. PICK m \in bad : \A x \in bad : m <= x
    <3> HIDE DEF bad
    <3> QED BY <2>1, LeastElement
  <2>3. m \in Nat /\ ~Good(m)
    OBVIOUS
  <2>4. m # 0
    <3> HIDE DEF Good
    <3> QED BY <1>1, <2>3
  <2>5. m - 1 \in Nat /\ m - 1 + 1 = m /\ ~(m <= m - 1)
    BY <2>3, <2>4
  <2>6. Good(m - 1)
    <3> HIDE DEF Good
    <3> QED BY <2>2, <2>5
  <2> HIDE DEF Good
  <2> QED BY <1>2, <2>3, <2>5, <2>6
<1>4. Good(Cardinality(S))
  <2>1. Cardinality(S) \in Nat
    BY FS_CardinalityType
  <2> HIDE DEF Good
  <2> QED BY <1>3, <2>1
<1>5. Sub(Cardinality(S)) = SUBSET S
  BY FS_Subset
<1>6. PICK g : g = [s \in SUBSET S |-> Next_(g, s)]
  <2> HIDE DEF Next_, Sub
  <2> QED BY <1>4, <1>5
<1> QED BY <1>6 DEF Sums

\* Functions F and G differ in one place.
Differ(F, G, S, c, d) ==
  \A x \in S : F[x] \in Int /\ G[x] = F[x] + (IF x = c THEN d ELSE 0)

\* Their sums differ by as much.
LEMMA SumChange ==
  ASSUME NEW S, IsFiniteSet(S), NEW F, NEW G, NEW c, NEW d \in Int, Differ(F, G, S, c, d),
         NEW g, NEW h, Sums(g, F, S), Sums(h, G, S), NEW T \in SUBSET S
  PROVE  g[T] \in Int /\ h[T] = g[T] + (IF c \in T THEN d ELSE 0)
<1> DEFINE Right(s) == g[s] \in Int /\ h[s] = g[s] + (IF c \in s THEN d ELSE 0)
           wrong == {Cardinality(s) : s \in {s \in SUBSET S : ~Right(s)}}
<1>1. \A s \in SUBSET S : Cardinality(s) \in Nat
  BY FS_Subset, FS_CardinalityType
<1>2. /\ \A s \in SUBSET S : g[s] = IF s = {} THEN 0 ELSE F[Pick(s)] + g[s \ {Pick(s)}]
      /\ \A s \in SUBSET S : h[s] = IF s = {} THEN 0 ELSE G[Pick(s)] + h[s \ {Pick(s)}]
  BY DEF Sums
<1>3. Right({})
  <2>1. g[{}] = 0 /\ h[{}] = 0 /\ c \notin {}
    BY <1>2
  <2> QED BY <2>1
<1>4. ASSUME NEW s \in SUBSET S, s # {}, Right(s \ {Pick(s)})
      PROVE  Right(s)
  <2> DEFINE x == Pick(s)
             r == s \ {Pick(s)}
  <2>1. x \in s /\ x \in S /\ r \in SUBSET S
    BY <1>4, PickOne
  <2>2. g[s] = F[x] + g[r] /\ h[s] = G[x] + h[r]
    BY <1>2, <1>4
  <2>3. g[r] \in Int /\ h[r] = g[r] + (IF c \in r THEN d ELSE 0)
    BY <1>4
  <2>4. F[x] \in Int /\ G[x] = F[x] + (IF x = c THEN d ELSE 0)
    BY <2>1 DEF Differ
  <2>5. c \in s <=> (x = c \/ c \in r)
    BY <2>1
  <2>6. ~(x = c /\ c \in r)
    OBVIOUS
  <2> HIDE DEF x, r
  <2> QED BY <2>2, <2>3, <2>4, <2>5, <2>6
<1>5. wrong = {}
  <2> SUFFICES ASSUME wrong # {} PROVE FALSE
    OBVIOUS
  <2> HIDE DEF Right
  <2>1. wrong \in SUBSET Nat
    BY <1>1
  <2>2. PICK m \in wrong : \A n \in wrong : m <= n
    <3> HIDE DEF wrong
    <3> QED BY <2>1, LeastElement
  <2>3. PICK s \in SUBSET S : ~Right(s) /\ m = Cardinality(s)
    BY <2>2
  <2>4. s # {}
    BY <1>3, <2>3
  <2>5. s \ {Pick(s)} \in SUBSET S /\ Cardinality(s \ {Pick(s)}) = m - 1 /\ m \in Nat
    BY <2>3, <2>4, SmallerSubsets
  <2>6. ~(m <= m - 1)
    BY <2>5
  <2>7. Right(s \ {Pick(s)})
    BY <2>2, <2>5, <2>6
  <2> QED BY <1>4, <2>3, <2>4, <2>7
<1>6. Right(T)
  <2> HIDE DEF Right
  <2> QED BY <1>5
<1> QED BY <1>6

\* The total of a counter in table st.
TotalOf(st, S, k) ==
  [count |-> MapThenSumSet(LAMBDA c : st[c][k].count, S),
   byte  |-> MapThenSumSet(LAMBDA c : st[c][k].byte, S)]

Counts(st, k) == [c \in Levels |-> st[c][k].count]
Sizes(st, k)  == [c \in Levels |-> st[c][k].byte]

LEMMA LevelsFinite ==
  ASSUME NEW S \in SUBSET Levels
  PROVE  IsFiniteSet(S)
<1>1. IsFiniteSet(1..NumLevels)
  BY HierarchyAssumption, FS_Interval
<1> QED BY <1>1, FS_Subset DEF Levels

LEMMA TotalSums ==
  ASSUME NEW st, NEW S \in SUBSET Levels, NEW k
  PROVE  /\ \E g : Sums(g, Counts(st, k), S) /\ TotalOf(st, S, k).count = g[S]
         /\ \E g : Sums(g, Sizes(st, k), S) /\ TotalOf(st, S, k).byte = g[S]
<1>1. \A s \in SUBSET S : s # {} => Pick(s) \in Levels
  BY PickOne
<1>2. \E g : Sums(g, Counts(st, k), S) /\ TotalOf(st, S, k).count = g[S]
  <2> DEFINE F == Counts(st, k)
             P(g) == g = [s \in SUBSET S |-> IF s = {} THEN 0
                                             ELSE st[Pick(s)][k].count + g[s \ {Pick(s)}]]
             h == CHOOSE g : P(g)
  <2>1. TotalOf(st, S, k).count = h[S]
    BY Zenon DEF TotalOf, MapThenSumSet, MapThenFoldSet, Pick
  <2>2. \A s \in SUBSET S : s # {} => F[Pick(s)] = st[Pick(s)][k].count
    BY <1>1 DEF Counts
  <2>3. ASSUME NEW g
        PROVE  P(g) <=> Sums(g, F, S)
    <3> DEFINE u(s) == IF s = {} THEN 0 ELSE st[Pick(s)][k].count + g[s \ {Pick(s)}]
               v(s) == IF s = {} THEN 0 ELSE F[Pick(s)] + g[s \ {Pick(s)}]
    <3>1. \A s \in SUBSET S : u(s) = v(s)
      <4> HIDE DEF F
      <4> QED BY <2>2
    <3>2. [s \in SUBSET S |-> u(s)] = [s \in SUBSET S |-> v(s)]
      <4> HIDE DEF u, v
      <4> QED BY <3>1
    <3>3. Sums(g, F, S) <=> g = [s \in SUBSET S |-> v(s)]
      BY DEF Sums
    <3> QED BY <3>2, <3>3
  <2>4. \E g : P(g)
    <3>1. \E g : Sums(g, F, S)
      BY LevelsFinite, SumExists
    <3> HIDE DEF P, F
    <3> QED BY <2>3, <3>1
  <2>5. P(h)
    <3> HIDE DEF P
    <3> QED BY <2>4
  <2> HIDE DEF P, h, F
  <2>6. Sums(h, F, S)
    BY <2>3, <2>5
  <2> QED BY <2>1, <2>6 DEF F
<1>3. \E g : Sums(g, Sizes(st, k), S) /\ TotalOf(st, S, k).byte = g[S]
  <2> DEFINE F == Sizes(st, k)
             P(g) == g = [s \in SUBSET S |-> IF s = {} THEN 0
                                             ELSE st[Pick(s)][k].byte + g[s \ {Pick(s)}]]
             h == CHOOSE g : P(g)
  <2>1. TotalOf(st, S, k).byte = h[S]
    BY Zenon DEF TotalOf, MapThenSumSet, MapThenFoldSet, Pick
  <2>2. \A s \in SUBSET S : s # {} => F[Pick(s)] = st[Pick(s)][k].byte
    BY <1>1 DEF Sizes
  <2>3. ASSUME NEW g
        PROVE  P(g) <=> Sums(g, F, S)
    <3> DEFINE u(s) == IF s = {} THEN 0 ELSE st[Pick(s)][k].byte + g[s \ {Pick(s)}]
               v(s) == IF s = {} THEN 0 ELSE F[Pick(s)] + g[s \ {Pick(s)}]
    <3>1. \A s \in SUBSET S : u(s) = v(s)
      <4> HIDE DEF F
      <4> QED BY <2>2
    <3>2. [s \in SUBSET S |-> u(s)] = [s \in SUBSET S |-> v(s)]
      <4> HIDE DEF u, v
      <4> QED BY <3>1
    <3>3. Sums(g, F, S) <=> g = [s \in SUBSET S |-> v(s)]
      BY DEF Sums
    <3> QED BY <3>2, <3>3
  <2>4. \E g : P(g)
    <3>1. \E g : Sums(g, F, S)
      BY LevelsFinite, SumExists
    <3> HIDE DEF P, F
    <3> QED BY <2>3, <3>1
  <2>5. P(h)
    <3> HIDE DEF P
    <3> QED BY <2>4
  <2> HIDE DEF P, h, F
  <2>6. Sums(h, F, S)
    BY <2>3, <2>5
  <2> QED BY <2>1, <2>6 DEF F
<1> QED BY <1>2, <1>3

\* One more access of n bytes of one cache is one in the total.
LEMMA TotalBump ==
  ASSUME NEW st \in CounterTable, NEW c \in Levels, NEW j \in Counters, NEW k \in Counters,
         NEW n \in Nat, NEW S \in SUBSET Levels
  PROVE  /\ TotalOf(st, S, k).count \in Int /\ TotalOf(st, S, k).byte \in Int
         /\ TotalOf(Bump(st, c, j, n), S, k) =
              IF j = k /\ c \in S THEN Counted(TotalOf(st, S, k), n) ELSE TotalOf(st, S, k)
<1> DEFINE new == Bump(st, c, j, n)
           one == IF j = k THEN 1 ELSE 0
           m   == IF j = k THEN n ELSE 0
<1>1. \A d \in S : /\ new[d][k] = IF d = c /\ j = k THEN Counted(st[c][k], n) ELSE st[d][k]
                   /\ st[d][k].count \in Int /\ st[d][k].byte \in Int
  <2> HIDE DEF new
  <2>1. \A d \in S : new[d][k] = IF d = c /\ k = j THEN Counted(st[c][j], n) ELSE st[d][k]
    BY BumpValue DEF new
  <2>2. \A d \in S : st[d][k] \in Counter
    BY DEF CounterTable
  <2> QED BY <2>1, <2>2 DEF Counter
<1> HIDE DEF new
<1>2. \A d \in S : /\ Counts(st, k)[d] \in Int
                   /\ Counts(new, k)[d] = Counts(st, k)[d] + (IF d = c THEN one ELSE 0)
  BY <1>1 DEF Counts, Counted
<1>3. \A d \in S : /\ Sizes(st, k)[d] \in Int
                   /\ Sizes(new, k)[d] = Sizes(st, k)[d] + (IF d = c THEN m ELSE 0)
  BY <1>1 DEF Sizes, Counted
<1>4. one \in Int /\ m \in Int /\ IsFiniteSet(S) /\ S \in SUBSET S
  BY LevelsFinite
<1> HIDE DEF one, m
<1>5. /\ TotalOf(st, S, k).count \in Int
      /\ TotalOf(new, S, k).count = TotalOf(st, S, k).count + (IF c \in S THEN one ELSE 0)
  <2>1. PICK g : Sums(g, Counts(st, k), S) /\ TotalOf(st, S, k).count = g[S]
    BY TotalSums
  <2>2. PICK h : Sums(h, Counts(new, k), S) /\ TotalOf(new, S, k).count = h[S]
    BY TotalSums
  <2> DEFINE F == Counts(st, k)
             G == Counts(new, k)
  <2>3. Differ(F, G, S, c, one) /\ Sums(g, F, S) /\ Sums(h, G, S)
    BY <1>2, <2>1, <2>2 DEF Differ
  <2> HIDE DEF F, G
  <2>4. g[S] \in Int /\ h[S] = g[S] + (IF c \in S THEN one ELSE 0)
    BY <1>4, <2>3, SumChange
  <2> QED BY <2>1, <2>2, <2>4
<1>6. /\ TotalOf(st, S, k).byte \in Int
      /\ TotalOf(new, S, k).byte = TotalOf(st, S, k).byte + (IF c \in S THEN m ELSE 0)
  <2>1. PICK g : Sums(g, Sizes(st, k), S) /\ TotalOf(st, S, k).byte = g[S]
    BY TotalSums
  <2>2. PICK h : Sums(h, Sizes(new, k), S) /\ TotalOf(new, S, k).byte = h[S]
    BY TotalSums
  <2> DEFINE F == Sizes(st, k)
             G == Sizes(new, k)
  <2>3. Differ(F, G, S, c, m) /\ Sums(g, F, S) /\ Sums(h, G, S)
    BY <1>3, <2>1, <2>2 DEF Differ
  <2> HIDE DEF F, G
  <2>4. g[S] \in Int /\ h[S] = g[S] + (IF c \in S THEN m ELSE 0)
    BY <1>4, <2>3, SumChange
  <2> QED BY <2>1, <2>2, <2>4
<1>7. \A x : TotalOf(x, S, k) = [count |-> TotalOf(x, S, k).count, byte |-> TotalOf(x, S, k).byte]
  BY DEF TotalOf
<1> HIDE DEF TotalOf
<1>8. TotalOf(new, S, k) = [count |-> TotalOf(new, S, k).count, byte |-> TotalOf(new, S, k).byte]
      /\ TotalOf(st, S, k) = [count |-> TotalOf(st, S, k).count, byte |-> TotalOf(st, S, k).byte]
  BY <1>7
<1>9. CASE j = k /\ c \in S
  BY <1>5, <1>6, <1>8, <1>9 DEF one, m, Counted, new
<1>10. CASE ~(j = k /\ c \in S)
  BY <1>5, <1>6, <1>8, <1>10 DEF one, m, new
<1> QED BY <1>5, <1>6, <1>9, <1>10

LEMMA TotalZero ==
  ASSUME NEW st, NEW S \in SUBSET Levels, NEW k, \A c \in S : st[c][k] = NothingMore
  PROVE  TotalOf(st, S, k) = NothingMore
<1>1. \A g, F : (\A c \in S : F[c] = 0) /\ Sums(g, F, S) => g[S] = 0
  <2> SUFFICES ASSUME NEW g, NEW F, \A c \in S : F[c] = 0, Sums(g, F, S)
               PROVE  g[S] = 0
    OBVIOUS
  <2> DEFINE wrong == {Cardinality(s) : s \in {s \in SUBSET S : g[s] # 0}}
  <2>1. \A s \in SUBSET S : g[s] = IF s = {} THEN 0 ELSE F[Pick(s)] + g[s \ {Pick(s)}]
    BY DEF Sums
  <2>2. IsFiniteSet(S)
    BY LevelsFinite
  <2>3. wrong = {}
    <3> SUFFICES ASSUME wrong # {} PROVE FALSE
      OBVIOUS
    <3>1. wrong \in SUBSET Nat
      BY <2>2, FS_Subset, FS_CardinalityType
    <3>2. PICK m \in wrong : \A n \in wrong : m <= n
      <4> HIDE DEF wrong
      <4> QED BY <3>1, LeastElement
    <3>3. PICK s \in SUBSET S : g[s] # 0 /\ m = Cardinality(s)
      BY <3>2
    <3>4. s # {}
      BY <2>1, <3>3
    <3>5. s \ {Pick(s)} \in SUBSET S /\ Cardinality(s \ {Pick(s)}) = m - 1 /\ m \in Nat
      BY <2>2, <3>3, <3>4, SmallerSubsets
    <3>6. ~(m <= m - 1)
      BY <3>5
    <3>7. g[s \ {Pick(s)}] = 0 /\ F[Pick(s)] = 0
      BY <3>2, <3>4, <3>5, <3>6, PickOne
    <3>8. g[s] = 0 + 0
      BY <2>1, <3>4, <3>7
    <3> QED BY <3>3, <3>8
  <2> QED BY <2>3
<1>2. \A c \in S : Counts(st, k)[c] = 0 /\ Sizes(st, k)[c] = 0
  BY DEF Counts, Sizes, NothingMore
<1>3. TotalOf(st, S, k).count = 0 /\ TotalOf(st, S, k).byte = 0
  BY <1>1, <1>2, TotalSums
<1> QED BY <1>3 DEF TotalOf, NothingMore

(* Evictions are stores. *)

\* Counter table st and record m of what main memory received agree.
Even(st, m) ==
  TotalOf(st, Levels, "EVICT") = Plus(TotalOf(st, Levels \ {FirstLevel}, "STORE"), m["stores"])

LEMMA EvenIsBelow ==
  /\ EvictsAreStoresBelow <=> (walk.job # "reset_stats" => Even(stats, memory))
  /\ EvictsAreStoresBelow' <=> (walk'.job # "reset_stats" => Even(stats', memory'))
<1>1. \A k, S : /\ Total(S, k) = TotalOf(stats, S, k)
                /\ Total(S, k)' = TotalOf(stats', S, k)
  BY DEF Total, TotalOf, MapThenSumSet, MapThenFoldSet
<1> QED BY <1>1 DEF EvictsAreStoresBelow, Even

\* A load counter leaves the balance as it is.
LEMMA LoadBumpEven ==
  ASSUME NEW st \in CounterTable, NEW m, Even(st, m), NEW c \in Levels,
         NEW k \in {"LOAD", "HIT", "MISS"}, NEW n \in Nat
  PROVE  Even(Bump(st, c, k, n), m)
<1>1. k \in Counters /\ "EVICT" \in Counters /\ "STORE" \in Counters /\ k # "EVICT" /\ k # "STORE"
  BY DEF Counters
<1>2. Levels \in SUBSET Levels /\ Levels \ {FirstLevel} \in SUBSET Levels
  OBVIOUS
<1> QED BY <1>1, <1>2, TotalBump DEF Even

LEMMA PlusCounted ==
  ASSUME NEW x, NEW y, NEW n \in Nat, x.count \in Int, x.byte \in Int, y.count \in Int, y.byte \in Int
  PROVE  /\ Plus(Counted(x, n), y) = Counted(Plus(x, y), n)
         /\ Plus(x, Counted(y, n)) = Counted(Plus(x, y), n)
BY DEF Plus, Counted

\* A store that is an eviction, to another cache or to main memory.
LEMMA EvictEven ==
  ASSUME NEW st \in CounterTable, NEW m \in AccessTable, Even(st, m), NEW c \in Levels, NEW n \in Nat
  PROVE  /\ \A d \in Levels : d # FirstLevel => Even(Bump(Bump(st, c, "EVICT", n), d, "STORE", n), m)
         /\ Even(Bump(st, c, "EVICT", n), [m EXCEPT !["stores"] = Counted(@, n)])
<1> DEFINE one   == Bump(st, c, "EVICT", n)
           lower == Levels \ {FirstLevel}
           x     == TotalOf(st, lower, "STORE")
           y     == m["stores"]
<1>1. "EVICT" \in Counters /\ "STORE" \in Counters /\ Levels \in SUBSET Levels /\ lower \in SUBSET Levels
  BY DEF Counters
<1>2. one \in CounterTable
  BY <1>1, BumpType
<1>3. /\ TotalOf(one, Levels, "EVICT") = Counted(TotalOf(st, Levels, "EVICT"), n)
      /\ TotalOf(one, lower, "STORE") = x
      /\ x.count \in Int /\ x.byte \in Int
  <2> HIDE DEF lower
  <2>1. TotalOf(one, Levels, "EVICT") = Counted(TotalOf(st, Levels, "EVICT"), n)
    BY <1>1, TotalBump
  <2>2. TotalOf(one, lower, "STORE") = x /\ x.count \in Int /\ x.byte \in Int
    BY <1>1, TotalBump
  <2> QED BY <2>1, <2>2
<1>4. y.count \in Int /\ y.byte \in Int
  BY DEF AccessTable, Counter
<1>5. TotalOf(st, Levels, "EVICT") = Plus(x, y)
  BY DEF Even
<1> HIDE DEF one, x, y, lower
<1>6. ASSUME NEW d \in Levels, d # FirstLevel
      PROVE  Even(Bump(one, d, "STORE", n), m)
  <2> DEFINE two == Bump(one, d, "STORE", n)
  <2>1. TotalOf(two, Levels, "EVICT") = TotalOf(one, Levels, "EVICT")
    BY <1>1, <1>2, TotalBump
  <2>2. d \in lower
    BY <1>6 DEF lower
  <2>3. TotalOf(two, lower, "STORE") = Counted(TotalOf(one, lower, "STORE"), n)
    BY <1>1, <1>2, <2>2, TotalBump
  <2> HIDE DEF two
  <2>4. TotalOf(two, Levels, "EVICT") = Plus(TotalOf(two, lower, "STORE"), y)
    BY <1>3, <1>4, <1>5, <2>1, <2>3, PlusCounted
  <2> QED BY <2>4 DEF Even, two, lower, y
<1>7. Even(one, [m EXCEPT !["stores"] = Counted(@, n)])
  <2> DEFINE r == [m EXCEPT !["stores"] = Counted(@, n)]
  <2>1. r["stores"] = Counted(y, n)
    BY DEF AccessTable, y
  <2> HIDE DEF r
  <2>2. TotalOf(one, Levels, "EVICT") = Plus(TotalOf(one, lower, "STORE"), r["stores"])
    BY <1>3, <1>4, <1>5, <2>1, PlusCounted
  <2> QED BY <2>2 DEF Even, r, lower
<1> QED BY <1>6, <1>7 DEF one

LEMMA LinkBelowFirst ==
  ASSUME NEW c \in Levels,
         NEW l \in {Cache[c].load_from, Cache[c].store_to, Cache[c].victims_to}, l # None
  PROVE  l \in Levels /\ l # FirstLevel /\ l # c
<1>1. l \in Levels /\ c < l /\ c \in Nat /\ c >= 1 /\ l \in Nat
  BY LinksLeadDown DEF Levels
<1> QED BY <1>1 DEF FirstLevel

LEMMA PassDownEven ==
  ASSUME TypeOK, Even(stats, memory), NEW c \in Levels, NEW range, NEW nt, NEW callers,
         range.length \in Nat,
         PassDown(c, range, nt, Bump(stats, c, "EVICT", range.length), callers)
  PROVE  Even(stats', memory')
<1>1. stats \in CounterTable /\ memory \in AccessTable
  BY DEF TypeOK
<1>2. CASE Cache[c].store_to = None
  <2>1. stats' = Bump(stats, c, "EVICT", range.length) /\ memory' = Accessed("stores", range)
    BY <1>2 DEF PassDown
  <2>2. memory' = [memory EXCEPT !["stores"] = Counted(@, range.length)]
    BY <2>1 DEF Accessed, Counted
  <2> QED BY <1>1, <2>1, <2>2, EvictEven
<1>3. CASE Cache[c].store_to # None
  <2>1. /\ stats' = Bump(Bump(stats, c, "EVICT", range.length), Cache[c].store_to, "STORE", range.length)
        /\ memory' = memory
    BY <1>3 DEF PassDown
  <2>2. Cache[c].store_to \in Levels /\ Cache[c].store_to # FirstLevel
    BY <1>3, LinkBelowFirst
  <2> QED BY <1>1, <2>1, <2>2, EvictEven
<1> QED BY <1>2, <1>3

LEMMA LineLength ==
  ASSUME NEW c \in Levels, NEW cl
  PROVE  LineRange(c, cl).length = Cache[c].cl_size /\ Cache[c].cl_size \in Nat
BY CacheType DEF LineRange

LEMMA InjectEven ==
  ASSUME TypeOK, Even(stats, memory), NEW c \in Levels, NEW e, NEW idx, NEW callers,
         Inject(c, e, idx, callers)
  PROVE  Even(stats', memory')
<1>1. \/ \E cl, nt : PassDown(c, LineRange(c, cl), nt, Bump(stats, c, "EVICT", Cache[c].cl_size), callers)
      \/ UNCHANGED <<stats, memory>>
  BY DEF Inject
<1>2. CASE UNCHANGED <<stats, memory>>
  BY <1>2
<1>3. ASSUME NEW cl, NEW nt,
             PassDown(c, LineRange(c, cl), nt, Bump(stats, c, "EVICT", Cache[c].cl_size), callers)
      PROVE  Even(stats', memory')
  <2> DEFINE range == LineRange(c, cl)
  <2>1. range.length = Cache[c].cl_size /\ range.length \in Nat
    BY LineLength
  <2>2. PassDown(c, range, nt, Bump(stats, c, "EVICT", range.length), callers)
    BY <1>3, <2>1
  <2> HIDE DEF range
  <2> QED BY <2>1, <2>2, PassDownEven
<1> QED BY <1>1, <1>2, <1>3

\* A store to main memory is an eviction only if it comes from a write-back cache:
\* a write-through store there is no call and is not counted (backend.c:518-535).
LastWritesBack == \A c \in Levels : Cache[c].store_to = None => Cache[c].write_back

LEMMA LoadHitMissEven ==
  ASSUME TypeOK, Even(stats, memory), LoadHit \/ LoadMiss \/ StoreAllocate
  PROVE  Even(stats', memory')
<1> DEFINE n == Smaller(TopLine, Top.range.length)
<1>1. /\ Top.c \in Levels /\ TopLine \in Nat /\ Top.range \in AddrRange /\ Top.cl \in Nat
      /\ stats \in CounterTable /\ memory \in AccessTable
  BY TopType DEF LoadHit, LoadMiss, StoreAllocate, Storing, Running, TypeOK
<1>2. n \in Nat
  BY <1>1 DEF Smaller, AddrRange
<1> HIDE DEF n
<1>3. CASE LoadHit
  <2>1. stats' = Bump(stats, Top.c, "HIT", n) /\ memory' = memory
    BY <1>3 DEF LoadHit, n
  <2> QED BY <1>1, <1>2, <2>1, LoadBumpEven
<1>4. CASE StoreAllocate
  <2>1. stats' = Bump(stats, Top.c, "LOAD", TopLine) /\ memory' = memory
    BY <1>4 DEF StoreAllocate
  <2> QED BY <1>1, <2>1, LoadBumpEven
<1>5. CASE LoadMiss
  <2> DEFINE st    == Bump(stats, Top.c, "MISS", n)
             range == LineRange(Top.c, Top.cl)
  <2>1. PICK source \in {Cache[Top.c].victims_to, Cache[Top.c].load_from} : \E callers :
          Fetch(source, range, st, callers)
    BY <1>5 DEF LoadMiss, n
  <2>2. st \in CounterTable /\ Even(st, memory)
    BY <1>1, <1>2, LoadBumpEven, BumpType DEF Counters
  <2>3. range.length \in Nat
    BY <1>1, LineLength
  <2> HIDE DEF st, range
  <2>4. CASE source = None
    <3>1. stats' = st /\ memory'["stores"] = memory["stores"]
      BY <1>1, <2>1, <2>4 DEF Fetch, Accessed, AccessTable
    <3> QED BY <2>2, <3>1 DEF Even
  <2>5. CASE source # None
    <3>1. source \in Levels /\ stats' = Bump(st, source, "LOAD", range.length) /\ memory' = memory
      BY <1>1, <2>1, <2>5, LinksLeadDown DEF Fetch
    <3> QED BY <2>2, <2>3, <3>1, LoadBumpEven
  <2> QED BY <2>4, <2>5
<1> QED BY <1>3, <1>4, <1>5

LEMMA RunningEven ==
  ASSUME TypeOK, LoadsInv, LastWritesBack, Even(stats, memory), RunningStep
  PROVE  Even(stats', memory')
<1>1. stats \in CounterTable /\ memory \in AccessTable
  BY DEF TypeOK
<1>2. CASE UNCHANGED <<stats, memory>>
  BY <1>2
<1>3. CASE LoadFill \/ StoreInject \/ InjectVictim
  <2>1. Top.c \in Levels
    BY <1>3, TopType DEF LoadFill, StoreInject, Storing, InjectVictim
  <2>2. \E e, idx, callers : Inject(Top.c, e, idx, callers)
    BY <1>3 DEF LoadFill, StoreInject, InjectVictim
  <2> QED BY <2>1, <2>2, InjectEven
<1>4. CASE StoreForward
  <2> DEFINE range == ClipRange(Top.c, Top.cl, Top.range)
  <2>1. stack # <<>> /\ Top.c \in Levels /\ range \in AddrRange /\ Top.fn = "write" /\ ~WriteHere
    BY <1>4, TopType, ClipType DEF StoreForward, FrameOK, Running
  <2>2. range.length \in Nat
    BY <2>1 DEF AddrRange
  <2>3. Cache[Top.c].store_to # None
    <3> SUFFICES ASSUME Cache[Top.c].store_to = None PROVE FALSE
      OBVIOUS
    <3>1. Cache[Top.c].write_back
      BY <2>1 DEF LastWritesBack
    <3>2. HasWay(Top)
      BY <2>1, TopFit DEF LoadsInv
    <3> QED BY <2>1, <3>1, <3>2 DEF HasWay, WriteHere
  <2>4. PassDown(Top.c, range, Top.nt, Bump(stats, Top.c, "EVICT", range.length), Continue(NextLine))
    BY <1>4, <2>3 DEF StoreForward
  <2> HIDE DEF range
  <2> QED BY <2>1, <2>2, <2>4, PassDownEven
<1>5. CASE CreditVictim
  <2>1. Top.c \in Levels /\ TopLine \in Nat /\ Cache[Top.c].victims_to # None
    BY <1>5, TopType DEF CreditVictim, FrameOK
  <2>2. Cache[Top.c].victims_to \in Levels /\ Cache[Top.c].victims_to # FirstLevel
    BY <2>1, LinkBelowFirst
  <2>3. /\ stats' = Bump(Bump(stats, Top.c, "EVICT", TopLine), Cache[Top.c].victims_to, "STORE", TopLine)
        /\ memory' = memory
    BY <1>5 DEF CreditVictim
  <2> QED BY <1>1, <2>1, <2>2, <2>3, EvictEven
<1>6. CASE FlushSlot /\ ~UNCHANGED <<stats, memory>>
  <2> DEFINE range == LineRange(Top.c, Slot.cl_id)
  <2>1. Top.c \in Levels /\ TopLine = Cache[Top.c].cl_size
    BY <1>6, TopType DEF FlushSlot, TopLine
  <2>2. range.length = TopLine /\ range.length \in Nat
    BY <2>1, LineLength
  <2>3. \E nt, callers : PassDown(Top.c, range, nt, Bump(stats, Top.c, "EVICT", range.length), callers)
    BY <1>6, <2>2 DEF FlushSlot
  <2> HIDE DEF range
  <2> QED BY <2>1, <2>2, <2>3, PassDownEven
<1>7. \/ UNCHANGED <<stats, memory>>
      \/ LoadHit \/ LoadMiss \/ StoreAllocate
      \/ LoadFill \/ StoreInject \/ InjectVictim
      \/ StoreForward \/ CreditVictim \/ FlushSlot
  BY DEF RunningStep, LoadStep, StoreStep, VictimStep, FlushStep, LoadReturn, StoreLookup,
     StoreDirty, StoreReturn, FlushClean, FlushReturn
<1> QED BY <1>2, <1>3, <1>4, <1>5, <1>6, <1>7, LoadHitMissEven

\* Where every cache is reached by reset_stats and the caches that store to main
\* memory write back, the evictions of all caches are the stores to lower
\* caches and to main memory, in number and in bytes, at every moment of every
\* call: the two are counted in different functions, and by a victim cache's
\* caller only after that cache has been entered and left.
THEOREM EvictionsAreStores ==
  LevelsReached /\ LastWritesBack => (Spec => []EvictsAreStoresBelow)
<1> SUFFICES ASSUME LevelsReached, LastWritesBack PROVE Spec => []EvictsAreStoresBelow
  OBVIOUS
<1> DEFINE lower == Levels \ {FirstLevel}
<1>1. ASSUME NEW st, NEW m, \A c \in Levels : st[c] = Zero, m = NoAccess
      PROVE  Even(st, m)
  <2>1. \A c \in Levels : st[c]["EVICT"] = NothingMore /\ st[c]["STORE"] = NothingMore
    BY <1>1 DEF Zero, NothingMore, Counters
  <2>2. /\ TotalOf(st, Levels, "EVICT") = NothingMore
        /\ TotalOf(st, lower, "STORE") = NothingMore
    BY <2>1, TotalZero
  <2>3. m["stores"] = NothingMore
    BY <1>1 DEF NoAccess, NothingMore
  <2> QED BY <2>2, <2>3 DEF Even, Plus, NothingMore
<1>2. Init => EvictsAreStoresBelow
  BY <1>1, EvenIsBelow DEF Init
<1>3. TypeOK /\ LoadsInv /\ SweptOrToCome /\ EvictsAreStoresBelow /\ [Next]_vars
        => EvictsAreStoresBelow'
  <2> SUFFICES ASSUME TypeOK, LoadsInv, SweptOrToCome, EvictsAreStoresBelow, [Next]_vars,
                      walk'.job # "reset_stats"
               PROVE  Even(stats', memory')
    BY EvenIsBelow
  <2>0. walk.job # "reset_stats" => Even(stats, memory)
    BY EvenIsBelow
  <2>1. CASE RunningStep
    <3>1. walk' = walk
      BY <2>1, StepOwes
    <3> QED BY <2>0, <2>1, <3>1, RunningEven
  <2>2. ASSUME NEW job \in Jobs, StartWalk(job)
        PROVE  Even(stats', memory')
    BY <2>0, <2>2 DEF StartWalk, Idle
  <2>3. ASSUME NEW range \in Ranges, Load(range)
        PROVE  Even(stats', memory')
    <3>1. /\ stats' = Bump(stats, FirstLevel, "LOAD", range.length) /\ memory' = memory
          /\ Even(stats, memory) /\ range.length \in Nat /\ stats \in CounterTable
      BY <2>0, <2>3, HierarchyAssumption DEF Load, Idle, AddrRange, TypeOK
    <3> QED BY <3>1, LoadBumpEven, FirstLevelType
  <2>4. ASSUME NEW range \in Ranges, Store(range)
        PROVE  Even(stats', memory')
    <3>1. /\ stats' = Bump(stats, FirstLevel, "STORE", range.length) /\ memory' = memory
          /\ Even(stats, memory) /\ range.length \in Nat /\ stats \in CounterTable
      BY <2>0, <2>4, HierarchyAssumption DEF Store, Idle, AddrRange, TypeOK
    <3>2. Levels \in SUBSET Levels /\ lower \in SUBSET Levels /\ FirstLevel \notin lower
          /\ "EVICT" \in Counters /\ "STORE" \in Counters
      BY DEF Counters
    <3> HIDE DEF lower
    <3>3. /\ TotalOf(stats', Levels, "EVICT") = TotalOf(stats, Levels, "EVICT")
          /\ TotalOf(stats', lower, "STORE") = TotalOf(stats, lower, "STORE")
      BY <3>1, <3>2, TotalBump, FirstLevelType
    <3> QED BY <3>1, <3>3 DEF Even, lower
  <2>5. CASE WalkStep /\ ~(WalkEnd /\ walk.job = "reset_stats")
    <3>1. walk.job # "reset_stats" /\ UNCHANGED <<stats, memory>>
      BY <2>5 DEF WalkStep, WalkOn, VisitFlush, VisitReset, VisitInvalidate, WalkEnd,
         Visiting, Visited, TypeOK, WalkState
    <3> QED BY <2>0, <3>1
  <2>6. CASE WalkEnd /\ walk.job = "reset_stats"
    <3>1. stats' = stats /\ memory' = NoAccess
      BY <2>6 DEF WalkEnd
    <3>2. \A c \in Levels : stats'[c] = Zero
      BY <2>6, <3>1, NothingToCome DEF SweptOrToCome, WalkEnd
    <3> QED BY <1>1, <3>1, <3>2
  <2>7. CASE UNCHANGED vars
    BY <2>0, <2>7 DEF vars
  <2> QED BY <2>1, <2>2, <2>3, <2>4, <2>5, <2>6, <2>7 DEF Next, Step, RunningStep, Call
<1> QED BY <1>2, <1>3, TypeCorrect, LoadsStayCounted, StaysSwept, PTL DEF Spec

(* The statistics of main memory. *)

LastVictims == Cache[LastLoad].victims_to

\* Only the last level that loads asks main memory, for whole lines of which it
\* counts all bytes; of caches that load from nowhere else the others are victim
\* caches, and that of the last level has no other cache above it.
LoadsReachMemory ==
  /\ LastLoad \in Whole
  /\ \A c \in Levels : Cache[c].load_from = None => c = LastLoad \/ c \in HitOnly
  /\ LastVictims # None =>
       /\ LastVictims \in HitOnly
       /\ \A c \in Levels : Cache[c].victims_to = LastVictims => c = LastLoad

\* Only the last level that stores passes lines on to main memory, when it evicts
\* them.
StoresReachMemory ==
  /\ \A c \in Levels : Cache[c].store_to = None => c = LastStore
  /\ Cache[LastStore].write_back /\ Cache[LastStore].victims_to = None

\* What counter table st and record m of main memory say of the last levels.
LoadsExact(st, m) ==
  st[LastLoad]["MISS"] = IF LastVictims = None THEN m["loads"]
                         ELSE Plus(st[LastVictims]["LOAD"], m["loads"])

StoresExact(st, m) == st[LastStore]["EVICT"] = m["stores"]

LEMMA LastLevels ==
  /\ LastLoad \in Levels /\ LastStore \in Levels
  /\ Cache[LastLoad].load_from = None /\ Cache[LastStore].store_to = None
  /\ LastVictims # None => LastVictims \in Levels /\ LastVictims # FirstLevel
<1>1. /\ LastLoad \in Levels /\ LastStore \in Levels
      /\ Cache[LastLoad].load_from = None /\ Cache[LastStore].store_to = None
  BY HierarchyAssumption
<1> QED BY <1>1, LinkBelowFirst DEF LastVictims

\* A load that misses in the last level is one of main memory or of the victims.
LEMMA LoadMissExact ==
  ASSUME TypeOK, LoadsReachMemory, LoadsInv, LoadsExact(stats, memory), LoadMiss
  PROVE  LoadsExact(stats', memory')
<1> DEFINE c       == Top.c
           n       == Smaller(TopLine, Top.range.length)
           victims == Cache[c].victims_to
           hit     == victims # None /\ Location(victims, Top.cl) # -1
           source  == IF hit THEN victims ELSE Cache[c].load_from
           range   == LineRange(c, Top.cl)
           st      == Bump(stats, c, "MISS", n)
<1>1. /\ stack # <<>> /\ Top.fn = "load" /\ c \in Levels /\ Top.cl \in Nat /\ Top.range \in AddrRange
      /\ Top.cl <= LastCl(c, Top.range) /\ TopLine = Cache[c].cl_size /\ TopLine \in Nat
  BY TopType DEF LoadMiss, TopLine
<1>2. \E callers : Fetch(source, range, st, callers)
  BY DEF LoadMiss
<1>3. c \notin HitOnly
  <2>1. Looking(stack, c) /\ Top = stack[Len(stack)] /\ Location(c, Top.cl) = -1
    BY <1>1 DEF Looking, Top, LoadMiss
  <2> QED BY <2>1 DEF LoadsInv, NeverMissing
<1>4. n \in Nat /\ stats \in CounterTable /\ memory \in AccessTable
  BY <1>1 DEF Smaller, AddrRange, TypeOK
<1>5. range.length = Cache[c].cl_size /\ range.length \in Nat
  BY <1>1, LineLength
<1>6. c = LastLoad => n = range.length
  <2> SUFFICES ASSUME c = LastLoad PROVE n = range.length
    OBVIOUS
  <2>1. Top.range.length >= TopLine
    BY <1>1, TopFit DEF LoadsInv, Fit, Loading, LoadsReachMemory
  <2> QED BY <1>1, <1>5, <2>1 DEF Smaller, AddrRange
<1>7. source # None => source \in Levels /\ source # c
  BY <1>1, LinkBelowFirst
<1> HIDE DEF c, n, range, source
<1>8. st \in CounterTable
  BY <1>1, <1>4, BumpType DEF Counters, c
<1>9. \A d \in Levels : /\ st[d]["LOAD"] = stats[d]["LOAD"]
                        /\ st[d]["MISS"] = IF d = c THEN Counted(stats[c]["MISS"], n)
                                           ELSE stats[d]["MISS"]
  BY <1>1, <1>4, BumpValue DEF Counters, c
<1> HIDE DEF st
<1>10. CASE source = None
  <2>1. stats' = st /\ memory'["loads"] = Counted(memory["loads"], range.length)
    BY <1>2, <1>4, <1>10 DEF Fetch, Accessed, AccessTable, Counted
  <2>2. c = LastLoad
    BY <1>1, <1>3, <1>7, <1>10 DEF source, LoadsReachMemory, c
  <2>3. stats'[LastLoad]["MISS"] = Counted(stats[LastLoad]["MISS"], range.length)
    BY <1>6, <1>9, <2>1, <2>2, LastLevels
  <2>4. LastVictims # None => stats'[LastVictims]["LOAD"] = stats[LastVictims]["LOAD"]
    BY <1>9, <2>1, LastLevels
  <2>5. LastVictims # None => stats[LastVictims]["LOAD"] \in Counter
    BY <1>4, LastLevels DEF CounterTable, Counters
  <2>6. memory["loads"] \in Counter
    BY <1>4 DEF AccessTable
  <2>7. \A x, y \in Counter : Plus(x, Counted(y, range.length)) = Counted(Plus(x, y), range.length)
    BY <1>5, PlusCounted DEF Counter
  <2> QED BY <2>1, <2>3, <2>4, <2>5, <2>6, <2>7 DEF LoadsExact
<1>11. CASE source # None
  <2>1. stats' = Bump(st, source, "LOAD", range.length) /\ memory' = memory
    BY <1>2, <1>11 DEF Fetch
  <2>2. \A d \in Levels :
          /\ stats'[d]["MISS"] = st[d]["MISS"]
          /\ stats'[d]["LOAD"] = IF d = source THEN Counted(st[source]["LOAD"], range.length)
                                 ELSE st[d]["LOAD"]
    BY <1>7, <1>8, <1>11, <2>1, BumpValue DEF Counters
  <2>3. CASE c = LastLoad
    <3>1. source = LastVictims /\ LastVictims # None
      BY <1>11, <2>3, LastLevels DEF source, LastVictims, c
    <3>2. stats'[LastLoad]["MISS"] = Counted(stats[LastLoad]["MISS"], range.length)
      BY <1>6, <1>9, <2>2, <2>3, LastLevels
    <3>3. stats'[LastVictims]["LOAD"] = Counted(stats[LastVictims]["LOAD"], range.length)
      BY <1>9, <2>2, <3>1, LastLevels
    <3>4. stats[LastVictims]["LOAD"] \in Counter /\ memory["loads"] \in Counter
      BY <1>4, <3>1, LastLevels DEF CounterTable, Counters, AccessTable
    <3>5. \A x, y \in Counter : Plus(Counted(x, range.length), y) = Counted(Plus(x, y), range.length)
      BY <1>5, PlusCounted DEF Counter
    <3> QED BY <2>1, <3>1, <3>2, <3>3, <3>4, <3>5 DEF LoadsExact
  <2>4. CASE c # LastLoad
    <3>1. stats'[LastLoad]["MISS"] = stats[LastLoad]["MISS"]
      BY <1>9, <2>2, <2>4, LastLevels
    <3>2. LastVictims # None => source # LastVictims
      <4>1. LastVictims # None => Cache[c].load_from # LastVictims /\ Cache[c].victims_to # LastVictims
        BY <1>1, <2>4 DEF LoadsReachMemory, HitOnly, c
      <4> QED BY <4>1 DEF source, c
    <3>3. LastVictims # None => stats'[LastVictims]["LOAD"] = stats[LastVictims]["LOAD"]
      BY <1>9, <2>2, <3>2, LastLevels
    <3> QED BY <2>1, <3>1, <3>3 DEF LoadsExact
  <2> QED BY <2>3, <2>4
<1> QED BY <1>10, <1>11

LEMMA RunningLoadsExact ==
  ASSUME TypeOK, LoadsReachMemory, LoadsInv, LoadsExact(stats, memory), RunningStep
  PROVE  LoadsExact(stats', memory')
<1>1. CASE QuietStep
  BY <1>1, QuietLoads, LastLevels DEF SameLoads, LoadSide, LoadsExact
<1>2. stats \in CounterTable
  BY DEF TypeOK
<1>3. CASE LoadHit
  <2>1. PICK n : stats' = Bump(stats, Top.c, "HIT", n) /\ memory' = memory
    BY <1>3 DEF LoadHit
  <2>2. Top.c \in Levels
    BY <1>3, TopType DEF LoadHit, Running
  <2>3. \A d \in Levels : stats'[d]["MISS"] = stats[d]["MISS"] /\ stats'[d]["LOAD"] = stats[d]["LOAD"]
    BY <1>2, <2>1, <2>2, BumpValue DEF Counters
  <2> QED BY <2>1, <2>3, LastLevels DEF LoadsExact
<1>4. CASE StoreAllocate
  <2>1. stats' = Bump(stats, Top.c, "LOAD", TopLine) /\ memory' = memory
    BY <1>4 DEF StoreAllocate
  <2>2. Top.c \in Levels /\ Cache[Top.c].write_allocate
    BY <1>4, TopType DEF StoreAllocate, Storing, Running, Allocating
  <2>3. Top.c \notin HitOnly
    BY <2>2 DEF HitOnly
  <2>4. \A d \in Levels : /\ stats'[d]["MISS"] = stats[d]["MISS"]
                          /\ d # Top.c => stats'[d]["LOAD"] = stats[d]["LOAD"]
    BY <1>2, <2>1, <2>2, BumpValue DEF Counters
  <2> QED BY <2>1, <2>3, <2>4, LastLevels DEF LoadsExact, LoadsReachMemory
<1> QED BY <1>1, <1>3, <1>4, LoadMissExact
        DEF RunningStep, QuietStep, LoadStep, StoreStep, VictimStep, FlushStep

LEMMA PassDownExact ==
  ASSUME TypeOK, StoresReachMemory, StoresExact(stats, memory), NEW c \in Levels, NEW range,
         NEW nt, NEW callers, range.length \in Nat,
         PassDown(c, range, nt, Bump(stats, c, "EVICT", range.length), callers)
  PROVE  StoresExact(stats', memory')
<1> DEFINE st == Bump(stats, c, "EVICT", range.length)
<1>1. stats \in CounterTable /\ memory \in AccessTable /\ "EVICT" \in Counters /\ "STORE" \in Counters
  BY DEF TypeOK, Counters
<1>2. st \in CounterTable
  BY <1>1, BumpType
<1>3. \A d \in Levels : st[d]["EVICT"] = IF d = c THEN Counted(stats[c]["EVICT"], range.length)
                                         ELSE stats[d]["EVICT"]
  BY <1>1, BumpValue
<1> HIDE DEF st
<1>4. CASE Cache[c].store_to = None
  <2>1. stats' = st /\ memory'["stores"] = Counted(memory["stores"], range.length)
    BY <1>1, <1>4 DEF PassDown, st, Accessed, AccessTable, Counted
  <2>2. c = LastStore
    BY <1>4 DEF StoresReachMemory
  <2> QED BY <1>3, <2>1, <2>2 DEF StoresExact
<1>5. CASE Cache[c].store_to # None
  <2> DEFINE below == Cache[c].store_to
  <2>1. stats' = Bump(st, below, "STORE", range.length) /\ memory' = memory
    BY <1>5 DEF PassDown, st
  <2>2. below \in Levels
    BY <1>5, LinksLeadDown
  <2>3. c # LastStore
    BY <1>5, LastLevels
  <2>4. stats'[LastStore]["EVICT"] = stats[LastStore]["EVICT"]
    <3>1. stats'[LastStore]["EVICT"] = st[LastStore]["EVICT"]
      BY <1>1, <1>2, <2>1, <2>2, BumpValue, LastLevels
    <3> QED BY <1>3, <2>3, <3>1, LastLevels
  <2> QED BY <2>1, <2>4 DEF StoresExact
<1> QED BY <1>4, <1>5

LEMMA RunningStoresExact ==
  ASSUME TypeOK, StoresReachMemory, LoadsInv, StoresExact(stats, memory), RunningStep
  PROVE  StoresExact(stats', memory')
<1>1. stats \in CounterTable /\ memory \in AccessTable
  BY DEF TypeOK
<1>2. CASE UNCHANGED <<stats, memory>>
  BY <1>2
<1>3. CASE LoadFill \/ StoreInject \/ InjectVictim
  <2>1. Top.c \in Levels
    BY <1>3, TopType DEF LoadFill, StoreInject, Storing, InjectVictim
  <2>2. PICK e, idx, callers : Inject(Top.c, e, idx, callers)
    BY <1>3 DEF LoadFill, StoreInject, InjectVictim
  <2>3. \/ \E cl, nt : PassDown(Top.c, LineRange(Top.c, cl), nt,
                                Bump(stats, Top.c, "EVICT", Cache[Top.c].cl_size), callers)
        \/ UNCHANGED <<stats, memory>>
    BY <2>2 DEF Inject
  <2>4. ASSUME NEW cl, NEW nt, PassDown(Top.c, LineRange(Top.c, cl), nt,
                                        Bump(stats, Top.c, "EVICT", Cache[Top.c].cl_size), callers)
        PROVE  StoresExact(stats', memory')
    <3> DEFINE range == LineRange(Top.c, cl)
    <3>1. range.length = Cache[Top.c].cl_size /\ range.length \in Nat
      BY <2>1, LineLength
    <3>2. PassDown(Top.c, range, nt, Bump(stats, Top.c, "EVICT", range.length), callers)
      BY <2>4, <3>1
    <3> HIDE DEF range
    <3> QED BY <2>1, <3>1, <3>2, PassDownExact
  <2> QED BY <1>2, <2>3, <2>4
<1>4. CASE StoreForward
  <2> DEFINE range == ClipRange(Top.c, Top.cl, Top.range)
  <2>1. stack # <<>> /\ Top.c \in Levels /\ range \in AddrRange /\ Top.fn = "write" /\ ~WriteHere
    BY <1>4, TopType, ClipType DEF StoreForward, FrameOK, Running
  <2>2. range.length \in Nat
    BY <2>1 DEF AddrRange
  <2>3. Cache[Top.c].store_to # None
    <3> SUFFICES ASSUME Cache[Top.c].store_to = None PROVE FALSE
      OBVIOUS
    <3>1. Cache[Top.c].write_back
      BY <2>1 DEF StoresReachMemory
    <3>2. HasWay(Top)
      BY <2>1, TopFit DEF LoadsInv
    <3> QED BY <2>1, <3>1, <3>2 DEF HasWay, WriteHere
  <2>4. PassDown(Top.c, range, Top.nt, Bump(stats, Top.c, "EVICT", range.length), Continue(NextLine))
    BY <1>4, <2>3 DEF StoreForward
  <2> HIDE DEF range
  <2> QED BY <2>1, <2>2, <2>4, PassDownExact
<1>5. CASE CreditVictim
  <2>1. Top.c \in Levels /\ TopLine \in Nat /\ Cache[Top.c].victims_to # None
    BY <1>5, TopType DEF CreditVictim, FrameOK
  <2>2. Cache[Top.c].victims_to \in Levels /\ Top.c # LastStore
    BY <2>1, LinksLeadDown DEF StoresReachMemory
  <2> DEFINE st == Bump(stats, Top.c, "EVICT", TopLine)
  <2>3. stats' = Bump(st, Cache[Top.c].victims_to, "STORE", TopLine) /\ memory' = memory
    BY <1>5 DEF CreditVictim
  <2>4. st \in CounterTable /\ st[LastStore]["EVICT"] = stats[LastStore]["EVICT"]
    <3>1. "EVICT" \in Counters
      BY DEF Counters
    <3>2. st \in CounterTable
      BY <1>1, <2>1, <3>1, BumpType
    <3> QED BY <1>1, <2>1, <2>2, <3>1, <3>2, BumpValue, LastLevels
  <2> HIDE DEF st
  <2>5. stats'[LastStore]["EVICT"] = st[LastStore]["EVICT"]
    BY <2>2, <2>3, <2>4, BumpValue, LastLevels DEF Counters
  <2> QED BY <2>3, <2>4, <2>5 DEF StoresExact
<1>6. CASE FlushSlot /\ ~UNCHANGED <<stats, memory>>
  <2> DEFINE range == LineRange(Top.c, Slot.cl_id)
  <2>1. Top.c \in Levels /\ TopLine = Cache[Top.c].cl_size
    BY <1>6, TopType DEF FlushSlot, TopLine
  <2>2. range.length = TopLine /\ range.length \in Nat
    BY <2>1, LineLength
  <2>3. \E nt, callers : PassDown(Top.c, range, nt, Bump(stats, Top.c, "EVICT", range.length), callers)
    BY <1>6, <2>2 DEF FlushSlot
  <2> HIDE DEF range
  <2> QED BY <2>1, <2>2, <2>3, PassDownExact
<1>7. CASE LoadHit \/ LoadMiss \/ StoreAllocate
  <2>1. Top.c \in Levels
    BY <1>7, TopType DEF LoadHit, LoadMiss, StoreAllocate, Storing, Running
  <2>2. ASSUME NEW st \in CounterTable, st[LastStore]["EVICT"] = stats[LastStore]["EVICT"],
               NEW c \in Levels, NEW k \in {"LOAD", "HIT", "MISS"}, NEW n
        PROVE  Bump(st, c, k, n)[LastStore]["EVICT"] = stats[LastStore]["EVICT"]
    BY <2>2, BumpValue, LastLevels DEF Counters
  <2>3. CASE LoadHit \/ StoreAllocate
    <3>1. /\ memory' = memory
          /\ \E k \in {"LOAD", "HIT"} : \E n : stats' = Bump(stats, Top.c, k, n)
      BY <2>3 DEF LoadHit, StoreAllocate
    <3> QED BY <1>1, <2>1, <2>2, <3>1 DEF StoresExact
  <2>4. CASE LoadMiss
    <3> DEFINE st == Bump(stats, Top.c, "MISS", Smaller(TopLine, Top.range.length))
    <3>1. PICK source, range, callers :
                 /\ source \in {Cache[Top.c].victims_to, Cache[Top.c].load_from}
                 /\ Fetch(source, range, st, callers)
      BY <2>4 DEF LoadMiss
    <3>2. st[LastStore]["EVICT"] = stats[LastStore]["EVICT"]
      BY <1>1, <2>1, <2>2
    <3>3. st \in CounterTable
      <4>1. TopLine \in Nat /\ Top.range \in AddrRange
        BY <2>4, TopType DEF LoadMiss, Running
      <4>2. Smaller(TopLine, Top.range.length) \in Nat
        BY <4>1 DEF Smaller, AddrRange
      <4> QED BY <1>1, <2>1, <4>2, BumpType DEF Counters
    <3> HIDE DEF st
    <3>4. memory'["stores"] = memory["stores"]
      BY <1>1, <3>1 DEF Fetch, Accessed, AccessTable
    <3>5. source # None => source \in Levels
      BY <2>1, <3>1, LinksLeadDown
    <3>6. stats'[LastStore]["EVICT"] = stats[LastStore]["EVICT"]
      BY <2>2, <3>1, <3>2, <3>3, <3>5 DEF Fetch
    <3> QED BY <3>4, <3>6 DEF StoresExact
  <2> QED BY <1>7, <2>3, <2>4
<1>8. \/ UNCHANGED <<stats, memory>>
      \/ LoadHit \/ LoadMiss \/ StoreAllocate
      \/ LoadFill \/ StoreInject \/ InjectVictim
      \/ StoreForward \/ CreditVictim \/ FlushSlot
  BY DEF RunningStep, LoadStep, StoreStep, VictimStep, FlushStep, LoadReturn, StoreLookup,
     StoreDirty, StoreReturn, FlushClean, FlushReturn
<1> QED BY <1>2, <1>3, <1>4, <1>5, <1>6, <1>7, <1>8

MemoryInv ==
  walk.job # "reset_stats" => LoadsExact(stats, memory) /\ StoresExact(stats, memory)

LEMMA MemoryStaysExact ==
  LevelsReached /\ LoadsReachMemory /\ StoresReachMemory => (Spec => []MemoryInv)
<1> SUFFICES ASSUME LevelsReached, LoadsReachMemory, StoresReachMemory PROVE Spec => []MemoryInv
  OBVIOUS
<1>1. ASSUME NEW st, NEW m, \A c \in Levels : st[c] = Zero, m = NoAccess
      PROVE  LoadsExact(st, m) /\ StoresExact(st, m)
  <2>1. \A c \in Levels : /\ st[c]["EVICT"] = NothingMore /\ st[c]["LOAD"] = NothingMore
                          /\ st[c]["MISS"] = NothingMore
    BY <1>1 DEF Zero, NothingMore, Counters
  <2>2. m["stores"] = NothingMore /\ m["loads"] = NothingMore
    BY <1>1 DEF NoAccess, NothingMore
  <2>3. Plus(NothingMore, NothingMore) = NothingMore
    BY DEF Plus, NothingMore
  <2> QED BY <2>1, <2>2, <2>3, LastLevels DEF LoadsExact, StoresExact
<1>2. Init => MemoryInv
  BY <1>1 DEF Init, MemoryInv
<1>3. TypeOK /\ LoadsInv /\ SweptOrToCome /\ MemoryInv /\ [Next]_vars => MemoryInv'
  <2> SUFFICES ASSUME TypeOK, LoadsInv, SweptOrToCome, MemoryInv, [Next]_vars,
                      walk'.job # "reset_stats"
               PROVE  LoadsExact(stats', memory') /\ StoresExact(stats', memory')
    BY DEF MemoryInv, LoadsExact, StoresExact
  <2>1. CASE RunningStep
    <3>1. walk' = walk
      BY <2>1, StepOwes
    <3> QED BY <2>1, <3>1, RunningLoadsExact, RunningStoresExact DEF MemoryInv
  <2>2. ASSUME NEW job \in Jobs, StartWalk(job)
        PROVE  LoadsExact(stats', memory') /\ StoresExact(stats', memory')
    BY <2>2 DEF StartWalk, Idle, MemoryInv
  <2>3. ASSUME NEW range \in Ranges, Load(range) \/ Store(range)
        PROVE  LoadsExact(stats', memory') /\ StoresExact(stats', memory')
    <3>1. /\ memory' = memory /\ stats \in CounterTable
          /\ \E k \in {"LOAD", "STORE"} : stats' = Bump(stats, FirstLevel, k, range.length)
          /\ LoadsExact(stats, memory) /\ StoresExact(stats, memory)
      BY <2>3 DEF Load, Store, Idle, TypeOK, MemoryInv
    <3>2. /\ \A d \in Levels : /\ stats'[d]["MISS"] = stats[d]["MISS"]
                               /\ stats'[d]["EVICT"] = stats[d]["EVICT"]
                               /\ d # FirstLevel => stats'[d]["LOAD"] = stats[d]["LOAD"]
      BY <3>1, BumpValue, FirstLevelType DEF Counters
    <3> QED BY <3>1, <3>2, LastLevels DEF LoadsExact, StoresExact
  <2>4. CASE WalkStep /\ ~(WalkEnd /\ walk.job = "reset_stats")
    <3>1. walk.job # "reset_stats" /\ UNCHANGED <<stats, memory>>
      BY <2>4 DEF WalkStep, WalkOn, VisitFlush, VisitReset, VisitInvalidate, WalkEnd,
         Visiting, Visited, TypeOK, WalkState
    <3> QED BY <3>1 DEF MemoryInv
  <2>5. CASE WalkEnd /\ walk.job = "reset_stats"
    <3>1. stats' = stats /\ memory' = NoAccess
      BY <2>5 DEF WalkEnd
    <3>2. \A c \in Levels : stats'[c] = Zero
      BY <2>5, <3>1, NothingToCome DEF SweptOrToCome, WalkEnd
    <3> QED BY <1>1, <3>1, <3>2
  <2>6. CASE UNCHANGED vars
    BY <2>6 DEF vars, MemoryInv
  <2> QED BY <2>1, <2>2, <2>3, <2>4, <2>5, <2>6 DEF Next, Step, RunningStep, Call
<1> QED BY <1>2, <1>3, TypeCorrect, LoadsStayCounted, StaysSwept, PTL DEF Spec

\* Where only the last levels of MainMemory lead to main memory, the first of them
\* is asked for whole lines only and the second writes back, the statistics it
\* computes from their counters are, whenever no call is under way, the accesses
\* it has received, in number and in bytes, although it sees none of them: misses
\* of the last level less the hits of its victim cache are the loads that went on,
\* and its evictions the stores.
THEOREM MemoryIsCounted ==
  LevelsReached /\ LoadsReachMemory /\ StoresReachMemory => (Spec => []MemoryStatsExact)
<1> SUFFICES ASSUME LevelsReached, LoadsReachMemory, StoresReachMemory
             PROVE  Spec => []MemoryStatsExact
  OBVIOUS
<1>1. TypeOK /\ LoadsInv /\ MemoryInv => MemoryStatsExact
  <2> SUFFICES ASSUME TypeOK, LoadsInv, MemoryInv, Idle
               PROVE  MemoryStats["loads"] = memory["loads"] /\ MemoryStats["stores"] = memory["stores"]
    BY DEF MemoryStatsExact
  <2>1. LoadsExact(stats, memory) /\ StoresExact(stats, memory) /\ stack = <<>>
    BY DEF MemoryInv, Idle
  <2>2. MemoryStats["stores"] = memory["stores"]
    BY <2>1 DEF MemoryStats, StoresExact
  <2>3. CASE LastVictims = None
    BY <2>1, <2>2, <2>3 DEF MemoryStats, LoadsExact, LastVictims
  <2>4. CASE LastVictims # None
    <3> DEFINE x == stats[LastVictims]["HIT"]
               y == memory["loads"]
    <3>1. LastVictims \in HitOnly
      BY <2>4 DEF LoadsReachMemory
    <3>2. stats[LastVictims]["LOAD"] = Plus(Plus(x, NothingMore), NothingMore)
      BY <2>1, <3>1, IdleBalanced, HitOnlyServed DEF Balanced
    <3>3. x \in Counter /\ y \in Counter
      BY <2>4, LastLevels, CounterRecords DEF TypeOK, Counters, AccessTable
    <3>4. stats[LastLoad]["MISS"] = Plus(Plus(Plus(x, NothingMore), NothingMore), y)
      BY <2>1, <2>4, <3>2 DEF LoadsExact
    <3>5. MemoryStats["loads"] = Minus(stats[LastLoad]["MISS"], x)
      BY <2>4 DEF MemoryStats, LastVictims
    <3> HIDE DEF x, y
    <3>6. \A u, v \in Counter : Minus(Plus(Plus(Plus(u, NothingMore), NothingMore), v), u) = v
      BY DEF Minus, Plus, NothingMore, Counter
    <3>7. MemoryStats["loads"] = y
      BY <3>3, <3>4, <3>5, <3>6
    <3> QED BY <2>2, <3>7 DEF y
  <2> QED BY <2>2, <2>3, <2>4
<1> QED BY <1>1, TypeCorrect, LoadsStayCounted, MemoryStaysExact, PTL

(* What was fetched is still there. *)

\* g is the request of frame f for its line.
AsksFor(f, g) ==
  /\ g.fn \in Loading /\ g.c \in Levels /\ LoadsFrom(f.c, g.c)
  /\ g.range = LineRange(f.c, f.cl)

\* A load that is past its last line has it in its cache.
Delivered(p, f) ==
  LET last == LastCl(f.c, f.range)
  IN  /\ f.fn = "fill" => f.cl <= last
      /\ f.fn = "load" /\ ClId(f.c, f.range.addr) <= last /\ last < f.cl
           => Where(p, f.c, last) # -1

\* The line that f goes on with is in a cache that f loads from.
FoundBelow(p, f) ==
  LET In(d) == d # None /\ Where(p, d, ClId(d, f.cl * Cache[f.c].cl_size)) # -1
  IN  f.fn = "fill" => \/ Cache[f.c].load_from = None
                       \/ In(Cache[f.c].victims_to) \/ In(Cache[f.c].load_from)

Fetches(p, st) ==
  /\ \A i \in 1..Len(st) : Delivered(p, st[i])
  /\ \A i \in 1..Len(st) : i + 1 \in 1..Len(st) /\ st[i].fn = "fill" => AsksFor(st[i], st[i + 1])
  /\ st # <<>> => FoundBelow(p, st[Len(st)])

FetchInv == Fetches(placement, stack)

\* The steps of a frame move lines of its own cache only.
LEMMA OwnCacheOnly ==
  ASSUME TypeOK, RunningStep
  PROVE  \A d \in Levels : d # Top.c \/ Top.fn = "credit" => placement'[d] = placement[d]
<1>1. placement = [c \in Levels |-> placement[c]]
  BY DEF TypeOK, PlacementOK
<1>2. ASSUME Top.fn # "credit",
             \E s, q : placement' = [placement EXCEPT ![Top.c][s] = q]
      PROVE  \A d \in Levels : d # Top.c \/ Top.fn = "credit" => placement'[d] = placement[d]
  BY <1>1, <1>2
<1>3. CASE LoadFill \/ StoreInject \/ InjectVictim
  <2>1. Top.fn # "credit"
    BY <1>3 DEF LoadFill, StoreInject, InjectVictim, Storing, Running
  <2>2. \E e, idx, callers : Inject(Top.c, e, idx, callers)
    BY <1>3 DEF LoadFill, StoreInject, InjectVictim
  <2> QED BY <1>2, <2>1, <2>2 DEF Inject
<1>4. CASE LoadHit
  <2>1. Top.fn # "credit"
    BY <1>4 DEF LoadHit, Running
  <2>2. \/ placement' = placement
        \/ \E s, q : placement' = [placement EXCEPT ![Top.c][s] = q]
    BY <1>4 DEF LoadHit
  <2> QED BY <1>2, <2>1, <2>2
<1>5. CASE StoreDirty \/ FlushClean
  <2>1. Top.fn # "credit"
    BY <1>5 DEF StoreDirty, FlushClean, Running
  <2>2. \E s, w : placement' = [placement EXCEPT ![Top.c][s][w].dirty = TRUE]
          \/ placement' = [placement EXCEPT ![Top.c][s][w].dirty = FALSE]
    BY <1>5 DEF StoreDirty, FlushClean
  <2> QED BY <1>1, <2>1, <2>2
<1>6. placement' = placement
      \/ LoadFill \/ StoreInject \/ InjectVictim \/ LoadHit \/ StoreDirty \/ FlushClean
  BY DEF RunningStep, LoadStep, StoreStep, VictimStep, FlushStep, LoadMiss, LoadReturn,
     StoreAllocate, StoreLookup, StoreForward, StoreReturn, CreditVictim, FlushSlot, FlushReturn
<1> QED BY <1>3, <1>4, <1>5, <1>6

\* What is left to show of a step is what concerns the running frame and those
\* that come in its place or above it.
LEMMA FetchesAfter ==
  ASSUME TypeOK, StackInv, FetchInv, stack # <<>>, NEW st, Follows(st), NEW p,
         \A d \in Levels : d # Top.c \/ Top.fn = "credit" => p[d] = placement[d],
         \A i \in Len(stack)..Len(st) : Delivered(p, st[i]),
         \A i \in Len(stack)..Len(st) :
           i + 1 \in 1..Len(st) /\ st[i].fn = "fill" => AsksFor(st[i], st[i + 1]),
         Len(st) >= Len(stack) => FoundBelow(p, st[Len(st)]),
         \A i \in 1..Len(stack) - 1 :
           i + 1 = Len(stack) /\ stack[i].fn = "fill" =>
             IF Len(st) >= Len(stack) THEN AsksFor(stack[i], st[i + 1])
             ELSE FoundBelow(p, stack[i])
  PROVE  Fetches(p, st)
<1> DEFINE n == Len(stack)
           m == Len(st)
<1>1. /\ n \in Nat \ {0} /\ n \in 1..n /\ Top = stack[n] /\ Top \in Frame
      /\ stack \in Seq(Frame) /\ \A i \in 1..n : stack[i] \in Frame
  BY Split
<1>2. /\ m \in Nat /\ m >= n - 1
      /\ \A i \in 1..n - 1 : SameWork(stack[i], st[i])
  BY DEF Follows
<1> HIDE DEF n, m
<1>3. \A i \in 1..n - 1 : i \in 1..n /\ i \in 1..m /\ i + 1 \in 1..n /\ i < n
  BY <1>1, <1>2
<1>4. \A i \in 1..n - 1 : stack[i].fn # "write" => st[i] = stack[i]
  BY <1>2 DEF SameWork
<1>5. \A i \in 1..n - 1 : stack[i].fn = "write" => st[i].fn = "write"
  BY <1>2 DEF SameWork
<1>6. \A i \in 1..m : i \in 1..n - 1 \/ i \in n..m
  BY <1>1, <1>2
<1>7. ASSUME NEW i \in 1..n - 1 PROVE Delivered(p, st[i])
  <2>1. CASE stack[i].fn # "load"
    BY <1>3, <1>4, <1>5, <2>1 DEF Delivered, FetchInv, Fetches, n
  <2>2. CASE stack[i].fn = "load"
    <3>1. Delivered(placement, stack[i]) /\ st[i] = stack[i]
      BY <1>3, <1>4, <2>2 DEF FetchInv, Fetches, n
    <3>2. Above(stack[i], Top)
      BY <1>1, <1>3 DEF StackInv, Sound, Nested, n
    <3>3. stack[i].c \in Levels /\ stack[i].c \in Nat /\ Top.c \in Nat
      BY <1>1, <1>3, FrameLevel
    <3>4. stack[i].c # Top.c \/ Top.fn = "credit"
      BY <2>2, <3>2, <3>3 DEF Above
    <3>5. p[stack[i].c] = placement[stack[i].c]
      BY <3>3, <3>4
    <3> QED BY <3>1, <3>5 DEF Delivered, Where
  <2> QED BY <2>1, <2>2
<1>8. ASSUME NEW i \in 1..n - 1, i + 1 \in 1..m, st[i].fn = "fill"
      PROVE  AsksFor(st[i], st[i + 1])
  <2>1. st[i] = stack[i]
    BY <1>4, <1>5, <1>8
  <2>2. CASE i + 1 = n
    BY <1>2, <1>8, <2>1, <2>2 DEF n, m
  <2>3. CASE i + 1 # n
    <3>1. i + 1 \in 1..n - 1
      BY <1>1, <2>3
    <3>2. AsksFor(stack[i], stack[i + 1])
      BY <1>3, <1>8, <2>1 DEF FetchInv, Fetches, n
    <3>3. st[i + 1] = stack[i + 1]
      BY <1>4, <3>1, <3>2 DEF AsksFor, Loading
    <3> QED BY <2>1, <3>2, <3>3
  <2> QED BY <2>2, <2>3
<1>9. ASSUME st # <<>> PROVE FoundBelow(p, st[m])
  <2>1. CASE m >= n
    BY <2>1 DEF n, m
  <2>2. CASE ~(m >= n) /\ m # 0
    <3>1. m \in 1..n - 1 /\ m + 1 = n
      BY <1>1, <1>2, <2>2
    <3>2. stack[m].fn = "fill" => FoundBelow(p, stack[m])
      BY <2>2, <3>1 DEF n, m
    <3>3. stack[m].fn # "fill" => st[m].fn # "fill"
      BY <1>4, <1>5, <3>1
    <3> QED BY <1>4, <3>1, <3>2, <3>3 DEF FoundBelow
  <2>3. m # 0
    BY <1>9 DEF Follows, m
  <2> QED BY <2>1, <2>2, <2>3
<1>10. \A i \in n..m : Delivered(p, st[i])
  BY DEF n, m
<1>11. \A i \in n..m : i + 1 \in 1..m /\ st[i].fn = "fill" => AsksFor(st[i], st[i + 1])
  BY DEF n, m
<1>12. \A i \in 1..m : Delivered(p, st[i])
  BY <1>6, <1>7, <1>10
<1>13. \A i \in 1..m : i + 1 \in 1..m /\ st[i].fn = "fill" => AsksFor(st[i], st[i + 1])
  BY <1>6, <1>8, <1>11
<1> QED BY <1>9, <1>12, <1>13 DEF Fetches, m

\* Only loads make fill frames and need the lines of others.
LEMMA OtherStepsFetch ==
  ASSUME TypeOK, StackInv, Tidy, FetchInv, RunningStep, ~LoadStep
  PROVE  FetchInv'
<1> DEFINE n == Len(stack)
           m == Len(stack')
<1>1. stack # <<>> /\ Follows(stack')
  BY StepFollows
<1>2. Top.fn \notin Loading
  BY DEF RunningStep, LoadStep, StoreStep, VictimStep, FlushStep, StoreAllocate, StoreInject,
     Storing, StoreLookup, StoreDirty, StoreForward, StoreReturn, InjectVictim, CreditVictim,
     FlushSlot, FlushClean, FlushReturn, Running, Loading
<1>3. \A i \in n..m : /\ stack'[i].fn # "fill"
                      /\ stack'[i].fn = "load" => stack'[i].cl = ClId(stack'[i].c, stack'[i].range.addr)
  BY <1>1, <1>2 DEF Follows, MayCome
<1>4. n \in Nat \ {0} /\ m \in Nat /\ stack' \in Seq(Frame) /\ n \in 1..n /\ Top = stack[n]
  BY <1>1, Split DEF Follows
<1>5. \A i \in n..m : Delivered(placement', stack'[i])
  <2> SUFFICES ASSUME NEW i \in n..m PROVE Delivered(placement', stack'[i])
    OBVIOUS
  <2>1. i \in 1..m
    BY <1>4
  <2> DEFINE f == stack'[i]
  <2>2. f \in Frame
    BY <1>4, <2>1
  <2>4. f.fn # "fill" /\ (f.fn = "load" => f.cl = ClId(f.c, f.range.addr))
    BY <1>3
  <2> HIDE DEF f
  <2>3. LastCl(f.c, f.range) \in Int /\ ClId(f.c, f.range.addr) \in Int
    <3>1. f.c \in Levels /\ f.range \in AddrRange /\ f.range.addr \in Nat
      BY <2>2 DEF Frame, AddrRange
    <3> QED BY <3>1, ClIdType
  <2>5. Delivered(placement', f)
    BY <2>3, <2>4 DEF Delivered
  <2> QED BY <2>5 DEF f
<1>6. m >= n => FoundBelow(placement', stack'[m])
  <2>1. m >= n => m \in n..m
    BY <1>4
  <2> QED BY <1>3, <2>1 DEF FoundBelow
<1>7. \A i \in 1..n - 1 : ~(i + 1 = n /\ stack[i].fn = "fill")
  <2> SUFFICES ASSUME NEW i \in 1..n - 1, i + 1 = n, stack[i].fn = "fill" PROVE FALSE
    OBVIOUS
  <2>1. i \in 1..n
    BY <1>4
  <2>2. AsksFor(stack[i], stack[n])
    BY <1>4, <2>1 DEF FetchInv, Fetches
  <2> QED BY <1>2, <1>4, <2>2 DEF AsksFor
<1>8. \A d \in Levels : d # Top.c \/ Top.fn = "credit" => placement'[d] = placement[d]
  BY OwnCacheOnly
<1>9. Fetches(placement', stack')
  <2> HIDE DEF n, m
  <2>1. \A i \in n..m : i + 1 \in 1..m /\ stack'[i].fn = "fill" => AsksFor(stack'[i], stack'[i + 1])
    BY <1>3
  <2> QED BY <1>1, <1>5, <1>6, <1>7, <1>8, <2>1, FetchesAfter DEF n, m
<1> QED BY <1>9 DEF FetchInv

\* A load goes on with its next line, which is the last but one behind it when
\* the line just found was the last.
LEMMA NextDelivered ==
  ASSUME NEW f \in Frame, f.fn \in Loading, f.cl <= LastCl(f.c, f.range), NEW p,
         Where(p, f.c, f.cl) # -1,
         NEW g, g.fn = "load", g.c = f.c, g.cl = f.cl + 1, g.range = f.range
  PROVE  Delivered(p, g)
<1>1. f.c \in Levels /\ f.range \in AddrRange /\ f.cl \in Nat
  BY DEF Frame
<1>2. LastCl(f.c, f.range) \in Int
  BY <1>1, ClIdType
<1>3. LastCl(f.c, f.range) < f.cl + 1 => LastCl(f.c, f.range) = f.cl
  BY <1>1, <1>2
<1> QED BY <1>3 DEF Delivered

LEMMA TopDelivered ==
  ASSUME TypeOK, FetchInv, stack # <<>>
  PROVE  /\ Delivered(placement, Top) /\ FoundBelow(placement, Top)
         /\ \A i \in 1..Len(stack) - 1 : i + 1 = Len(stack) /\ stack[i].fn = "fill" =>
              AsksFor(stack[i], Top)
<1>1. /\ Len(stack) \in Nat \ {0} /\ Top = stack[Len(stack)] /\ Len(stack) \in 1..Len(stack)
  BY Split
<1>2. \A i \in 1..Len(stack) - 1 : i \in 1..Len(stack)
  BY <1>1
<1> QED BY <1>1, <1>2 DEF FetchInv, Fetches

\* The frames of a load that goes on.
LEMMA GoesOnFetching ==
  ASSUME TypeOK, StackInv, FetchInv, stack # <<>>, Top.fn \in Loading, NEW p,
         \A d \in Levels : d # Top.c => p[d] = placement[d],
         NEW g \in Frame, g.fn \in Loading, g.c = Top.c, g.range = Top.range, Delivered(p, g),
         NEW st, Follows(st), Len(st) >= Len(stack), st[Len(stack)] = g,
         \A i \in Len(stack) + 1 .. Len(st) : Delivered(p, st[i]) /\ st[i].fn # "fill",
         g.fn = "fill" => IF Len(st) = Len(stack) THEN FoundBelow(p, g)
                          ELSE AsksFor(g, st[Len(stack) + 1])
  PROVE  Fetches(p, st)
<1> DEFINE n == Len(stack)
           m == Len(st)
<1>1. n \in Nat \ {0} /\ m \in Nat /\ n <= m
  BY Split DEF Follows
<1> HIDE DEF n, m
<1>2. \A i \in n..m : i = n \/ i \in n + 1 .. m
  BY <1>1
<1>3. \A i \in n..m : Delivered(p, st[i])
  BY <1>2 DEF n, m
<1>4. \A i \in n..m : i + 1 \in 1..m /\ st[i].fn = "fill" => AsksFor(st[i], st[i + 1])
  <2> SUFFICES ASSUME NEW i \in n..m, i + 1 \in 1..m, st[i].fn = "fill"
               PROVE  AsksFor(st[i], st[i + 1])
    OBVIOUS
  <2>1. i = n
    BY <1>2 DEF n, m
  <2>2. m # n
    BY <1>1, <2>1
  <2> QED BY <2>1, <2>2 DEF n, m
<1>5. FoundBelow(p, st[m])
  <2>1. CASE m = n
    BY <2>1 DEF n, m, FoundBelow
  <2>2. CASE m # n
    <3>1. m \in n + 1 .. m
      BY <1>1, <2>2
    <3> QED BY <3>1 DEF n, m, FoundBelow
  <2> QED BY <2>1, <2>2
<1>6. \A i \in 1..n - 1 : i + 1 = n /\ stack[i].fn = "fill" => AsksFor(stack[i], st[i + 1])
  <2> SUFFICES ASSUME NEW i \in 1..n - 1, i + 1 = n, stack[i].fn = "fill"
               PROVE  AsksFor(stack[i], st[i + 1])
    OBVIOUS
  <2>1. AsksFor(stack[i], Top)
    BY TopDelivered DEF n
  <2> QED BY <2>1 DEF AsksFor, n
<1>7. Top.fn # "credit"
  BY DEF Loading
<1> QED BY <1>1, <1>3, <1>4, <1>5, <1>6, <1>7, FetchesAfter DEF n, m

\* A hit leaves its line in the set.
LEMMA HitStays ==
  ASSUME TypeOK, LoadHit
  PROVE  Where(placement', Top.c, Top.cl) # -1
<1> DEFINE c   == Top.c
           cl  == Top.cl
           loc == Location(c, cl)
           q   == placement[c][SetId(c, cl)]
<1>1. /\ stack # <<>> /\ c \in Levels /\ cl \in Nat /\ TopSet = SetId(c, cl) /\ SetId(c, cl) \in Sets(c)
  BY TopType, GeometryType DEF LoadHit, TopSet
<1>2. loc # -1 /\ Where(placement, c, cl) # -1
  BY LocationIsWhere DEF LoadHit
<1>3. q \in [Ways(c) -> Entry] /\ PlacementOK
  BY <1>1 DEF TypeOK, PlacementOK
<1>4. loc \in Ways(c) /\ Holds(q[loc], cl)
  BY <1>1, <1>2, LocationHolds DEF TypeOK
<1>5. CASE UNCHANGED placement
  BY <1>2, <1>5 DEF Where
<1>6. CASE placement' = [placement EXCEPT ![Top.c][TopSet] = PushFront(@, loc, @[loc])]
  <2> DEFINE r == PushFront(q, loc, q[loc])
  <2>1. placement' = [placement EXCEPT ![c][SetId(c, cl)] = r]
    BY <1>1, <1>6
  <2>2. 0 \in Ways(c)
    BY <1>1, GeometryType
  <2>3. Holds(r[0], cl)
    <3> HIDE DEF q, loc
    <3> QED BY <1>3, <1>4, <2>2 DEF PushFront
  <2> HIDE DEF r, q, loc, c, cl
  <2>4. WayOf(c, r, cl) # -1
    BY <1>1, <2>2, <2>3, WayOfHolds
  <2> QED BY <1>1, <1>3, <2>1, <2>4, NewWhere DEF c, cl
<1> QED BY <1>5, <1>6 DEF LoadHit

LEMMA LoadHitFetches ==
  ASSUME TypeOK, StackInv, Tidy, FetchInv, LoadHit
  PROVE  FetchInv'
<1>1. /\ stack # <<>> /\ Top \in Frame /\ Top.fn = "load" /\ Top.fn \in Loading /\ Top.c \in Levels
      /\ Top.cl <= LastCl(Top.c, Top.range)
  BY TopType DEF LoadHit, Loading
<1>2. PICK w \in Nat : stack' = Continue([Top EXCEPT !.cl = @ + 1, !.loc = w])
  <2>1. 0 \in Nat /\ Cache[Top.c].ways - 1 \in Nat
    BY <1>1, CacheType
  <2> QED BY <2>1 DEF LoadHit
<1> DEFINE g == [Top EXCEPT !.cl = @ + 1, !.loc = w]
<1>3. g \in Frame /\ g.fn = "load" /\ g.c = Top.c /\ g.cl = Top.cl + 1 /\ g.range = Top.range
  <2>1. g \in Frame
    BY <1>1, FrameSteps
  <2> QED BY <1>1, <2>1, FrameFields
<1>4. stack' = Continue(g)
  BY <1>2
<1> HIDE DEF g
<1>5. RunningStep
  BY DEF RunningStep, LoadStep
<1>6. Follows(stack') /\ \A d \in Levels : d # Top.c => placement'[d] = placement[d]
  BY <1>5, StepFollows, OwnCacheOnly
<1>7. Delivered(placement', g)
  BY <1>1, <1>3, HitStays, NextDelivered
<1>8. Len(stack') = Len(stack) /\ stack'[Len(stack)] = g /\ Len(stack) \in Nat
  <2>1. Len(stack) \in Nat /\ Callers \in Seq(Frame) /\ Len(Callers) = Len(stack) - 1
    BY <1>1, Split
  <2> QED BY <1>3, <1>4, <2>1, Pushed DEF Continue
<1>9. \A i \in Len(stack) + 1 .. Len(stack') : FALSE
  BY <1>8
<1>10. Fetches(placement', stack')
  BY <1>1, <1>3, <1>6, <1>7, <1>8, <1>9, GoesOnFetching DEF Loading
<1> QED BY <1>10 DEF FetchInv

LEMMA CallDelivered ==
  ASSUME NEW f \in Frame, f.fn = "load", f.cl = ClId(f.c, f.range.addr), NEW p
  PROVE  Delivered(p, f)
<1>1. f.c \in Levels /\ f.range \in AddrRange
  BY DEF Frame
<1>2. LastCl(f.c, f.range) \in Int /\ ClId(f.c, f.range.addr) \in Int
  BY <1>1, ClIdType
<1> QED BY <1>2 DEF Delivered

LEMMA LoadMissFetches ==
  ASSUME TypeOK, StackInv, Tidy, FetchInv, LoadMiss
  PROVE  FetchInv'
<1> DEFINE c    == Top.c
           cl   == Top.cl
           line == LineRange(c, cl)
           g    == [Top EXCEPT !.fn = "fill"]
           n    == Len(stack)
<1>1. /\ stack # <<>> /\ Top \in Frame /\ Top.fn \in Loading /\ c \in Levels /\ cl \in Nat
      /\ cl <= LastCl(c, Top.range) /\ placement' = placement
  BY TopType DEF LoadMiss, Loading
<1>2. PICK source : /\ LoadsFrom(c, source)
                    /\ source = None => Cache[c].load_from = None
                    /\ \E st : Fetch(source, line, st, Continue(g))
  <2> DEFINE victimHit == Cache[c].victims_to # None /\ Location(Cache[c].victims_to, cl) # -1
             source == IF victimHit THEN Cache[c].victims_to ELSE Cache[c].load_from
  <2>1. \E st : Fetch(source, line, st, Continue(g))
    BY DEF LoadMiss
  <2>2. LoadsFrom(c, source) /\ (source = None => Cache[c].load_from = None)
    BY DEF LoadsFrom
  <2> HIDE DEF source, g, line, c
  <2> QED BY <2>1, <2>2
<1>3. g \in Frame /\ g.c = c /\ g.fn = "fill" /\ g.cl = cl /\ g.range = Top.range
  BY <1>1, FrameSteps, FrameFields
<1>4. line \in AddrRange
  BY <1>1, GeometryType
<1> DEFINE h == LoadCall(source, line)
<1>5. source # None => source \in Levels /\ h \in Frame
  <2>1. source # None => source \in Levels
    BY <1>1, <1>2, LinksLeadDown DEF LoadsFrom
  <2> HIDE DEF line
  <2> QED BY <1>4, <2>1, CallFrames
<1>6. h.fn = "load" /\ h.c = source /\ h.range = line /\ h.cl = ClId(source, line.addr)
  BY DEF LoadCall
<1>7. stack' = IF source = None THEN Continue(g) ELSE Append(Continue(g), h)
  BY <1>2 DEF Fetch
<1>8. RunningStep
  BY DEF RunningStep, LoadStep
<1>9. Follows(stack') /\ \A d \in Levels : d # Top.c => placement'[d] = placement[d]
  BY <1>8, StepFollows, OwnCacheOnly
<1> HIDE DEF g, h, line, c, cl
<1>10. /\ n \in Nat \ {0} /\ Continue(g) \in Seq(Frame) /\ Len(Continue(g)) = n
       /\ Continue(g)[n] = g
  <2>1. n \in Nat \ {0} /\ Callers \in Seq(Frame) /\ Len(Callers) = n - 1
    BY <1>1, Split
  <2> QED BY <1>3, <2>1, Pushed DEF Continue
<1>11. Delivered(placement', g)
  BY <1>1, <1>3 DEF Delivered, c, cl
<1>12. CASE source = None
  <2>1. stack' = Continue(g) /\ FoundBelow(placement', g)
    BY <1>2, <1>3, <1>7, <1>12 DEF FoundBelow
  <2>2. \A i \in n + 1 .. Len(stack') : FALSE
    BY <1>10, <2>1
  <2>3. Fetches(placement', stack')
    BY <1>1, <1>3, <1>9, <1>10, <1>11, <2>1, <2>2, GoesOnFetching DEF Loading, c
  <2> QED BY <2>3 DEF FetchInv
<1>13. CASE source # None
  <2>1. /\ Len(stack') = n + 1 /\ stack'[n] = g /\ stack'[n + 1] = h /\ n <= n + 1 /\ n + 1 # n
        /\ \A i \in n + 1 .. n + 1 : i = n + 1
    <3>1. n \in 1..n
      BY <1>10
    <3> QED BY <1>5, <1>7, <1>10, <1>13, <3>1, Pushed
  <2>2. AsksFor(g, h)
    BY <1>2, <1>3, <1>5, <1>6, <1>13 DEF AsksFor, Loading, line
  <2>3. Delivered(placement', h)
    BY <1>5, <1>6, <1>13, CallDelivered
  <2>4. \A i \in n + 1 .. Len(stack') : Delivered(placement', stack'[i]) /\ stack'[i].fn # "fill"
    BY <1>6, <2>1, <2>3
  <2>5. Fetches(placement', stack')
    BY <1>1, <1>3, <1>9, <1>10, <1>11, <2>1, <2>2, <2>4, GoesOnFetching DEF Loading, c
  <2> QED BY <2>5 DEF FetchInv
<1> QED BY <1>12, <1>13

\* Cache__inject calls no load.
LEMMA InjectCalls ==
  ASSUME TypeOK, NEW c \in Levels, NEW e \in Entry, NEW idx \in ReplaceIdx(c),
         NEW callers \in Seq(Frame), Inject(c, e, idx, callers)
  PROVE  /\ Len(stack') >= Len(callers)
         /\ \A i \in 1..Len(callers) : stack'[i] = callers[i]
         /\ \A i \in Len(callers) + 1 .. Len(stack') : stack'[i].fn \in {"store", "credit", "inject"}
<1> DEFINE s     == SetId(c, e.cl_id)
           old   == ReplaceEntry(c, placement[c][s], idx)
           below == Cache[c].victims_to
           down  == Cache[c].store_to
           f     == CreditFrame(c)
           g     == InjectCall(below, old)
           k     == Len(callers)
<1>1. \/ \E range, nt : stack' = Append(callers, StoreCall(down, range, nt))
      \/ stack' = Append(Append(callers, f), g)
      \/ stack' = callers
  BY DEF Inject, PassDown
<1>2. f.fn = "credit" /\ g.fn = "inject" /\ \A range, nt : StoreCall(down, range, nt).fn = "store"
  BY DEF CreditFrame, InjectCall, StoreCall
<1>3. k \in Nat
  OBVIOUS
<1> HIDE DEF s, old, below, down, f, g
<1>4. \A x : /\ Len(Append(callers, x)) = k + 1 /\ Append(callers, x)[k + 1] = x
             /\ \A i \in 1..k : Append(callers, x)[i] = callers[i]
  OBVIOUS
<1>5. \A x, y : /\ Len(Append(Append(callers, x), y)) = k + 2
                /\ Append(Append(callers, x), y)[k + 1] = x
                /\ Append(Append(callers, x), y)[k + 2] = y
                /\ \A i \in 1..k : Append(Append(callers, x), y)[i] = callers[i]
  OBVIOUS
<1> HIDE DEF k
<1>6. CASE stack' = callers
  BY <1>3, <1>6 DEF k
<1>7. CASE \E range, nt : stack' = Append(callers, StoreCall(down, range, nt))
  <2>1. PICK x : stack' = Append(callers, x) /\ x.fn = "store"
    BY <1>2, <1>7
  <2>2. \A i \in k + 1 .. k + 1 : i = k + 1
    BY <1>3
  <2>3. k + 1 >= k
    BY <1>3
  <2> QED BY <1>4, <2>1, <2>2, <2>3 DEF k
<1>8. CASE stack' = Append(Append(callers, f), g)
  <2>1. \A i \in k + 1 .. k + 2 : i = k + 1 \/ i = k + 2
    BY <1>3
  <2>2. k + 2 >= k
    BY <1>3
  <2> QED BY <1>2, <1>5, <1>8, <2>1, <2>2 DEF k
<1> QED BY <1>1, <1>6, <1>7, <1>8

LEMMA LoadFillFetches ==
  ASSUME TypeOK, StackInv, Tidy, FetchInv, LoadFill
  PROVE  FetchInv'
<1> DEFINE c == Top.c
           e == [cl_id |-> Top.cl, dirty |-> FALSE, invalid |-> FALSE]
           q == placement[c][SetId(c, Top.cl)]
           n == Len(stack)
<1>1. /\ stack # <<>> /\ Top \in Frame /\ Top.fn = "fill" /\ Top.fn \in Loading /\ c \in Levels
      /\ Top.cl \in Nat
  BY TopType DEF LoadFill, Loading
<1>2. Where(placement, c, Top.cl) = -1 /\ Top.cl <= LastCl(c, Top.range)
  BY <1>1, TopSettled, TopDelivered DEF Settled, Delivered
<1>3. e \in Entry /\ ~e.invalid /\ e.cl_id = Top.cl
  BY <1>1 DEF Entry
<1>4. PICK idx \in ReplaceIdx(c) :
        Inject(c, e, idx, Continue([Top EXCEPT !.fn = "load", !.cl = @ + 1, !.loc = idx]))
  BY DEF LoadFill
<1> DEFINE g == [Top EXCEPT !.fn = "load", !.cl = @ + 1, !.loc = idx]
<1>5. placement' = [placement EXCEPT ![c][SetId(c, Top.cl)] = Injected(c, q, idx, e)]
  BY <1>3, <1>4 DEF Inject
<1>6. idx \in Nat
  BY <1>1, ReplaceIdxType, GeometryType
<1>7. g \in Frame /\ g.c = c /\ g.fn = "load" /\ g.cl = Top.cl + 1 /\ g.range = Top.range
  <2>1. g \in Frame
    BY <1>1, <1>6, FrameSteps
  <2> QED BY <1>1, <2>1, FrameFields
<1>8. q \in [Ways(c) -> Entry] /\ PlacementOK
  BY <1>1, GeometryType DEF TypeOK, PlacementOK
<1>9. Inject(c, e, idx, Continue(g))
  BY <1>4
<1> HIDE DEF e, c, q, g
<1>10. Where(placement', c, Top.cl) # -1
  <2>1. WayOf(c, q, Top.cl) = -1
    BY <1>2 DEF Where, q
  <2>2. WayOf(c, Injected(c, q, idx, e), Top.cl) = idx
    BY <1>1, <1>3, <1>8, <2>1, InjectedWay DEF c
  <2>3. Where(placement', c, Top.cl) = idx
    BY <1>1, <1>5, <1>8, <2>2, NewWhere
  <2> QED BY <1>6, <2>3
<1>11. RunningStep
  BY DEF RunningStep, LoadStep
<1>12. Follows(stack') /\ \A d \in Levels : d # Top.c => placement'[d] = placement[d]
  BY <1>11, StepFollows, OwnCacheOnly
<1>13. Delivered(placement', g)
  BY <1>1, <1>2, <1>7, <1>10, NextDelivered DEF c
<1>14. /\ n \in Nat \ {0} /\ n \in 1..n /\ Continue(g) \in Seq(Frame) /\ Len(Continue(g)) = n
       /\ Continue(g)[n] = g
  <2>1. n \in Nat \ {0} /\ Callers \in Seq(Frame) /\ Len(Callers) = n - 1
    BY <1>1, Split
  <2> QED BY <1>7, <2>1, Pushed DEF Continue
<1>15. /\ Len(stack') >= n /\ stack'[n] = g
       /\ \A i \in n + 1 .. Len(stack') : stack'[i].fn \in {"store", "credit", "inject"}
  BY <1>1, <1>3, <1>9, <1>14, InjectCalls DEF c
<1>16. \A i \in n + 1 .. Len(stack') : Delivered(placement', stack'[i]) /\ stack'[i].fn # "fill"
  BY <1>15 DEF Delivered
<1>17. Fetches(placement', stack')
  BY <1>1, <1>7, <1>12, <1>13, <1>15, <1>16, GoesOnFetching DEF Loading, c
<1> QED BY <1>17 DEF FetchInv

LEMMA LoadReturnFetches ==
  ASSUME LinesWiden, TypeOK, StackInv, Tidy, FetchInv, LoadReturn
  PROVE  FetchInv'
<1> DEFINE n == Len(stack)
<1>1. /\ stack # <<>> /\ Top \in Frame /\ Top.fn = "load" /\ Top.fn \in Loading /\ Top.c \in Levels
      /\ Top.cl > LastCl(Top.c, Top.range) /\ placement' = placement
      /\ Top.cl \in Nat /\ Top.range \in AddrRange
  BY TopType DEF LoadReturn, Loading
<1>2. RunningStep
  BY DEF RunningStep, LoadStep
<1>3. Follows(stack')
  BY <1>2, StepFollows
<1>4. n \in Nat \ {0} /\ stack \in Seq(Frame) /\ Len(stack') = n - 1
  <2>1. n \in Nat \ {0} /\ stack \in Seq(Frame) /\ Callers \in Seq(Frame) /\ Len(Callers) = n - 1
    BY <1>1, Split
  <2>2. \A x \in Seq(Frame) : \A i, y : Len([x EXCEPT ![i] = y]) = Len(x)
    OBVIOUS
  <2>3. Len(Returned(Callers, Top.loc)) = Len(Callers)
    BY <2>1, <2>2 DEF Returned
  <2> QED BY <2>1, <2>3 DEF LoadReturn
<1>5. ASSUME NEW i \in 1..n - 1, i + 1 = n, stack[i].fn = "fill"
      PROVE  FoundBelow(placement, stack[i])
  <2> DEFINE f    == stack[i]
             d    == Top.c
             last == LastCl(d, Top.range)
             line == LineRange(f.c, f.cl)
  <2>1. f \in Frame /\ f.c \in Levels /\ f.cl \in Nat
    <3>1. i \in 1..n
      BY <1>4
    <3>2. f \in Frame
      BY <1>4, <3>1
    <3> QED BY <3>2 DEF Frame
  <2>2. AsksFor(f, Top) /\ Delivered(placement, Top)
    BY <1>1, <1>5, TopDelivered
  <2>3. d \in Levels /\ LoadsFrom(f.c, d) /\ Top.range = line
    BY <2>2 DEF AsksFor
  <2>4. Widens(f.c, d)
    BY <2>1, <2>3 DEF LinesWiden
  <2>5. last = ClId(d, line.addr)
    BY <2>1, <2>3, <2>4, LineInLine
  <2>6. ClId(d, Top.range.addr) <= last /\ last < Top.cl
    <3>1. last \in Int
      BY <1>1, ClIdType
    <3> QED BY <1>1, <2>3, <2>5, <3>1
  <2>7. Where(placement, d, last) # -1
    BY <1>1, <2>2, <2>6 DEF Delivered
  <2>8. d # None
    BY <1>1, CacheType DEF None, Levels
  <2>9. line.addr = f.cl * Cache[f.c].cl_size
    BY DEF LineRange
  <2> HIDE DEF last, line
  <2> QED BY <2>3, <2>5, <2>7, <2>8, <2>9 DEF FoundBelow, LoadsFrom
<1>6. \A i \in n..n - 1 : FALSE
  BY <1>4
<1>7. ~(Len(stack') >= n)
  BY <1>4
<1>8. \A d \in Levels : d # Top.c \/ Top.fn = "credit" => placement'[d] = placement[d]
  BY <1>1
<1>9. Fetches(placement', stack')
  BY <1>1, <1>3, <1>4, <1>5, <1>6, <1>7, <1>8, FetchesAfter
<1> QED BY <1>9 DEF FetchInv

LEMMA IdleFetches ==
  ASSUME TypeOK, FetchInv, Call \/ WalkStep
  PROVE  FetchInv'
<1>1. stack' = <<>> \/ \E f \in Frame : /\ stack' = <<f>> /\ f.fn # "fill"
                                        /\ f.fn = "load" => f.cl = ClId(f.c, f.range.addr)
  <2>1. CASE \E range \in Ranges : Load(range) \/ Store(range)
    <3>1. PICK range \in Ranges : Load(range) \/ Store(range)
      BY <2>1
    <3> DEFINE f == LoadCall(FirstLevel, range)
               g == StoreCall(FirstLevel, range, FALSE)
    <3>2. range \in AddrRange /\ FirstLevel \in Levels
      BY HierarchyAssumption, FirstLevelType
    <3>3. f \in Frame /\ g \in Frame
      BY <3>2, CallFrames
    <3>4. f.fn = "load" /\ f.cl = ClId(f.c, f.range.addr) /\ g.fn = "store"
      BY DEF LoadCall, StoreCall
    <3>5. stack' = <<f>> \/ stack' = <<g>>
      BY <3>1 DEF Load, Store
    <3> HIDE DEF f, g
    <3> QED BY <3>3, <3>4, <3>5
  <2>2. CASE VisitFlush
    <3> DEFINE f == FlushCall(Head(walk.pending))
    <3>1. walk.pending \in Seq(Levels) /\ walk.pending # <<>>
      BY <2>2 DEF VisitFlush, Visiting, TypeOK, WalkState
    <3>2. f \in Frame /\ f.fn = "flush" /\ stack' = <<f>>
      BY <2>2, <3>1, FlushFrame DEF VisitFlush, FlushCall
    <3> HIDE DEF f
    <3> QED BY <3>2
  <2>3. CASE \E job \in Jobs : StartWalk(job)
    BY <2>3 DEF StartWalk, Idle
  <2>4. CASE WalkOn \/ VisitReset \/ VisitInvalidate \/ WalkEnd
    BY <2>4 DEF WalkOn, VisitReset, VisitInvalidate, WalkEnd, WalkDone, Walking, Visiting
  <2> QED BY <2>1, <2>2, <2>3, <2>4 DEF Call, WalkStep
<1>2. CASE stack' = <<>>
  <2>1. \A i \in 1..Len(stack') : FALSE
    BY <1>2
  <2>2. Fetches(placement', stack')
    BY <1>2, <2>1 DEF Fetches
  <2> QED BY <2>2 DEF FetchInv
<1>3. ASSUME NEW f \in Frame, stack' = <<f>>, f.fn # "fill",
             f.fn = "load" => f.cl = ClId(f.c, f.range.addr)
      PROVE  FetchInv'
  <2> DEFINE st == <<f>>
  <2>1. Delivered(placement', f) /\ FoundBelow(placement', f)
    BY <1>3, CallDelivered DEF Delivered, FoundBelow
  <2>2. Len(st) = 1 /\ st[1] = f /\ (\A i \in 1..1 : i = 1) /\ stack' = st
    BY <1>3
  <2> HIDE DEF st
  <2>3. Fetches(placement', st)
    BY <1>3, <2>1, <2>2 DEF Fetches
  <2> QED BY <2>2, <2>3 DEF FetchInv
<1> QED BY <1>1, <1>2, <1>3

\* Where lines grow downwards, a load that goes on after its own request finds
\* its line in the victim cache or in load_from (backend.c:445): what that cache
\* evicts and passes on while it fetches the line never comes back to it.
THEOREM FetchedLineIsBelow == LinesWiden => (Spec => []FillFindsLineBelow)
<1> SUFFICES ASSUME LinesWiden PROVE Spec => []FillFindsLineBelow
  OBVIOUS
<1>1. Init => FetchInv
  <2>1. stack = <<>> => Fetches(placement, stack)
    <3>1. \A i \in 1..Len(<<>>) : FALSE
      OBVIOUS
    <3> QED BY <3>1 DEF Fetches
  <2> QED BY <2>1 DEF Init, FetchInv
<1>2. TypeOK /\ StackInv /\ Tidy /\ FetchInv /\ [Next]_vars => FetchInv'
  <2> SUFFICES ASSUME TypeOK, StackInv, Tidy, FetchInv, [Next]_vars PROVE FetchInv'
    OBVIOUS
  <2>1. CASE LoadStep
    BY <2>1, LoadHitFetches, LoadMissFetches, LoadFillFetches, LoadReturnFetches DEF LoadStep
  <2>2. CASE RunningStep /\ ~LoadStep
    BY <2>2, OtherStepsFetch
  <2>3. CASE Call \/ WalkStep
    BY <2>3, IdleFetches
  <2>4. CASE UNCHANGED vars
    BY <2>4 DEF vars, FetchInv
  <2> QED BY <2>1, <2>2, <2>3, <2>4 DEF Next, Step, RunningStep
<1>3. TypeOK /\ FetchInv => FillFindsLineBelow
  <2> SUFFICES ASSUME TypeOK, FetchInv, stack # <<>>, Top.fn = "fill"
               PROVE  FillFindsLineBelow
    BY DEF FillFindsLineBelow, Running
  <2> DEFINE k     == Cache[Top.c]
             In(d) == Location(d, ClId(d, Top.cl * k.cl_size)) # -1
  <2>1. FoundBelow(placement, Top)
    BY TopDelivered
  <2>2. \/ k.victims_to # None /\ In(k.victims_to)
        \/ k.load_from = None
        \/ In(k.load_from)
    BY <2>1, LocationIsWhere DEF FoundBelow
  <2> QED BY <2>2 DEF FillFindsLineBelow
<1> QED BY <1>1, <1>2, <1>3, TypeCorrect, FramesStaySound, StaysTidy, PTL DEF Spec

(* force_write_back. *)

\* The caches that a call of cache c may come to, c among them.
Downstream(c) ==
  {d \in Levels : \A S \in SUBSET Levels :
     c \in S /\ (\A q \in S : Linked(q) \ {None} \subseteq S) => d \in S}

\* What levels() has still to yield after place i of what it yields for p.
After(c, p, i) ==
  \/ \E j \in i + 1..Len(Yield(p)) : Yield(p)[j] = c
  \/ Cache[p].load_from # None /\ \E q \in Chain(Cache[p].load_from) : OneOf(c, Yield(q))

\* levels() yields every cache before those its lines may go to, so a cache that was
\* written back is not stored to again.
FlushedDownwards ==
  \A p \in Chain(FirstLevel) : \A i \in 1..Len(Yield(p)) :
    \A c \in Downstream(Yield(p)[i]) \ {Yield(p)[i]} : After(c, p, i)

\* What is still to come, when cache i of those pending is visited.
Behind(c, i) ==
  \/ \E j \in i + 1..Len(walk.pending) : walk.pending[j] = c
  \/ walk.p # None /\ \E q \in Chain(walk.p) : OneOf(c, Yield(q))

\* The loop keeps that order.
Ordered ==
  walk.job = "force_write_back" =>
    /\ walk.p # None => walk.p \in Chain(FirstLevel)
    /\ \A i \in 1..Len(walk.pending) :
         \A c \in Downstream(walk.pending[i]) \ {walk.pending[i]} : Behind(c, i)

CleanSlot(p, c, s, w) == p[c][s][w].invalid \/ ~p[c][s][w].dirty

Cleaned(p, c) == \A s \in Sets(c) : \A w \in Ways(c) : CleanSlot(p, c, s, w)

\* Frame f of force_write_back has left no dirty line behind.
Passed(p, f) ==
  \A s \in Sets(f.c) : \A w \in Ways(f.c) :
    s < f.cl \/ (s = f.cl /\ w < f.loc) => CleanSlot(p, f.c, s, w)

\* f writes its cache back: those it may store to are to come, the others are done.
FlushesFrom(p, f) ==
  /\ f.fn \in {"flush", "clean"}
  /\ Passed(p, f)
  /\ \A c \in Levels \ {f.c} :
       IF c \in Downstream(f.c) THEN ToCome(c) ELSE ToCome(c) \/ Cleaned(p, c)

FlushInv ==
  walk.job = "force_write_back" =>
    IF stack = <<>> THEN \A c \in Levels : ToCome(c) \/ Cleaned(placement, c)
    ELSE /\ FlushesFrom(placement, stack[1])
         /\ \A i \in 1..Len(stack) : stack[i].c \in Downstream(stack[1].c)

LEMMA DownstreamStart ==
  ASSUME NEW c \in Levels
  PROVE  c \in Downstream(c)
BY DEF Downstream

LEMMA DownstreamLinked ==
  ASSUME NEW c \in Levels, NEW d \in Downstream(c), NEW e \in Linked(d) \cap Levels
  PROVE  e \in Downstream(c)
<1> SUFFICES ASSUME NEW S \in SUBSET Levels, c \in S, \A q \in S : Linked(q) \ {None} \subseteq S
             PROVE  e \in S
  BY DEF Downstream
<1>1. d \in S
  BY DEF Downstream
<1>2. e # None
  BY DEF Levels, None
<1> QED BY <1>1, <1>2

\* The order of levels() is kept.
LEMMA OrderGoesOn ==
  ASSUME TypeOK, FlushedDownwards, Ordered, WalkOn
  PROVE  Ordered'
<1>1. walk.p \in Levels
  BY DEF WalkOn, TypeOK, WalkState
<1>2. /\ walk'.pending = Yield(walk.p) /\ walk'.p = Cache[walk.p].load_from
      /\ walk'.job = walk.job
  BY DEF WalkOn, TypeOK, WalkState
<1>3. CASE walk.job # "force_write_back"
  BY <1>2, <1>3 DEF Ordered
<1>4. CASE walk.job = "force_write_back"
  <2>1. walk.p \in Chain(FirstLevel)
    BY <1>1, <1>4 DEF Ordered, Levels, None
  <2>2. walk'.p # None => walk'.p \in Chain(FirstLevel)
    BY <1>2, <2>1, ChainClosed, FirstLevelType DEF Closed
  <2>3. ASSUME NEW i \in 1..Len(walk'.pending),
               NEW c \in Downstream(walk'.pending[i]) \ {walk'.pending[i]}
        PROVE  Behind(c, i)'
    <3>1. After(c, walk.p, i)
      BY <1>2, <2>1, <2>3 DEF FlushedDownwards
    <3> QED BY <1>2, <3>1 DEF After, Behind
  <2> QED BY <2>2, <2>3 DEF Ordered
<1> QED BY <1>3, <1>4

LEMMA OrderVisits ==
  ASSUME TypeOK, Ordered, walk.pending # <<>>, walk' = Visited
  PROVE  Ordered'
<1> DEFINE s == walk.pending
<1>1. s \in Seq(Levels)
  BY DEF TypeOK, WalkState
<1>2. walk'.pending = Tail(s) /\ walk'.p = walk.p /\ walk'.job = walk.job
  BY DEF Visited, TypeOK, WalkState
<1>3. /\ Len(Tail(s)) = Len(s) - 1 /\ Len(s) \in Nat
      /\ \A j \in 1..Len(s) - 1 : Tail(s)[j] = s[j + 1]
  BY <1>1
<1>4. ASSUME walk.job = "force_write_back", NEW i \in 1..Len(walk'.pending),
             NEW c \in Downstream(walk'.pending[i]) \ {walk'.pending[i]}
      PROVE  Behind(c, i)'
  <2>1. i + 1 \in 1..Len(s) /\ walk'.pending[i] = s[i + 1]
    <3> HIDE DEF s
    <3> QED BY <1>2, <1>3, <1>4
  <2>2. Behind(c, i + 1)
    BY <1>4, <2>1 DEF Ordered
  <2>3. ASSUME NEW j \in i + 2..Len(s), s[j] = c
        PROVE  \E k \in i + 1..Len(Tail(s)) : Tail(s)[k] = c
    <3> HIDE DEF s
    <3>1. j - 1 \in i + 1..Len(Tail(s)) /\ j - 1 \in 1..Len(s) - 1 /\ j - 1 + 1 = j
      BY <1>2, <1>3, <1>4, <2>3
    <3> QED BY <1>3, <2>3, <3>1
  <2>4. (i + 1) + 1 = i + 2
    BY <1>2, <1>4
  <2> QED BY <1>2, <2>2, <2>3, <2>4 DEF Behind
<1> QED BY <1>2, <1>4 DEF Ordered

LEMMA StaysOrdered == FlushedDownwards => (Spec => []Ordered)
<1> SUFFICES ASSUME FlushedDownwards PROVE Spec => []Ordered
  OBVIOUS
<1>1. Init => Ordered
  BY DEF Init, Ordered
<1>2. TypeOK /\ Ordered /\ [Next]_vars => Ordered'
  <2> SUFFICES ASSUME TypeOK, Ordered, [Next]_vars PROVE Ordered'
    OBVIOUS
  <2>1. CASE walk' = walk
    <3>1. \A c, i : Behind(c, i)' <=> Behind(c, i)
      BY <2>1 DEF Behind
    <3> QED BY <2>1, <3>1 DEF Ordered
  <2>2. CASE RunningStep
    BY <2>1, <2>2, StepOwes
  <2>3. ASSUME NEW job \in Jobs, StartWalk(job)
        PROVE  Ordered'
    <3>1. walk'.p = FirstLevel /\ walk'.pending = <<>>
      BY <2>3 DEF StartWalk
    <3>2. \A i \in 1..Len(walk'.pending) : FALSE
      BY <3>1
    <3> QED BY <3>1, <3>2, ChainStart, FirstLevelType DEF Ordered
  <2>4. ASSUME NEW range \in Ranges, Load(range) \/ Store(range)
        PROVE  Ordered'
    BY <2>1, <2>4 DEF Load, Store
  <2>5. CASE WalkOn
    BY <2>5, OrderGoesOn
  <2>6. CASE VisitFlush \/ VisitReset \/ VisitInvalidate
    BY <2>6, OrderVisits DEF VisitFlush, VisitReset, VisitInvalidate, Visiting
  <2>7. CASE WalkEnd
    <3>1. walk'.job # "force_write_back"
      BY <2>7 DEF WalkEnd, TypeOK, WalkState
    <3> QED BY <3>1 DEF Ordered
  <2>8. CASE UNCHANGED vars
    BY <2>1, <2>8 DEF vars
  <2> QED BY <2>2, <2>3, <2>4, <2>5, <2>6, <2>7, <2>8
          DEF Next, Step, RunningStep, Call, WalkStep
<1> QED BY <1>1, <1>2, TypeCorrect, PTL DEF Spec

\* The slot after the one of the running frame.
LEMMA NextSlotPlace ==
  ASSUME TypeOK, Running("flush") \/ Running("clean")
  PROVE  /\ NextSlot(Top).c = Top.c /\ NextSlot(Top).fn = "flush" /\ NextSlot(Top) \in Frame
         /\ IF Top.loc < Cache[Top.c].ways - 1
            THEN NextSlot(Top).cl = Top.cl /\ NextSlot(Top).loc = Top.loc + 1
            ELSE NextSlot(Top).cl = Top.cl + 1 /\ NextSlot(Top).loc = 0
<1> DEFINE f == [Top EXCEPT !.fn = "flush", !.loc = @ + 1]
           g == [Top EXCEPT !.fn = "flush", !.cl = @ + 1, !.loc = 0]
<1>1. Top \in Frame
  BY TopType
<1>2. f.cl = Top.cl /\ f.loc = Top.loc + 1 /\ g.cl = Top.cl + 1 /\ g.loc = 0
  BY <1>1 DEF Frame
<1>3. NextSlot(Top) = IF Top.loc < Cache[Top.c].ways - 1 THEN f ELSE g
  BY DEF NextSlot
<1> HIDE DEF f, g
<1> QED BY <1>2, <1>3, NextSlotFrame

LEMMA PassesSlot ==
  ASSUME TypeOK, Running("flush") \/ Running("clean"), Top.cl \in Sets(Top.c), NEW p,
         Passed(p, Top), CleanSlot(p, Top.c, Top.cl, Top.loc)
  PROVE  Passed(p, NextSlot(Top))
<1> DEFINE g == NextSlot(Top)
<1>1. /\ Top.c \in Levels /\ Top.cl \in Nat /\ Top.loc \in Ways(Top.c)
  BY TopType DEF FrameOK
<1>2. /\ g.c = Top.c
      /\ IF Top.loc < Cache[Top.c].ways - 1 THEN g.cl = Top.cl /\ g.loc = Top.loc + 1
                                            ELSE g.cl = Top.cl + 1 /\ g.loc = 0
  BY NextSlotPlace
<1> HIDE DEF g
<1> SUFFICES ASSUME NEW s \in Sets(Top.c), NEW w \in Ways(Top.c),
                    s < g.cl \/ (s = g.cl /\ w < g.loc)
             PROVE  CleanSlot(p, Top.c, s, w)
  BY <1>2 DEF Passed, g
<1>3. Cache[Top.c].sets \in Nat /\ Cache[Top.c].ways \in Nat
  BY <1>1, CacheType
<1>4. \/ s < Top.cl \/ (s = Top.cl /\ w < Top.loc)
      \/ s = Top.cl /\ w = Top.loc
  BY <1>1, <1>2, <1>3 DEF Sets, Ways
<1> QED BY <1>4 DEF Passed

LEMMA PassedAll ==
  ASSUME NEW f \in Frame, f.cl \notin Sets(f.c), NEW p, Passed(p, f)
  PROVE  Cleaned(p, f.c)
<1>1. f.cl \in Nat /\ f.c \in Levels
  BY DEF Frame
<1>2. Cache[f.c].sets \in Nat
  BY <1>1, CacheType
<1>3. \A s \in Sets(f.c) : s < f.cl
  BY <1>1, <1>2 DEF Sets
<1> QED BY <1>3 DEF Passed, Cleaned

\* What is called works downstream of the cache that is written back.
LEMMA StaysDownstream ==
  ASSUME TypeOK, stack # <<>>, Follows(stack'), NEW c \in Levels, Top.c \in Downstream(c),
         \A i \in 1..Len(stack) : stack[i].c \in Downstream(c)
  PROVE  \A i \in 1..Len(stack') : stack'[i].c \in Downstream(c)
<1> SUFFICES ASSUME NEW i \in 1..Len(stack') PROVE stack'[i].c \in Downstream(c)
  OBVIOUS
<1>1. Len(stack) \in Nat \ {0} /\ Len(stack') \in Nat /\ stack' \in Seq(Frame)
  BY Split DEF Follows
<1>2. CASE i \in 1..Len(stack) - 1
  <2>1. SameWork(stack[i], stack'[i]) /\ i \in 1..Len(stack)
    BY <1>1, <1>2 DEF Follows
  <2>2. stack'[i].c = stack[i].c
    BY <2>1 DEF SameWork
  <2> QED BY <2>1, <2>2
<1>3. CASE i \in Len(stack)..Len(stack')
  <2>1. stack'[i].c \in Linked(Top.c)
    BY <1>3 DEF Follows, MayCome
  <2>2. stack'[i].c \in Levels
    <3>1. stack'[i] \in Frame
      BY <1>1
    <3> QED BY <3>1 DEF Frame
  <2> QED BY <2>1, <2>2, DownstreamLinked
<1> QED BY <1>1, <1>2, <1>3

\* A step of a function that force_write_back has called.
LEMMA InnerStepFlushes ==
  ASSUME TypeOK, StackInv, Tidy, FlushInv, walk.job = "force_write_back", RunningStep,
         Len(stack) # 1
  PROVE  FlushInv'
<1> DEFINE f == stack[1]
           n == Len(stack)
<1>1. stack # <<>> /\ Follows(stack') /\ walk' = walk
  BY StepFollows, StepOwes
<1>2. /\ n \in Nat \ {0, 1} /\ stack \in Seq(Frame) /\ stack' \in Seq(Frame) /\ Len(stack') \in Nat
      /\ Len(stack') >= n - 1 /\ Top = stack[n]
  BY <1>1, Split DEF Follows
<1>3. 1 \in 1..n - 1 /\ 1 \in 1..n /\ n \in 1..n /\ 1 < n /\ 1 \in 1..Len(stack')
  <2> HIDE DEF n
  <2> QED BY <1>2
<1>4. /\ FlushesFrom(placement, f)
      /\ \A i \in 1..n : stack[i].c \in Downstream(f.c)
  BY <1>1 DEF FlushInv
<1>5. f \in Frame /\ f.c \in Levels /\ f.fn \in {"flush", "clean"}
  <2>1. f \in Frame
    BY <1>2, <1>3
  <2> HIDE DEF f
  <2> QED BY <1>4, <2>1 DEF FlushesFrom, Frame
<1>6. Top.c # f.c /\ Top.c \in Downstream(f.c)
  <2>1. Above(f, Top)
    BY <1>2, <1>3 DEF StackInv, Sound, Nested
  <2>2. f.c < Top.c
    BY <1>5, <2>1 DEF Above
  <2>3. f.c \in Nat
    BY <1>5 DEF Levels
  <2> QED BY <1>2, <1>3, <1>4, <2>2, <2>3
<1>7. stack'[1] = f
  <2>1. SameWork(f, stack'[1])
    BY <1>1, <1>3 DEF Follows
  <2> QED BY <1>5, <2>1 DEF SameWork
<1>8. stack' # <<>>
  BY <1>2, <1>3
<1>9. \A i \in 1..Len(stack') : stack'[i].c \in Downstream(stack'[1].c)
  BY <1>1, <1>4, <1>5, <1>6, <1>7, StaysDownstream
<1>10. \A d \in Levels : d # Top.c => placement'[d] = placement[d]
  BY OwnCacheOnly
<1> HIDE DEF f, n
<1>11. FlushesFrom(placement, stack[1])'
  <2>1. Passed(placement', f)
    BY <1>4, <1>5, <1>6, <1>10 DEF FlushesFrom, Passed, CleanSlot
  <2>2. \A c \in Levels : ToCome(c)' <=> ToCome(c)
    BY <1>1 DEF ToCome
  <2>3. ASSUME NEW c \in Levels \ {f.c}, c \notin Downstream(f.c), Cleaned(placement, c)
        PROVE  Cleaned(placement', c)
    BY <1>6, <1>10, <2>3 DEF Cleaned, CleanSlot
  <2> QED BY <1>4, <1>7, <2>1, <2>2, <2>3 DEF FlushesFrom
<1> QED BY <1>8, <1>9, <1>11 DEF FlushInv

\* The step of force_write_back itself.
LEMMA FlushStepFlushes ==
  ASSUME TypeOK, Tidy, FlushInv, walk.job = "force_write_back", RunningStep, Len(stack) = 1
  PROVE  FlushInv'
<1>1. stack # <<>> /\ Follows(stack') /\ walk' = walk
  BY StepFollows, StepOwes
<1>2. Top = stack[1] /\ Callers \in Seq(Frame) /\ Len(Callers) = 0 /\ Top \in Frame
  BY <1>1, Split
<1>3. /\ FlushesFrom(placement, Top) /\ Top.c \in Levels /\ Top.fn \in {"flush", "clean"}
      /\ FrameOK(Top) /\ Top.loc \in Ways(Top.c) /\ Top.cl \in Nat
  <2>1. FlushesFrom(placement, Top) /\ Top.fn \in {"flush", "clean"}
    BY <1>1, <1>2 DEF FlushInv, FlushesFrom
  <2>2. Running(Top.fn)
    BY <1>1 DEF Running
  <2> QED BY <2>1, <2>2, TopType DEF FrameOK
<1>4. Running("flush") \/ Running("clean")
  BY <1>1, <1>3 DEF Running
<1>5. FlushSlot \/ FlushClean \/ FlushReturn
  BY <1>3 DEF RunningStep, LoadStep, StoreStep, VictimStep, FlushStep, LoadHit, LoadMiss,
     LoadFill, LoadReturn, StoreAllocate, StoreInject, Storing, StoreLookup, StoreDirty,
     StoreForward, StoreReturn, InjectVictim, CreditVictim, Running
<1>6. \A d \in Levels : d # Top.c => placement'[d] = placement[d]
  BY OwnCacheOnly
<1>7. \A c \in Levels : ToCome(c)' <=> ToCome(c)
  BY <1>1 DEF ToCome
\* It remains to look at the frame that goes on.
<1>8. ASSUME NEW g \in Frame, stack' # <<>>, stack'[1] = g, g.c = Top.c,
             g.fn \in {"flush", "clean"}, Passed(placement', g)
      PROVE  FlushInv'
  <2>1. \A i \in 1..Len(stack) : stack[i].c \in Downstream(Top.c)
    <3>1. \A i \in 1..Len(stack) : stack[i] = Top
      BY <1>2
    <3> QED BY <1>3, <3>1, DownstreamStart
  <2>2. \A i \in 1..Len(stack') : stack'[i].c \in Downstream(g.c)
    BY <1>1, <1>3, <1>8, <2>1, DownstreamStart, StaysDownstream
  <2>3. \A c \in Levels \ {g.c} : Cleaned(placement, c) => Cleaned(placement', c)
    BY <1>6, <1>8 DEF Cleaned, CleanSlot
  <2>4. FlushesFrom(placement, stack[1])'
    BY <1>3, <1>7, <1>8, <2>3 DEF FlushesFrom
  <2> QED BY <1>8, <2>2, <2>4 DEF FlushInv
<1>9. ASSUME stack' = Continue(NextSlot(Top)), Top.cl \in Sets(Top.c), Passed(placement', Top),
             CleanSlot(placement', Top.c, Top.cl, Top.loc)
      PROVE  FlushInv'
  <2> DEFINE g == NextSlot(Top)
  <2>1. g \in Frame /\ g.c = Top.c /\ g.fn = "flush"
    BY <1>4, NextSlotPlace
  <2>2. Passed(placement', g)
    BY <1>4, <1>9, PassesSlot
  <2>3. stack' = Append(Callers, g)
    BY <1>9 DEF Continue
  <2> HIDE DEF g
  <2>4. stack' # <<>> /\ stack'[1] = g
    BY <1>2, <2>1, <2>3
  <2> QED BY <1>8, <2>1, <2>2, <2>4
<1>10. CASE FlushSlot
  <2> DEFINE g == [Top EXCEPT !.fn = "clean"]
             line == LineRange(Top.c, Slot.cl_id)
  <2>1. placement' = placement /\ Top.cl \in Sets(Top.c)
    BY <1>10 DEF FlushSlot
  <2>2. Passed(placement', Top)
    BY <1>3, <2>1 DEF FlushesFrom
  <2>3. \/ \E nt, st : PassDown(Top.c, line, nt, st, Continue(g))
        \/ (Slot.invalid \/ ~Slot.dirty) /\ stack' = Continue(NextSlot(Top))
    BY <1>10 DEF FlushSlot
  <2>4. CASE (Slot.invalid \/ ~Slot.dirty) /\ stack' = Continue(NextSlot(Top))
    <3>1. CleanSlot(placement', Top.c, Top.cl, Top.loc)
      BY <2>1, <2>4 DEF CleanSlot, Slot
    <3> QED BY <1>9, <2>1, <2>2, <2>4, <3>1
  <2>5. CASE \E nt, st : PassDown(Top.c, line, nt, st, Continue(g))
    <3>1. g \in Frame /\ g.fn = "clean" /\ g.c = Top.c /\ g.cl = Top.cl /\ g.loc = Top.loc
      <4>1. g \in Frame
        BY <1>2, FrameSteps
      <4> QED BY <1>2, <4>1 DEF Frame
    <3>2. stack' = Append(Callers, g) \/ \E h : stack' = Append(Append(Callers, g), h)
      BY <2>5 DEF PassDown, Continue
    <3> HIDE DEF g
    <3>3. Append(Callers, g) \in Seq(Frame) /\ Len(Append(Callers, g)) = 1
          /\ Append(Callers, g)[1] = g
      BY <1>2, <3>1
    <3>4. stack' # <<>> /\ stack'[1] = g
      <4>1. CASE stack' = Append(Callers, g)
        BY <3>3, <4>1
      <4>2. ASSUME NEW h, stack' = Append(Append(Callers, g), h)
            PROVE  stack' # <<>> /\ stack'[1] = g
        <5>1. stack' \in Seq(Frame)
          BY <1>1 DEF Follows
        <5> DEFINE t == Append(Callers, g)
        <5>2. t \in Seq(Frame) /\ Len(t) = 1 /\ t[1] = g /\ stack' = Append(t, h)
          BY <3>3, <4>2
        <5> HIDE DEF t
        <5>3. stack'[1] = g /\ Len(stack') = 2
          BY <5>2
        <5> QED BY <5>3
      <4> QED BY <3>2, <4>1, <4>2
    <3>5. Passed(placement', g)
      BY <2>2, <3>1 DEF Passed
    <3> QED BY <1>8, <3>1, <3>4, <3>5
  <2> QED BY <2>3, <2>4, <2>5
<1>11. CASE FlushClean
  <2>1. /\ stack' = Continue(NextSlot(Top)) /\ Running("clean")
        /\ placement' = [placement EXCEPT ![Top.c][Top.cl][Top.loc].dirty = FALSE]
    BY <1>11 DEF FlushClean
  <2>2. Top.cl \in Sets(Top.c)
    BY <1>3, <2>1 DEF FrameOK, Running
  <2>3. /\ placement = [c \in Levels |-> placement[c]]
        /\ placement[Top.c] \in [Sets(Top.c) -> [Ways(Top.c) -> Entry]]
    BY <1>3 DEF TypeOK, PlacementOK
  <2>4. ASSUME NEW s \in Sets(Top.c), NEW w \in Ways(Top.c)
        PROVE  placement'[Top.c][s][w] =
                 IF s = Top.cl /\ w = Top.loc THEN [placement[Top.c][s][w] EXCEPT !.dirty = FALSE]
                 ELSE placement[Top.c][s][w]
    BY <1>3, <2>1, <2>2, <2>3
  <2>5. \A e \in Entry : ~[e EXCEPT !.dirty = FALSE].dirty
    BY DEF Entry
  <2>6. CleanSlot(placement', Top.c, Top.cl, Top.loc)
    <3>1. placement[Top.c][Top.cl][Top.loc] \in Entry
      BY <1>3, <2>2, <2>3
    <3> QED BY <1>3, <2>2, <2>4, <2>5, <3>1 DEF CleanSlot
  <2>7. Passed(placement', Top)
    <3> SUFFICES ASSUME NEW s \in Sets(Top.c), NEW w \in Ways(Top.c),
                        s < Top.cl \/ (s = Top.cl /\ w < Top.loc)
                 PROVE  CleanSlot(placement', Top.c, s, w)
      BY DEF Passed
    <3>1. CleanSlot(placement, Top.c, s, w)
      BY <1>3 DEF FlushesFrom, Passed
    <3>2. CASE s = Top.cl /\ w = Top.loc
      BY <2>6, <3>2
    <3>3. CASE ~(s = Top.cl /\ w = Top.loc)
      BY <2>4, <3>1, <3>3 DEF CleanSlot
    <3> QED BY <3>2, <3>3
  <2> QED BY <1>9, <2>1, <2>2, <2>6, <2>7
<1>12. CASE FlushReturn
  <2>1. stack' = Callers /\ placement' = placement /\ Top.cl \notin Sets(Top.c)
    BY <1>12 DEF FlushReturn
  <2>2. stack' = <<>>
    BY <1>2, <2>1
  <2>3. Cleaned(placement, Top.c)
    BY <1>2, <1>3, <2>1, PassedAll DEF FlushesFrom
  <2>4. \A c \in Levels : ToCome(c)' \/ Cleaned(placement', c)
    BY <1>3, <1>7, <2>1, <2>3 DEF FlushesFrom
  <2> QED BY <2>2, <2>4 DEF FlushInv
<1> QED BY <1>5, <1>10, <1>11, <1>12

LEMMA WalkFlushes ==
  ASSUME TypeOK, LevelsReached, Ordered, FlushInv, WalkStep
  PROVE  FlushInv'
<1>0. stack = <<>> /\ walk \in WalkState
  BY DEF WalkStep, WalkOn, VisitFlush, VisitReset, VisitInvalidate, WalkEnd, WalkDone,
     Visiting, Walking, TypeOK
<1>1. CASE WalkOn
  <2>1. walk'.job = walk.job /\ UNCHANGED <<stack, placement>>
    BY <1>0, <1>1 DEF WalkOn, WalkState
  <2> QED BY <1>0, <1>1, <2>1, GoesOn DEF FlushInv
<1>2. CASE VisitFlush
  <2> DEFINE h == Head(walk.pending)
             f == FlushCall(h)
  <2>1. /\ walk.job = "force_write_back" /\ placement' = placement /\ walk.pending # <<>>
        /\ walk' = Visited /\ walk.pending \in Seq(Levels) /\ stack' = <<f>>
    BY <1>0, <1>2 DEF VisitFlush, Visiting, WalkState
  <2>2. h \in Levels /\ h = walk.pending[1] /\ 1 \in 1..Len(walk.pending)
    BY <2>1
  <2> HIDE DEF h
  <2>3. f.fn = "flush" /\ f.c = h /\ f.cl = 0 /\ f.loc = 0
    BY DEF FlushCall
  <2>4. Passed(placement', f)
    <3>1. \A s \in Sets(h) : ~(s < 0)
      BY <2>2, CacheType DEF Sets
    <3>2. \A w \in Ways(h) : ~(w < 0)
      BY <2>2, CacheType DEF Ways
    <3> QED BY <2>3, <3>1, <3>2 DEF Passed
  <2>5. ASSUME NEW c \in Levels \ {h}, c \in Downstream(h)
        PROVE  ToCome(c)'
    <3>1. Behind(c, 1)
      BY <2>1, <2>2, <2>5 DEF Ordered
    <3>2. ToCome(c)
      <4>1. Len(walk.pending) \in Nat
        BY <2>1
      <4>2. \A j \in 1 + 1..Len(walk.pending) : j \in 1..Len(walk.pending)
        BY <4>1
      <4> QED BY <3>1, <4>2 DEF Behind, ToCome, OneOf
    <3> QED BY <2>1, <2>5, <3>2, VisitsHead DEF h
  <2>6. ASSUME NEW c \in Levels \ {h}
        PROVE  ToCome(c)' \/ Cleaned(placement', c)
    <3>1. ToCome(c) \/ Cleaned(placement, c)
      BY <1>0, <2>1 DEF FlushInv
    <3> QED BY <2>1, <2>6, <3>1, VisitsHead DEF h
  <2> HIDE DEF f
  <2>7. stack' # <<>> /\ stack'[1] = f /\ \A i \in 1..Len(stack') : stack'[i] = f
    BY <2>1
  <2>8. FlushesFrom(placement, stack[1])'
    BY <2>3, <2>4, <2>5, <2>6, <2>7 DEF FlushesFrom
  <2> QED BY <2>2, <2>3, <2>7, <2>8, DownstreamStart DEF FlushInv
<1>3. CASE VisitReset \/ VisitInvalidate
  <2>1. walk'.job # "force_write_back"
    BY <1>0, <1>3 DEF VisitReset, VisitInvalidate, Visiting, Visited, WalkState
  <2> QED BY <2>1 DEF FlushInv
<1>4. CASE WalkEnd
  <2>1. walk'.job # "force_write_back"
    BY <1>0, <1>4 DEF WalkEnd, WalkState
  <2> QED BY <2>1 DEF FlushInv
<1> QED BY <1>1, <1>2, <1>3, <1>4 DEF WalkStep

LEMMA StaysFlushed == LevelsReached /\ FlushedDownwards => (Spec => []FlushInv)
<1> SUFFICES ASSUME LevelsReached, FlushedDownwards PROVE Spec => []FlushInv
  OBVIOUS
<1>1. Init => FlushInv
  BY DEF Init, FlushInv
<1>2. TypeOK /\ StackInv /\ Tidy /\ Ordered /\ FlushInv /\ [Next]_vars => FlushInv'
  <2> SUFFICES ASSUME TypeOK, StackInv, Tidy, Ordered, FlushInv, [Next]_vars PROVE FlushInv'
    OBVIOUS
  <2>1. CASE RunningStep
    <3>1. CASE walk.job # "force_write_back"
      BY <2>1, <3>1, StepOwes DEF FlushInv
    <3>2. CASE walk.job = "force_write_back"
      BY <2>1, <3>2, InnerStepFlushes, FlushStepFlushes
    <3> QED BY <3>1, <3>2
  <2>2. ASSUME NEW job \in Jobs, StartWalk(job)
        PROVE  FlushInv'
    <3>1. walk'.p = FirstLevel /\ FirstLevel # None /\ stack' = <<>>
      BY <2>2 DEF StartWalk, Idle, FirstLevel, None
    <3>2. \A c \in Levels : ToCome(c)'
      BY <3>1, AllToCome DEF ToCome
    <3> QED BY <3>1, <3>2 DEF FlushInv
  <2>3. ASSUME NEW range \in Ranges, Load(range) \/ Store(range)
        PROVE  FlushInv'
    <3>1. walk'.job = "none"
      BY <2>3 DEF Load, Store, Idle
    <3> QED BY <3>1 DEF FlushInv
  <2>4. CASE WalkStep
    BY <2>4, WalkFlushes
  <2>5. CASE UNCHANGED vars
    <3>1. walk' = walk /\ stack' = stack /\ placement' = placement
      BY <2>5 DEF vars
    <3>2. \A c \in Levels : ToCome(c)' <=> ToCome(c)
      BY <3>1 DEF ToCome
    <3> QED BY <3>1, <3>2 DEF FlushInv, FlushesFrom
  <2> QED BY <2>1, <2>2, <2>3, <2>4, <2>5 DEF Next, Step, RunningStep, Call
<1> QED BY <1>1, <1>2, TypeCorrect, FramesStaySound, StaysTidy, StaysOrdered, PTL DEF Spec

\* When force_write_back ends, no cache has a dirty line and every byte the program
\* has stored is in main memory, if levels() reaches all caches and yields each before
\* those its lines may go to (cache.py:178-191): writing a cache back stores to the
\* caches below it, and may replace their lines, so another order would leave some.
THEOREM FlushReachesEverything ==
  LevelsReached /\ FlushedDownwards /\ MRUWritesThrough => (Spec => FlushReachesMemory)
<1> SUFFICES ASSUME LevelsReached, FlushedDownwards, MRUWritesThrough
             PROVE  Spec => FlushReachesMemory
  OBVIOUS
<1>1. TypeOK /\ NoLostWrites /\ FlushInv =>
        [WalkEnd /\ walk.job = "force_write_back" => AllClean /\ owed = {}]_vars
  <2> SUFFICES ASSUME TypeOK, NoLostWrites, FlushInv, WalkEnd, walk.job = "force_write_back"
               PROVE  AllClean /\ owed = {}
    OBVIOUS
  <2>1. stack = <<>> /\ \A c \in Levels : Cleaned(placement, c)
    BY NothingToCome DEF FlushInv, WalkEnd, WalkDone, Walking
  <2>2. AllClean
    BY <2>1 DEF AllClean, Cleaned, CleanSlot
  <2>3. ASSUME NEW b \in owed
        PROVE  FALSE
    <3>1. \A i \in 1..Len(stack) : FALSE
      BY <2>1
    <3>2. PICK c \in Levels : DirtyIn(c, b)
      BY <3>1 DEF NoLostWrites
    <3>3. SetId(c, ClId(c, b)) \in Sets(c)
      <4>1. b \in Nat
        BY DEF TypeOK
      <4>2. ClId(c, b) \in Nat
        BY <4>1, CacheType DEF ClId
      <4> QED BY <4>2, GeometryType
    <3> QED BY <2>2, <3>2, <3>3 DEF AllClean, DirtyIn, Holds
  <2> QED BY <2>2, <2>3
<1> QED BY <1>1, TypeCorrect, NoWriteIsLost, StaysFlushed, PTL DEF FlushReachesMemory

\* The caches that only a victim or store link leads to lead back to the path of the
\* loads, and no further aside: a write-combining cache beside L2, a victim cache.
SidesJoin ==
  \A p \in Chain(FirstLevel) :
    \A d \in {Cache[p].victims_to, Cache[p].store_to} \ {None, Cache[p].load_from} :
      /\ Cache[p].load_from = None => Linked(d) \subseteq {d, None}
      /\ Cache[p].load_from # None =>
           \/ d \in Chain(Cache[p].load_from)
           \/ Linked(d) \subseteq {d, None} \cup Chain(Cache[p].load_from)

\* What levels() yields from cache p on.
Yielded(p) == {c \in Levels : \E q \in Chain(p) : OneOf(c, Yield(q))}

LEMMA ChainDown ==
  ASSUME NEW p \in Levels, NEW q \in Chain(p)
  PROVE  q \in Levels /\ Chain(q) \subseteq Chain(p)
BY DEF Chain

LEMMA YieldPlaces ==
  ASSUME NEW q \in Levels, NEW i \in 1..Len(Yield(q))
  PROVE  IF i = 1 THEN Yield(q)[i] = q
         ELSE Yield(q)[i] \in {Cache[q].victims_to, Cache[q].store_to} \ {None, Cache[q].load_from}
<1> DEFINE k == Cache[q]
           s == IF k.victims_to # None /\ k.victims_to # k.load_from THEN <<k.victims_to>> ELSE <<>>
           t == IF k.store_to # None /\ k.store_to # k.load_from /\ k.store_to # k.victims_to
                THEN <<k.store_to>> ELSE <<>>
           D == {k.victims_to, k.store_to} \ {None, k.load_from}
<1>1. Yield(q) = <<q>> \o s \o t
  BY DEF Yield
<1>2. s \in Seq(D) /\ t \in Seq(D)
  <2>1. \A S, x : x \in S => <<x>> \in Seq(S)
    OBVIOUS
  <2>2. \A S : <<>> \in Seq(S)
    OBVIOUS
  <2> QED BY <2>1, <2>2
<1> HIDE DEF s, t, D
<1>3. \A S : \A u, v \in Seq(S) : u \o v \in Seq(S)
  OBVIOUS
<1>4. \A S : \A u \in Seq(S) : \A j \in 1..Len(<<q>> \o u) :
        IF j = 1 THEN (<<q>> \o u)[j] = q ELSE (<<q>> \o u)[j] \in S
  <2> TAKE S
  <2> TAKE u \in Seq(S)
  <2> TAKE j \in 1..Len(<<q>> \o u)
  <2>1. <<q>> \in Seq({q}) /\ Len(<<q>>) = 1 /\ <<q>>[1] = q
    OBVIOUS
  <2>2. Len(<<q>> \o u) = 1 + Len(u) /\ Len(u) \in Nat
    BY <2>1
  <2>3. (<<q>> \o u)[j] = IF j <= 1 THEN <<q>>[j] ELSE u[j - 1]
    BY <2>1, <2>2
  <2>4. j # 1 => j - 1 \in 1..Len(u)
    BY <2>2
  <2> QED BY <2>1, <2>3, <2>4, <2>2
<1>5. Yield(q) = <<q>> \o (s \o t)
  BY <1>1, <1>2
<1> QED BY <1>2, <1>3, <1>4, <1>5 DEF D

LEMMA YieldsItself ==
  ASSUME NEW p \in Levels, NEW q \in Chain(p)
  PROVE  q \in Yielded(p)
<1>1. q \in Levels /\ q # Cache[q].load_from
  BY LinksLeadDown DEF Chain, Levels, None
<1> QED BY <1>1, YieldsAll DEF Yielded

\* No link leads out of what levels() yields.
LEMMA YieldedClosed ==
  ASSUME SidesJoin, NEW p \in Chain(FirstLevel)
  PROVE  \A c \in Yielded(p) : Linked(c) \ {None} \subseteq Yielded(p)
<1>1. p \in Levels /\ Chain(p) \subseteq Chain(FirstLevel) /\ Chain(p) \subseteq Levels
  BY ChainDown, FirstLevelType DEF Chain
<1>2. ASSUME NEW q \in Chain(p)
      PROVE  Linked(q) \ {None} \subseteq Yielded(p)
  <2> SUFFICES ASSUME NEW l \in Linked(q), l # None PROVE l \in Yielded(p)
    OBVIOUS
  <2>1. q \in Levels
    BY <1>1
  <2>2. CASE l = q
    BY <1>1, <2>2, YieldsItself
  <2>3. CASE l = Cache[q].load_from
    BY <1>1, <2>3, YieldsItself, ChainClosed DEF Closed
  <2>4. CASE l \in {Cache[q].victims_to, Cache[q].store_to} /\ l # Cache[q].load_from
    <3>1. l \in Levels
      BY <2>1, <2>4, LinksLeadDown
    <3> QED BY <2>1, <2>4, <3>1, YieldsAll DEF Yielded
  <2> QED BY <2>2, <2>3, <2>4 DEF Linked
<1>3. SUFFICES ASSUME NEW c \in Yielded(p) PROVE Linked(c) \ {None} \subseteq Yielded(p)
  OBVIOUS
<1>4. PICK q \in Chain(p) : OneOf(c, Yield(q))
  BY DEF Yielded
<1>5. q \in Levels /\ q \in Chain(FirstLevel)
  BY <1>1
<1>6. c = q \/ c \in {Cache[q].victims_to, Cache[q].store_to} \ {None, Cache[q].load_from}
  BY <1>4, <1>5, YieldPlaces DEF OneOf
<1>7. CASE c = q
  BY <1>2, <1>7
<1>8. CASE c \in Chain(p)
  BY <1>2, <1>8
<1>9. CASE c # q /\ c \notin Chain(p)
  <2>1. Cache[q].load_from # None => Chain(Cache[q].load_from) \subseteq Chain(p)
    <3> SUFFICES ASSUME Cache[q].load_from # None
                 PROVE  Chain(Cache[q].load_from) \subseteq Chain(p)
      OBVIOUS
    <3>1. Cache[q].load_from \in Chain(p)
      BY <1>1, ChainClosed DEF Closed
    <3> QED BY <1>1, <3>1, ChainDown
  <2>2. Linked(c) \subseteq {c, None} \cup Chain(p)
    BY <1>5, <1>6, <1>9, <2>1 DEF SidesJoin
  <2>3. Chain(p) \subseteq Yielded(p)
    BY <1>1, YieldsItself
  <2> QED BY <2>2, <2>3
<1> QED BY <1>7, <1>8, <1>9

\* Where the side caches lead back, the order of levels() is the right one.
LEMMA SidesFlushDownwards ==
  ASSUME SidesJoin
  PROVE  FlushedDownwards
<1> SUFFICES ASSUME NEW p \in Chain(FirstLevel), NEW i \in 1..Len(Yield(p)),
                    NEW c \in Downstream(Yield(p)[i]), c # Yield(p)[i]
             PROVE  After(c, p, i)
  BY DEF FlushedDownwards
<1> DEFINE d == Yield(p)[i]
           n == Cache[p].load_from
<1>1. p \in Levels /\ (n # None => n \in Chain(FirstLevel) /\ n \in Levels)
  BY FirstLevelType, ChainDown, ChainClosed DEF Closed
<1>2. IF i = 1 THEN d = p ELSE d \in {Cache[p].victims_to, Cache[p].store_to} \ {None, n}
  BY <1>1, YieldPlaces
<1>3. d \in Levels
  BY <1>1, <1>2, LinksLeadDown
<1>4. CASE i = 1
  <2>1. Yielded(p) \in SUBSET Levels /\ p \in Yielded(p)
    BY <1>1, YieldsItself, ChainStart DEF Yielded
  <2>2. c \in Yielded(p)
    BY <1>2, <1>4, <2>1, YieldedClosed DEF Downstream
  <2>3. PICK q \in Chain(p) : OneOf(c, Yield(q))
    BY <2>2 DEF Yielded
  <2>4. CASE q = p
    <3>1. PICK j \in 1..Len(Yield(p)) : Yield(p)[j] = c
      BY <2>3, <2>4 DEF OneOf
    <3>2. j # 1
      BY <1>4, <3>1
    <3>3. Len(Yield(p)) \in Nat
      BY <1>1, YieldType
    <3>4. j \in i + 1..Len(Yield(p))
      BY <1>4, <3>2, <3>3
    <3> QED BY <3>1, <3>4 DEF After
  <2>5. CASE q # p
    BY <1>1, <2>3, <2>5, ChainStep DEF After
  <2> QED BY <2>4, <2>5
<1>5. CASE i # 1
  <2> DEFINE R == IF n = None THEN {} ELSE Yielded(n)
  <2>1. R \in SUBSET Levels /\ (\A e \in R : Linked(e) \ {None} \subseteq R)
    BY <1>1, YieldedClosed DEF Yielded
  <2>2. Linked(d) \ {None} \subseteq {d} \cup R
    <3>1. n # None => Chain(n) \subseteq R
      BY <1>1, YieldsItself
    <3>2. CASE n # None /\ d \in Chain(n)
      BY <2>1, <3>1, <3>2
    <3>3. CASE ~(n # None /\ d \in Chain(n))
      <4>1. Linked(d) \subseteq {d, None} \cup (IF n = None THEN {} ELSE Chain(n))
        BY <1>2, <1>5, <3>3 DEF SidesJoin
      <4> QED BY <3>1, <4>1
    <3> QED BY <3>2, <3>3
  <2> DEFINE S == {d} \cup R
  <2>3. S \in SUBSET Levels /\ d \in S /\ (\A e \in S : Linked(e) \ {None} \subseteq S)
    BY <1>3, <2>1, <2>2
  <2> HIDE DEF S
  <2>4. c \in S
    BY <2>3 DEF Downstream
  <2>5. c \in R
    BY <2>4 DEF S
  <2> QED BY <2>5 DEF After, Yielded
<1> QED BY <1>4, <1>5

\* Hence the links of a hierarchy show that everything is written back: a side
\* cache, such as a write-combining cache or a victim cache, is yielded with the
\* cache it belongs to, and what it stores is written back after it.
THEOREM FlushReachesSides == LevelsReached /\ SidesJoin /\ MRUWritesThrough => (Spec => FlushReachesMemory)
BY FlushReachesEverything, SidesFlushDownwards
=============================================================================
