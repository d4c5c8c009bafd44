----------------------------- MODULE RequestsProofs -----------------------------
(***************************************************************************)
(* The Python binding only ever makes accesses of the hierarchy that are   *)
(* allowed, one at a time, so that what is proved of Hierarchy holds under *)
(* every list a user may pass; it makes them in the order of the list, and *)
(* whatever is wrong with the list ends in an exception, and an element    *)
(* that is no address leaves no trace without one.                         *)
(***************************************************************************)
EXTENDS Requests, WriteProofs, SequenceTheorems

\* What is left of a list is a list, and the loops over its items stand at one.
ItemsOK ==
  /\ items \in Seq(Item)
  /\ at \in {"loads", "stores"} => items # <<>>

\* Changing the first element of a sequence that is not empty.
LEMMA SetFirst ==
  ASSUME NEW S, NEW s \in Seq(S), s # <<>>, NEW e \in S
  PROVE  [s EXCEPT ![1] = e] \in Seq(S) /\ [s EXCEPT ![1] = e] # <<>>
<1>1. Len(s) \in Nat /\ Len(s) # 0
  OBVIOUS
<1>2. [s EXCEPT ![1] = e] \in Seq(S) /\ Len([s EXCEPT ![1] = e]) = Len(s)
  OBVIOUS
<1> QED
  BY <1>1, <1>2

\* Taking the first access off the first item leaves a list of items.
LEMMA TakeLoad ==
  ASSUME ItemsOK, items # <<>>, Current.loads # <<>>
  PROVE  /\ Head(Current.loads) \in Ranges
         /\ [items EXCEPT ![1].loads = Tail(@)] \in Seq(Item)
         /\ [items EXCEPT ![1].loads = Tail(@)] # <<>>
<1>1. Current \in Item
  BY DEF ItemsOK, Current
<1>2. Current.loads \in Seq(Ranges)
  BY <1>1 DEF Item
<1>3. Head(Current.loads) \in Ranges /\ Tail(Current.loads) \in Seq(Ranges)
  BY <1>2
<1>4. [Current EXCEPT !.loads = Tail(@)] \in Item
  BY <1>1, <1>3 DEF Item
<1>5. [items EXCEPT ![1].loads = Tail(@)] = [items EXCEPT ![1] = [Current EXCEPT !.loads = Tail(@)]]
  BY DEF Current
<1>6. [items EXCEPT ![1] = [Current EXCEPT !.loads = Tail(@)]] \in Seq(Item)
  BY <1>4, SetFirst DEF ItemsOK
<1>7. [items EXCEPT ![1] = [Current EXCEPT !.loads = Tail(@)]] # <<>>
  BY <1>4, SetFirst DEF ItemsOK
<1> QED
  BY <1>3, <1>5, <1>6, <1>7

LEMMA TakeStore ==
  ASSUME ItemsOK, items # <<>>, Current.stores # <<>>
  PROVE  /\ Head(Current.stores) \in Ranges
         /\ [items EXCEPT ![1].stores = Tail(@)] \in Seq(Item)
         /\ [items EXCEPT ![1].stores = Tail(@)] # <<>>
<1>1. Current \in Item
  BY DEF ItemsOK, Current
<1>2. Current.stores \in Seq(Ranges)
  BY <1>1 DEF Item
<1>3. Head(Current.stores) \in Ranges /\ Tail(Current.stores) \in Seq(Ranges)
  BY <1>2
<1>4. [Current EXCEPT !.stores = Tail(@)] \in Item
  BY <1>1, <1>3 DEF Item
<1>5. [items EXCEPT ![1].stores = Tail(@)] = [items EXCEPT ![1] = [Current EXCEPT !.stores = Tail(@)]]
  BY DEF Current
<1>6. [items EXCEPT ![1] = [Current EXCEPT !.stores = Tail(@)]] \in Seq(Item)
  BY <1>4, SetFirst DEF ItemsOK
<1>7. [items EXCEPT ![1] = [Current EXCEPT !.stores = Tail(@)]] # <<>>
  BY <1>4, SetFirst DEF ItemsOK
<1> QED
  BY <1>3, <1>5, <1>6, <1>7

LEMMA ItemsOKInit == RequestsInit => ItemsOK
  BY DEF RequestsInit, ItemsOK

LEMMA ItemsOKNext ==
  ASSUME ItemsOK, [RequestsNext]_<<vars, requestVars>>
  PROVE  ItemsOK'
<1>1. CASE \E r \in Requests : Request(r)
  BY <1>1, RequestsAssumption DEF ItemsOK, Request
<1>2. CASE NextItem
  <2>1. items # <<>> /\ (Raise \/ UNCHANGED items)
    BY <1>2 DEF NextItem
  <2>2. Raise => ItemsOK'
    BY DEF ItemsOK, Raise
  <2> QED
    BY <2>1, <2>2 DEF ItemsOK
<1>3. CASE NextLoad
  <2>1. items # <<>> /\ Current.loads # <<>> /\ at = "loads" /\ UNCHANGED at
    BY <1>3 DEF NextLoad, At, ItemsOK
  <2>2. items' = [items EXCEPT ![1].loads = Tail(@)]
    BY <1>3 DEF NextLoad
  <2>3. items' \in Seq(Item) /\ items' # <<>>
    BY <2>1, <2>2, TakeLoad, Zenon
  <2> QED
    BY <2>1, <2>3 DEF ItemsOK
<1>4. CASE LoadsDone
  <2>1. items # <<>> /\ (Raise \/ UNCHANGED items)
    BY <1>4 DEF LoadsDone, At, ItemsOK
  <2>2. Raise => ItemsOK'
    BY DEF ItemsOK, Raise
  <2> QED
    BY <2>1, <2>2 DEF ItemsOK
<1>5. CASE NextStore
  <2>1. items # <<>> /\ Current.stores # <<>> /\ at = "stores" /\ UNCHANGED at
    BY <1>5 DEF NextStore, At, ItemsOK
  <2>2. items' = [items EXCEPT ![1].stores = Tail(@)]
    BY <1>5 DEF NextStore
  <2>3. items' \in Seq(Item) /\ items' # <<>>
    BY <2>1, <2>2, TakeStore, Zenon
  <2> QED
    BY <2>1, <2>3 DEF ItemsOK
<1>6. CASE StoresDone
  BY <1>6 DEF ItemsOK, StoresDone, At
<1>7. CASE Return
  BY <1>7 DEF ItemsOK, Return, At, Raise
<1>8. CASE UNCHANGED requestVars
  BY <1>8 DEF ItemsOK, requestVars
<1> QED
  BY <1>1, <1>2, <1>3, <1>4, <1>5, <1>6, <1>7, <1>8 DEF RequestsNext, RequestStep

\* A step of the binding is a step of the hierarchy or leaves it alone.
LEMMA StepRefines ==
  ASSUME ItemsOK, [RequestsNext]_<<vars, requestVars>>
  PROVE  [Next]_vars
<1>1. CASE \E r \in Requests : Request(r)
  BY <1>1 DEF Request
<1>2. CASE NextItem
  BY <1>2 DEF NextItem
<1>3. CASE NextLoad
  <2>1. Head(Current.loads) \in Ranges /\ Load(Head(Current.loads))
    BY <1>3, TakeLoad DEF NextLoad, At, ItemsOK
  <2> QED
    BY <2>1 DEF Next, Call
<1>4. CASE LoadsDone
  BY <1>4 DEF LoadsDone
<1>5. CASE NextStore
  <2>1. Head(Current.stores) \in Ranges /\ Store(Head(Current.stores))
    BY <1>5, TakeStore DEF NextStore, At, ItemsOK
  <2> QED
    BY <2>1 DEF Next, Call
<1>6. CASE StoresDone
  BY <1>6 DEF StoresDone
<1>7. CASE Return
  BY <1>7 DEF Return
<1>8. CASE \E job \in Jobs : at = "none" /\ StartWalk(job) /\ UNCHANGED requestVars
  BY <1>8 DEF Next, Call
<1>9. CASE Step
  BY <1>9 DEF Next
<1>10. CASE UNCHANGED <<vars, requestVars>>
  BY <1>10
<1> QED
  BY <1>1, <1>2, <1>3, <1>4, <1>5, <1>6, <1>7, <1>8, <1>9, <1>10 DEF RequestsNext, RequestStep

\* What holds of every run of the hierarchy holds under requests.
LEMMA RequestsRefine == RequestsSpec => Spec
<1>1. RequestsInit => Init
  BY DEF RequestsInit
<1>2. ItemsOK /\ [RequestsNext]_<<vars, requestVars>> => ItemsOK'
  BY ItemsOKNext
<1>3. ItemsOK /\ [RequestsNext]_<<vars, requestVars>> => [Next]_vars
  BY StepRefines
<1> QED
  BY <1>1, <1>2, <1>3, ItemsOKInit, PTL DEF RequestsSpec, Spec

\* Hence under any requests, also faulty ones, the hierarchy is well typed, its sets
\* are packed, no line is there twice and stores mark their own line.
THEOREM RequestsSafe ==
  RequestsSpec => [](TypeOK /\ FillsBeforeReplacing /\ NoDuplicateLines /\ WriteHitsItsLine)
  BY RequestsRefine, TypeCorrect, SetsFillInOrder, LinesAreUnique, WritesHitTheirLine, PTL

(* What FlattenSeq returns, from its recursion over the places of a list. *)

IsFlat(f, s) == f = [i \in 1..Len(s) |-> IF i = 1 THEN s[i] ELSE f[i - 1] \o s[i]]

\* The recursion has a solution: the shortest beginning of the list for which it had
\* none could be reached from the one before.
LEMMA FlatExists ==
  ASSUME NEW s, Len(s) \in Nat
  PROVE  \E f : IsFlat(f, s)
<1> DEFINE Up(n, f) == f = [i \in 1..n |-> IF i = 1 THEN s[i] ELSE f[i - 1] \o s[i]]
           bad      == {n \in Nat : ~\E f : Up(n, f)}
<1>1. bad = {}
  <2> SUFFICES ASSUME bad # {} PROVE FALSE
    OBVIOUS
  <2>1. PICK n \in bad : \A m \in bad : n <= m
    <3>1. bad \in SUBSET Nat
      OBVIOUS
    <3> HIDE DEF bad
    <3> QED BY <3>1, LeastElement
  <2>2. n \in Nat
    OBVIOUS
  <2>3. n # 0
    <3>1. Up(0, [i \in 1..0 |-> s])
      <4>1. 1..0 = {}
        OBVIOUS
      <4> QED BY <4>1
    <3> QED BY <3>1
  <2>4. n - 1 \in Nat /\ n - 1 \notin bad
    <3>1. n - 1 \in Nat /\ ~(n <= n - 1)
      BY <2>2, <2>3
    <3> HIDE DEF bad
    <3> QED BY <2>1, <3>1
  <2>5. PICK g : Up(n - 1, g)
    BY <2>4
  <2> DEFINE v == IF n = 1 THEN s[n] ELSE g[n - 1] \o s[n]
             f == [i \in 1..n |-> IF i = n THEN v ELSE g[i]]
  <2>6. ASSUME NEW i \in 1..n
        PROVE  f[i] = IF i = 1 THEN s[i] ELSE f[i - 1] \o s[i]
    <3>1. CASE i = n
      <4>1. n # 1 => n - 1 \in 1..n /\ n - 1 # n
        BY <2>2, <2>3
      <4> QED BY <3>1, <4>1
    <3>2. CASE i # n
      <4>1. i \in 1..n - 1 /\ (i # 1 => i - 1 \in 1..n /\ i - 1 # n)
        BY <2>2, <2>3, <2>6, <3>2
      <4>2. g[i] = IF i = 1 THEN s[i] ELSE g[i - 1] \o s[i]
        BY <2>5, <4>1
      <4> QED BY <2>6, <3>2, <4>1, <4>2
    <3> QED BY <3>1, <3>2
  <2>7. f = [i \in 1..n |-> f[i]]
    OBVIOUS
  <2> HIDE DEF f
  <2>8. Up(n, f)
    BY <2>6, <2>7
  <2> QED BY <2>1, <2>8
<1>2. Len(s) \notin bad
  BY <1>1
<1> QED BY <1>2 DEF IsFlat

LEMMA Flattened ==
  ASSUME NEW T, NEW s \in Seq(Seq(T)), s # <<>>
  PROVE  \E f : IsFlat(f, s) /\ FlattenSeq(s) = f[Len(s)]
<1>1. Len(s) \in Nat /\ Len(s) # 0
  OBVIOUS
<1> DEFINE f == CHOOSE g : IsFlat(g, s)
<1>2. IsFlat(f, s)
  BY <1>1, FlatExists
<1>3. FlattenSeq(s) = f[Len(s)]
  BY <1>1 DEF FlattenSeq, IsFlat
<1> QED BY <1>2, <1>3


LEMMA FlatType ==
  ASSUME NEW T, NEW s \in Seq(Seq(T)), NEW f, IsFlat(f, s)
  PROVE  \A i \in 1..Len(s) : f[i] \in Seq(T)
<1> DEFINE bad == {i \in 1..Len(s) : f[i] \notin Seq(T)}
<1> SUFFICES ASSUME bad # {} PROVE FALSE
  OBVIOUS
<1>1. Len(s) \in Nat
  OBVIOUS
<1>2. PICK n \in bad : \A m \in bad : n <= m
  <2>1. bad \in SUBSET Nat
    BY <1>1
  <2> HIDE DEF bad
  <2> QED BY <2>1, LeastElement
<1>3. n \in 1..Len(s) /\ f[n] \notin Seq(T) /\ s[n] \in Seq(T)
  OBVIOUS
<1>4. f[n] = IF n = 1 THEN s[n] ELSE f[n - 1] \o s[n]
  BY <1>3 DEF IsFlat
<1>5. n # 1
  BY <1>3, <1>4
<1>6. n - 1 \in 1..Len(s) /\ ~(n <= n - 1)
  BY <1>1, <1>3, <1>5
<1>7. f[n - 1] \in Seq(T)
  BY <1>2, <1>6
<1> QED BY <1>3, <1>4, <1>5, <1>7, ConcatProperties

LEMMA FlattenType ==
  ASSUME NEW T, NEW s \in Seq(Seq(T))
  PROVE  FlattenSeq(s) \in Seq(T)
<1>1. CASE s = <<>>
  BY <1>1 DEF FlattenSeq
<1>2. CASE s # <<>>
  <2>1. PICK f : IsFlat(f, s) /\ FlattenSeq(s) = f[Len(s)]
    BY <1>2, Flattened
  <2>2. Len(s) \in 1..Len(s)
    BY <1>2
  <2> QED BY <2>1, <2>2, FlatType
<1> QED BY <1>1, <1>2

\* What a list flattens to begins with its first sequence.
LEMMA FlattenFirst ==
  ASSUME NEW T, NEW s \in Seq(Seq(T)), s # <<>>
  PROVE  FlattenSeq(s) = s[1] \o FlattenSeq(Tail(s))
<1> DEFINE t == Tail(s)
           n == Len(s)
<1>1. /\ n \in Nat \ {0} /\ t \in Seq(Seq(T)) /\ Len(t) = n - 1 /\ s[1] \in Seq(T)
      /\ \A i \in 1..n - 1 : t[i] = s[i + 1]
  OBVIOUS
<1>6. \A q \in Seq(Seq(T)) : Len(q) = 0 <=> q = <<>>
  OBVIOUS
<1>7. \A a, b, c \in Seq(T) : (a \o b) \o c = a \o (b \o c)
  BY ConcatAssociative
<1>2. PICK f : IsFlat(f, s) /\ FlattenSeq(s) = f[n]
  BY Flattened
<1>3. f[1] = s[1]
  BY <1>1, <1>2 DEF IsFlat
<1>4. CASE n = 1
  <2>1. t = <<>>
    <3> HIDE DEF t
    <3> QED BY <1>1, <1>4, <1>6
  <2>2. FlattenSeq(t) = <<>>
    BY <2>1 DEF FlattenSeq
  <2> QED BY <1>1, <1>2, <1>3, <1>4, <2>2, ConcatEmptySeq
<1>5. CASE n # 1
  <2>1. t # <<>>
    <3> HIDE DEF t, n
    <3>1. n - 1 # 0
      BY <1>1, <1>5
    <3> QED BY <1>1, <1>6, <3>1
  <2>2. PICK g : IsFlat(g, t) /\ FlattenSeq(t) = g[n - 1]
    BY <1>1, <2>1, Flattened
  <2> HIDE DEF t, n
  <2> DEFINE bad == {i \in 2..n : f[i] # s[1] \o g[i - 1]}
  <2>3. bad = {}
    <3> SUFFICES ASSUME bad # {} PROVE FALSE
      OBVIOUS
    <3>1. PICK k \in bad : \A m \in bad : k <= m
      <4>1. bad \in SUBSET Nat
        <5>1. bad \subseteq 2..n
          BY Zenon
        <5> HIDE DEF bad
        <5>2. \A i \in 2..n : i \in Nat
          BY <1>1
        <5> QED BY <5>1, <5>2
      <4> HIDE DEF bad
      <4> QED BY <4>1, LeastElement
    <3>2. k \in 2..n /\ f[k] # s[1] \o g[k - 1]
      OBVIOUS
    <3>3. /\ k \in 1..n /\ k # 1 /\ k - 1 \in 1..n - 1 /\ (k - 1) + 1 = k
          /\ k - 1 \in 1..n /\ ~(k <= k - 1) /\ (k # 2 => k - 1 \in 2..n /\ k - 1 # 1)
      BY <1>1, <3>2
    <3>4. f[k] = f[k - 1] \o s[k]
      BY <1>2, <3>3 DEF IsFlat, n
    <3>5. g[k - 1] = IF k - 1 = 1 THEN t[k - 1] ELSE g[(k - 1) - 1] \o t[k - 1]
      BY <1>1, <2>2, <3>3 DEF IsFlat
    <3>6. t[k - 1] = s[k] /\ s[k] \in Seq(T)
      BY <1>1, <3>3 DEF n
    <3>7. CASE k = 2
      <4>1. f[k - 1] = s[1] /\ g[k - 1] = s[k]
        BY <1>3, <3>5, <3>6, <3>7
      <4> QED BY <3>2, <3>4, <4>1
    <3>8. CASE k # 2
      <4>1. k - 1 \notin bad
        BY <3>1, <3>3
      <4>2. f[k - 1] = s[1] \o g[(k - 1) - 1]
        BY <3>3, <3>8, <4>1
      <4>3. g[(k - 1) - 1] \in Seq(T)
        <5>1. (k - 1) - 1 \in 1..n - 1
          BY <1>1, <3>2, <3>8
        <5> QED BY <1>1, <2>2, <5>1, FlatType
      <4>4. g[k - 1] = g[(k - 1) - 1] \o s[k]
        BY <3>3, <3>5, <3>6, <3>8
      <4> HIDE DEF bad
      <4>5. (s[1] \o g[(k - 1) - 1]) \o s[k] = s[1] \o (g[(k - 1) - 1] \o s[k])
        BY <1>1, <1>7, <3>6, <4>3
      <4> QED BY <3>2, <3>4, <4>2, <4>4, <4>5
    <3> QED BY <3>7, <3>8
  <2>4. n \in 2..n
    BY <1>1, <1>5
  <2>5. f[n] = s[1] \o g[n - 1]
    BY <2>3, <2>4
  <2> QED BY <1>2, <2>2, <2>5 DEF t
<1> QED BY <1>4, <1>5


(* The accesses that a list asks for. *)

Access == {"load", "store"} \X Ranges

Tagged(k, s) == [j \in DOMAIN s |-> <<k, s[j]>>]

AccessesOf(item) == Tagged("load", item.loads) \o Tagged("store", item.stores)

LEMMA TaggedType ==
  ASSUME NEW k \in {"load", "store"}, NEW s \in Seq(Ranges)
  PROVE  Tagged(k, s) \in Seq(Access)
<1>1. Len(s) \in Nat /\ DOMAIN s = 1..Len(s) /\ \A j \in 1..Len(s) : s[j] \in Ranges
  OBVIOUS
<1>2. Tagged(k, s) = [j \in 1..Len(s) |-> <<k, s[j]>>]
  BY <1>1 DEF Tagged
<1>3. \A j \in 1..Len(s) : <<k, s[j]>> \in Access
  BY <1>1 DEF Access
<1> QED BY <1>1, <1>2, <1>3, IsASeq

LEMMA TaggedNone ==
  ASSUME NEW k
  PROVE  Tagged(k, <<>>) = <<>>
BY DEF Tagged

LEMMA TaggedFirst ==
  ASSUME NEW k \in {"load", "store"}, NEW s \in Seq(Ranges), s # <<>>
  PROVE  Tagged(k, s) = <<<<k, Head(s)>>>> \o Tagged(k, Tail(s))
<1> DEFINE l == Tagged(k, s)
           t == Tagged(k, Tail(s))
           r == <<<<k, Head(s)>>>> \o t
<1>1. /\ Len(s) \in Nat \ {0} /\ DOMAIN s = 1..Len(s) /\ Head(s) = s[1] /\ s[1] \in Ranges
      /\ Tail(s) \in Seq(Ranges) /\ Len(Tail(s)) = Len(s) - 1
      /\ DOMAIN Tail(s) = 1..Len(s) - 1
      /\ \A i \in 1..Len(s) - 1 : Tail(s)[i] = s[i + 1]
  OBVIOUS
<1>2. /\ l \in Seq(Access) /\ t \in Seq(Access) /\ <<k, Head(s)>> \in Access
      /\ <<<<k, Head(s)>>>> \in Seq(Access)
  <2>1. <<k, Head(s)>> \in Access
    BY <1>1 DEF Access
  <2>2. \A x \in Access : <<x>> \in Seq(Access)
    OBVIOUS
  <2>3. <<<<k, Head(s)>>>> \in Seq(Access)
    BY <2>1, <2>2, Zenon
  <2> QED BY <1>1, <2>1, <2>3, TaggedType
<1>3. /\ \A i \in 1..Len(s) : l[i] = <<k, s[i]>>
      /\ \A i \in 1..Len(s) - 1 : t[i] = <<k, s[i + 1]>>
  BY <1>1 DEF Tagged
<1>4. Len(l) = Len(s) /\ Len(t) = Len(s) - 1
  <2>1. DOMAIN l = 1..Len(s) /\ DOMAIN t = 1..Len(s) - 1
    BY <1>1 DEF Tagged
  <2> HIDE DEF l, t
  <2>2. DOMAIN l = 1..Len(l) /\ DOMAIN t = 1..Len(t) /\ Len(l) \in Nat /\ Len(t) \in Nat
    BY <1>2, LenProperties
  <2>3. \A a, b \in Nat : 1..a = 1..b => a = b
    OBVIOUS
  <2>4. Len(s) \in Nat /\ Len(s) - 1 \in Nat
    BY <1>1
  <2> QED BY <2>1, <2>2, <2>3, <2>4
<1> DEFINE e == <<k, Head(s)>>
<1> HIDE DEF l, t
<1>5. /\ r \in Seq(Access) /\ Len(r) = 1 + Len(t)
      /\ \A i \in 1..1 + Len(t) : r[i] = IF i <= 1 THEN e ELSE t[i - 1]
  <2>1. e \in Access /\ r = <<e>> \o t
    BY <1>2
  <2> HIDE DEF e, r
  <2>2. <<e>> \in Seq(Access) /\ Len(<<e>>) = 1 /\ <<e>>[1] = e
    BY <2>1
  <2>3. /\ <<e>> \o t \in Seq(Access) /\ Len(<<e>> \o t) = 1 + Len(t)
        /\ \A i \in 1..1 + Len(t) : (<<e>> \o t)[i] = IF i <= 1 THEN <<e>>[i] ELSE t[i - 1]
    BY <1>2, <2>2, ConcatProperties
  <2>4. \A i \in 1..1 + Len(t) : i <= 1 => i = 1
    BY <1>1, <1>4
  <2> QED BY <2>1, <2>2, <2>3, <2>4
<1> HIDE DEF r
<1>6. \A i \in 1..Len(l) : l[i] = r[i]
  <2> SUFFICES ASSUME NEW i \in 1..Len(s) PROVE l[i] = r[i]
    BY <1>4
  <2>1. i \in 1..1 + Len(t)
    BY <1>1, <1>4
  <2>2. CASE i = 1
    <3>1. l[1] = e /\ 1 \in 1..1 + Len(t)
      BY <1>1, <1>3, <2>1, <2>2
    <3> HIDE DEF e
    <3>2. r[1] = e
      BY <1>5, <3>1
    <3> QED BY <2>2, <3>1, <3>2
  <2>3. CASE i # 1
    <3>1. i - 1 \in 1..Len(s) - 1 /\ (i - 1) + 1 = i /\ ~(i <= 1)
      BY <1>1, <2>3
    <3> QED BY <1>3, <1>5, <2>1, <3>1
  <2> QED BY <2>2, <2>3
<1>7. Len(l) = Len(r)
  BY <1>1, <1>4, <1>5
<1>8. l = r
  BY <1>2, <1>5, <1>6, <1>7, SeqEqual
<1> QED BY <1>8 DEF l, r, t

LEMMA AccessesOfType ==
  ASSUME NEW item \in Item
  PROVE  AccessesOf(item) \in Seq(Access)
<1>1. item.loads \in Seq(Ranges) /\ item.stores \in Seq(Ranges)
  BY DEF Item
<1>2. Tagged("load", item.loads) \in Seq(Access) /\ Tagged("store", item.stores) \in Seq(Access)
  BY <1>1, TaggedType
<1> QED BY <1>2, ConcatProperties DEF AccessesOf

LEMMA AccessesNone == Accesses(<<>>) = <<>>
<1> DEFINE s == [i \in DOMAIN <<>> |-> AccessesOf(<<>>[i])]
<1>1. s = <<>>
  OBVIOUS
<1>2. FlattenSeq(<<>>) = <<>>
  BY DEF FlattenSeq
<1>3. Accesses(<<>>) = FlattenSeq(s)
  BY DEF Accesses, AccessesOf, Tagged
<1> QED BY <1>1, <1>2, <1>3

\* A list asks for the accesses of its first item and then for those of the others.
LEMMA AccessesFirst ==
  ASSUME NEW r \in Seq(Item)
  PROVE  /\ Accesses(r) \in Seq(Access)
         /\ r # <<>> => Accesses(r) = AccessesOf(r[1]) \o Accesses(Tail(r))
<1> DEFINE L(q) == [i \in DOMAIN q |-> AccessesOf(q[i])]
<1>1. \A q : Accesses(q) = FlattenSeq(L(q))
  BY DEF Accesses, AccessesOf, Tagged
<1>2. ASSUME NEW q \in Seq(Item)
      PROVE  /\ L(q) \in Seq(Seq(Access)) /\ Len(L(q)) = Len(q)
             /\ \A i \in 1..Len(q) : L(q)[i] = AccessesOf(q[i])
  <2>1. DOMAIN q = 1..Len(q) /\ Len(q) \in Nat /\ \A i \in 1..Len(q) : q[i] \in Item
    OBVIOUS
  <2>2. \A i \in 1..Len(q) : AccessesOf(q[i]) \in Seq(Access)
    BY <2>1, AccessesOfType
  <2>3. L(q) = [i \in 1..Len(q) |-> AccessesOf(q[i])]
    BY <2>1
  <2>4. L(q) \in Seq(Seq(Access))
    BY <2>1, <2>2, <2>3, IsASeq
  <2>5. DOMAIN L(q) = 1..Len(q) /\ \A i \in 1..Len(q) : L(q)[i] = AccessesOf(q[i])
    BY <2>3
  <2> HIDE DEF L
  <2> QED BY <2>1, <2>4, <2>5, LenProperties
<1>3. ASSUME r # <<>>
      PROVE  Accesses(r) = AccessesOf(r[1]) \o Accesses(Tail(r))
  <2>1. /\ Tail(r) \in Seq(Item) /\ Len(r) \in Nat \ {0} /\ Len(Tail(r)) = Len(r) - 1
        /\ \A i \in 1..Len(r) - 1 : Tail(r)[i] = r[i + 1]
    BY <1>3
  <2> DEFINE s == L(r)
             t == L(Tail(r))
  <2>2. /\ s \in Seq(Seq(Access)) /\ Len(s) = Len(r)
        /\ \A i \in 1..Len(r) : s[i] = AccessesOf(r[i])
    BY <1>2
  <2>3. /\ t \in Seq(Seq(Access)) /\ Len(t) = Len(r) - 1
        /\ \A i \in 1..Len(r) - 1 : t[i] = AccessesOf(r[i + 1])
    BY <1>2, <2>1
  <2>4. Accesses(r) = FlattenSeq(s) /\ Accesses(Tail(r)) = FlattenSeq(t)
    BY <1>1
  <2> HIDE DEF s, t, L
  <2>5. s # <<>>
    BY <2>1, <2>2
  <2>6. /\ Tail(s) \in Seq(Seq(Access)) /\ Len(Tail(s)) = Len(s) - 1
        /\ \A i \in 1..Len(s) - 1 : Tail(s)[i] = s[i + 1]
    BY <2>2, <2>5
  <2>7. \A i \in 1..Len(r) - 1 : t[i] = Tail(s)[i]
    <3> SUFFICES ASSUME NEW i \in 1..Len(r) - 1 PROVE t[i] = Tail(s)[i]
      OBVIOUS
    <3>1. i + 1 \in 1..Len(r)
      BY <2>1
    <3> QED BY <2>2, <2>3, <2>6, <3>1
  <2>8. t = Tail(s)
    BY <2>2, <2>3, <2>6, <2>7, SeqEqual
  <2>9. s[1] = AccessesOf(r[1])
    BY <2>1, <2>2
  <2> QED BY <2>2, <2>4, <2>5, <2>8, <2>9, FlattenFirst
<1>4. Accesses(r) \in Seq(Access)
  <2>1. L(r) \in Seq(Seq(Access))
    BY <1>2
  <2> HIDE DEF L
  <2> QED BY <1>1, <2>1, FlattenType
<1> QED BY <1>3, <1>4


\* Every variable of the binding has its type, whatever lists are passed: the loops
\* take items and elements off lists that still have some.
LEMMA RequestTypesNext ==
  ASSUME RequestsTypeOK, [RequestsNext]_<<vars, requestVars>>
  PROVE  RequestsTypeOK'
<1>1. ItemsOK /\ ItemsOK'
  BY ItemsOKNext DEF RequestsTypeOK, ItemsOK
<1>2. asked \in Seq(Access) /\ done \in Seq(Access)
  BY DEF RequestsTypeOK, Access
<1>3. at' \in {"none", "item", "loads", "stores"} /\ {failed, faulty, trouble}' \subseteq BOOLEAN
      /\ outcome' \in {"none", "returned", "raised"}
  BY DEF RequestsTypeOK, RequestsNext, RequestStep, Request, NextItem, NextLoad, LoadsDone,
     NextStore, StoresDone, Return, Raise, At, requestVars
<1>4. asked' \in Seq(Access) /\ done' \in Seq(Access)
  <2>1. ASSUME NEW r \in Requests, Request(r)
        PROVE  asked' \in Seq(Access) /\ done' \in Seq(Access)
    <3>1. asked' = Accesses(r) /\ done' = <<>> /\ r \in Seq(Item)
      BY <2>1, RequestsAssumption DEF Request
    <3>2. Accesses(r) \in Seq(Access)
      BY <3>1, AccessesFirst
    <3> QED BY <3>1, <3>2
  <2>2. CASE NextLoad
    <3>1. Head(Current.loads) \in Ranges
      BY <1>1, <2>2, TakeLoad DEF NextLoad, At, ItemsOK
    <3>2. <<"load", Head(Current.loads)>> \in Access
      BY <3>1 DEF Access
    <3>3. asked' = asked /\ done' = Append(done, <<"load", Head(Current.loads)>>)
      BY <2>2 DEF NextLoad
    <3> QED BY <1>2, <3>2, <3>3, AppendProperties
  <2>3. CASE NextStore
    <3>1. Head(Current.stores) \in Ranges
      BY <1>1, <2>3, TakeStore DEF NextStore, At, ItemsOK
    <3>2. <<"store", Head(Current.stores)>> \in Access
      BY <3>1 DEF Access
    <3>3. asked' = asked /\ done' = Append(done, <<"store", Head(Current.stores)>>)
      BY <2>3 DEF NextStore
    <3> QED BY <1>2, <3>2, <3>3, AppendProperties
  <2>4. CASE UNCHANGED <<asked, done>>
    BY <1>2, <2>4
  <2> QED BY <2>1, <2>2, <2>3, <2>4
          DEF RequestsNext, RequestStep, NextItem, LoadsDone, StoresDone, Return, requestVars
<1> QED BY <1>1, <1>3, <1>4 DEF RequestsTypeOK, ItemsOK, Access

\* Under every list a user passes, also one with a faulty item at any place, the
\* variables of the binding keep their types, and its loops over loads and stores
\* stand at an item.
THEOREM RequestsTyped == RequestsSpec => []RequestsTypeOK
<1>1. RequestsInit => RequestsTypeOK
  <2> SUFFICES ASSUME RequestsInit PROVE RequestsTypeOK
    OBVIOUS
  <2>1. <<>> \in Seq(Item) /\ <<>> \in Seq({"load", "store"} \X Ranges)
    OBVIOUS
  <2> QED BY <2>1 DEF RequestsInit, RequestsTypeOK
<1> QED BY <1>1, RequestTypesNext, PTL DEF RequestsSpec

(* The order of the accesses. *)

\* What has been accessed and what the rest of the list asks for are what the whole
\* list asks for.
InOrder ==
  /\ at # "none" => asked = done \o Accesses(items) /\ outcome = "none"
  /\ at = "stores" => Current.loads = <<>>
  /\ at = "none" => IsPrefix(done, asked)
  /\ outcome = "returned" => done = asked

LEMMA BeginsWith ==
  ASSUME NEW S, NEW s \in Seq(S), NEW t \in Seq(S)
  PROVE  IsPrefix(s, s \o t)
<1> DEFINE r == s \o t
<1>1. /\ r \in Seq(S) /\ Len(r) = Len(s) + Len(t) /\ Len(s) \in Nat /\ Len(t) \in Nat
      /\ \A i \in 1..Len(s) + Len(t) : r[i] = IF i <= Len(s) THEN s[i] ELSE t[i - Len(s)]
  BY ConcatProperties, LenProperties
<1> HIDE DEF r
<1>2. /\ SubSeq(s, 1, Len(s)) = [i \in 1..Len(s) |-> s[i]]
      /\ SubSeq(r, 1, Len(s)) = [i \in 1..Len(s) |-> r[i]]
  BY <1>1
<1>3. \A i \in 1..Len(s) : s[i] = r[i]
  BY <1>1
<1>4. SubSeq(s, 1, Len(s)) = SubSeq(r, 1, Len(s))
  BY <1>2, <1>3
<1>5. Len(s) <= Len(r)
  BY <1>1
<1> QED BY <1>4, <1>5 DEF IsPrefix, r

\* A sequence whose first element is changed has the same rest.
LEMMA RestUnchanged ==
  ASSUME NEW S, NEW q \in Seq(S), q # <<>>, NEW item \in S
  PROVE  Tail([q EXCEPT ![1] = item]) = Tail(q)
<1> DEFINE new == [q EXCEPT ![1] = item]
<1>1. Len(q) \in Nat \ {0} /\ DOMAIN q = 1..Len(q)
  OBVIOUS
<1>2. new \in Seq(S) /\ new # <<>>
  BY SetFirst
<1>3. Len(new) = Len(q) /\ \A i \in 2..Len(q) : new[i] = q[i]
  BY <1>1
<1> HIDE DEF new
<1>4. /\ Tail(new) \in Seq(S) /\ Len(Tail(new)) = Len(q) - 1
      /\ \A i \in 1..Len(q) - 1 : Tail(new)[i] = new[i + 1]
  BY <1>2, <1>3
<1>5. /\ Tail(q) \in Seq(S) /\ Len(Tail(q)) = Len(q) - 1
      /\ \A i \in 1..Len(q) - 1 : Tail(q)[i] = q[i + 1]
  OBVIOUS
<1>6. \A i \in 1..Len(Tail(new)) : Tail(new)[i] = Tail(q)[i]
  <2>1. \A i \in 1..Len(q) - 1 : i + 1 \in 2..Len(q)
    BY <1>1
  <2> QED BY <1>3, <1>4, <1>5, <2>1
<1> QED BY <1>4, <1>5, <1>6, SeqEqual DEF new

\* What a list asks for when its first item is another.
LEMMA ChangedFirst ==
  ASSUME NEW q \in Seq(Item), q # <<>>, NEW item \in Item
  PROVE  Accesses([q EXCEPT ![1] = item]) = AccessesOf(item) \o Accesses(Tail(q))
<1> DEFINE new == [q EXCEPT ![1] = item]
<1>1. new \in Seq(Item) /\ new # <<>>
  BY SetFirst
<1>2. new[1] = item
  <2>1. Len(q) \in Nat \ {0} /\ DOMAIN q = 1..Len(q)
    OBVIOUS
  <2> QED BY <2>1
<1>3. Tail(new) = Tail(q)
  BY RestUnchanged
<1> HIDE DEF new
<1> QED BY <1>1, <1>2, <1>3, AccessesFirst DEF new

\* The access that is made next comes first in what is left of the list.
LEMMA LoadComesFirst ==
  ASSUME ItemsOK, items # <<>>, Current.loads # <<>>
  PROVE  Accesses(items) =
           <<<<"load", Head(Current.loads)>>>> \o Accesses([items EXCEPT ![1].loads = Tail(@)])
<1> DEFINE e   == <<"load", Head(Current.loads)>>
           l   == Tagged("load", Tail(Current.loads))
           s   == Tagged("store", Current.stores)
           r   == Accesses(Tail(items))
           cur == [Current EXCEPT !.loads = Tail(@)]
           new == [items EXCEPT ![1] = cur]
<1>1. items \in Seq(Item) /\ Current \in Item /\ Tail(items) \in Seq(Item)
  BY DEF ItemsOK, Current
<1>2. Current.loads \in Seq(Ranges) /\ Current.stores \in Seq(Ranges)
  BY <1>1 DEF Item
<1>3. Head(Current.loads) \in Ranges /\ Tail(Current.loads) \in Seq(Ranges)
  BY <1>2
<1>4. cur \in Item /\ cur.loads = Tail(Current.loads) /\ cur.stores = Current.stores
  BY <1>1, <1>3 DEF Item
<1>5. e \in Access /\ <<e>> \in Seq(Access)
  <2>1. e \in Access
    BY <1>3 DEF Access
  <2>2. \A x \in Access : <<x>> \in Seq(Access)
    OBVIOUS
  <2> HIDE DEF e
  <2> QED BY <2>1, <2>2
<1>6. l \in Seq(Access) /\ s \in Seq(Access) /\ r \in Seq(Access)
  BY <1>1, <1>2, <1>3, TaggedType, AccessesFirst
<1>7. Accesses(items) = ((<<e>> \o l) \o s) \o r
  <2>1. Accesses(items) = AccessesOf(Current) \o r
    BY <1>1, AccessesFirst DEF Current
  <2>2. Tagged("load", Current.loads) = <<e>> \o l
    BY <1>2, TaggedFirst
  <2> QED BY <2>1, <2>2 DEF AccessesOf
<1>8. [items EXCEPT ![1].loads = Tail(@)] = new
  BY DEF Current
<1> HIDE DEF e, l, s, r, new, cur
<1>9. Accesses(new) = (l \o s) \o r
  <2>1. Accesses(new) = AccessesOf(cur) \o r
    BY <1>1, <1>4, ChangedFirst DEF new, r
  <2> QED BY <1>4, <2>1 DEF AccessesOf, l, s
<1>10. ((<<e>> \o l) \o s) \o r = <<e>> \o ((l \o s) \o r)
  <2>1. \A a, b, c \in Seq(Access) : (a \o b) \o c = a \o (b \o c) /\ a \o b \in Seq(Access)
    BY ConcatAssociative, ConcatProperties
  <2> QED BY <1>5, <1>6, <2>1
<1> QED BY <1>7, <1>8, <1>9, <1>10 DEF e

LEMMA StoreComesFirst ==
  ASSUME ItemsOK, items # <<>>, Current.loads = <<>>, Current.stores # <<>>
  PROVE  /\ Accesses(items) =
              <<<<"store", Head(Current.stores)>>>> \o Accesses([items EXCEPT ![1].stores = Tail(@)])
         /\ [items EXCEPT ![1].stores = Tail(@)][1].loads = <<>>
<1> DEFINE e   == <<"store", Head(Current.stores)>>
           s   == Tagged("store", Tail(Current.stores))
           r   == Accesses(Tail(items))
           cur == [Current EXCEPT !.stores = Tail(@)]
           new == [items EXCEPT ![1] = cur]
<1>1. items \in Seq(Item) /\ Current \in Item /\ Tail(items) \in Seq(Item)
  BY DEF ItemsOK, Current
<1>2. Current.stores \in Seq(Ranges)
  BY <1>1 DEF Item
<1>3. Head(Current.stores) \in Ranges /\ Tail(Current.stores) \in Seq(Ranges)
  BY <1>2
<1>4. cur \in Item /\ cur.loads = <<>> /\ cur.stores = Tail(Current.stores)
  BY <1>1, <1>3 DEF Item
<1>5. e \in Access /\ <<e>> \in Seq(Access)
  <2>1. e \in Access
    BY <1>3 DEF Access
  <2>2. \A x \in Access : <<x>> \in Seq(Access)
    OBVIOUS
  <2> HIDE DEF e
  <2> QED BY <2>1, <2>2
<1>6. s \in Seq(Access) /\ r \in Seq(Access)
  BY <1>1, <1>3, TaggedType, AccessesFirst
<1>7. new[1] = cur
  <2>1. Len(items) \in Nat \ {0} /\ DOMAIN items = 1..Len(items)
    BY <1>1
  <2> HIDE DEF cur
  <2> QED BY <2>1
<1>8. [items EXCEPT ![1].stores = Tail(@)] = new
  BY DEF Current
<1>9. \A a \in Seq(Access) : <<>> \o a = a
  BY ConcatEmptySeq
<1>10. Accesses(items) = (<<e>> \o s) \o r
  <2>1. Accesses(items) = AccessesOf(Current) \o r
    BY <1>1, AccessesFirst DEF Current
  <2>2. Tagged("store", Current.stores) = <<e>> \o s
    BY <1>2, TaggedFirst
  <2> HIDE DEF e, s, r
  <2>3. <<e>> \o s \in Seq(Access)
    BY <1>5, <1>6, ConcatProperties
  <2> QED BY <1>9, <2>1, <2>2, <2>3, TaggedNone DEF AccessesOf
<1> HIDE DEF e, s, r, new, cur
<1>11. Accesses(new) = s \o r
  <2>1. Accesses(new) = AccessesOf(cur) \o r
    BY <1>1, <1>4, ChangedFirst DEF new, r
  <2>2. AccessesOf(cur) = <<>> \o s
    BY <1>4, TaggedNone DEF AccessesOf, s
  <2> QED BY <1>6, <1>9, <2>1, <2>2
<1>12. (<<e>> \o s) \o r = <<e>> \o (s \o r)
  BY <1>5, <1>6, ConcatAssociative
<1> QED BY <1>4, <1>7, <1>8, <1>10, <1>11, <1>12 DEF e

\* An item of which nothing is left may be dropped.
LEMMA NothingLeft ==
  ASSUME ItemsOK, items # <<>>, Current.loads = <<>>, Current.stores = <<>>
  PROVE  Accesses(items) = Accesses(Tail(items))
<1>1. items \in Seq(Item) /\ Tail(items) \in Seq(Item)
  BY DEF ItemsOK
<1>2. Accesses(items) = AccessesOf(Current) \o Accesses(Tail(items))
  BY <1>1, AccessesFirst DEF Current
<1>3. Accesses(Tail(items)) \in Seq(Access)
  BY <1>1, AccessesFirst
<1>4. AccessesOf(Current) = <<>> \o <<>>
  BY TaggedNone DEF AccessesOf
<1>5. <<>> \in Seq(Access) /\ \A a \in Seq(Access) : <<>> \o a = a
  BY ConcatEmptySeq
<1> QED BY <1>2, <1>3, <1>4, <1>5

LEMMA Moved ==
  ASSUME NEW d \in Seq(Access), NEW e \in Access, NEW b \in Seq(Access)
  PROVE  d \o (<<e>> \o b) = Append(d, e) \o b
<1>1. Append(d, e) = d \o <<e>> /\ <<e>> \in Seq(Access)
  BY AppendIsConcat
<1> QED BY <1>1, ConcatAssociative

LEMMA InOrderNext ==
  ASSUME RequestsTypeOK, InOrder, [RequestsNext]_<<vars, requestVars>>
  PROVE  InOrder'
<1>1. ItemsOK /\ ItemsOK'
  BY ItemsOKNext DEF RequestsTypeOK, ItemsOK
<1>2. asked \in Seq(Access) /\ done \in Seq(Access) /\ items \in Seq(Item)
  BY DEF RequestsTypeOK, Access
<1>3. at # "none" => Accesses(items) \in Seq(Access)
  BY <1>2, AccessesFirst
<1>4. at # "none" => IsPrefix(done, asked)
  BY <1>2, <1>3, BeginsWith DEF InOrder
<1>5. ASSUME NEW r \in Requests, Request(r)
      PROVE  InOrder'
  <2>1. r \in Seq(Item) /\ at' = "item" /\ outcome' = "none"
        /\ items' = r /\ asked' = Accesses(r) /\ done' = <<>>
    BY <1>5, RequestsAssumption DEF Request
  <2>2. <<>> \o Accesses(r) = Accesses(r)
    BY <2>1, AccessesFirst, ConcatEmptySeq
  <2> QED BY <2>1, <2>2 DEF InOrder, Accesses
<1>6. ASSUME Raise, at # "none", UNCHANGED <<asked, done>>
      PROVE  InOrder'
  BY <1>4, <1>6 DEF InOrder, Raise
<1>7. ASSUME UNCHANGED <<items, outcome, asked, done>>, at # "none", at' # "none",
             at' = "stores" => Current.loads = <<>>
      PROVE  InOrder'
  BY <1>7 DEF InOrder, Accesses, Current
<1>8. CASE NextItem
  BY <1>6, <1>7, <1>8 DEF NextItem, At
<1>9. CASE LoadsDone
  BY <1>6, <1>7, <1>9 DEF LoadsDone, At
<1>10. CASE NextLoad
  <2> DEFINE e   == <<"load", Head(Current.loads)>>
             new == [items EXCEPT ![1].loads = Tail(@)]
  <2>1. /\ at = "loads" /\ at' = at /\ outcome' = outcome /\ asked' = asked
        /\ Current.loads # <<>> /\ items' = new /\ done' = Append(done, e)
    BY <1>10 DEF NextLoad, At
  <2>2. items # <<>>
    BY <1>1, <2>1 DEF ItemsOK
  <2>3. e \in Access /\ new \in Seq(Item)
    BY <1>1, <2>1, <2>2, TakeLoad DEF Access
  <2>4. Accesses(items) = <<e>> \o Accesses(new)
    BY <1>1, <2>1, <2>2, LoadComesFirst
  <2> HIDE DEF e, new
  <2>5. Accesses(new) \in Seq(Access)
    BY <2>3, AccessesFirst
  <2>6. done \o Accesses(items) = Append(done, e) \o Accesses(new)
    <3>1. done \o (<<e>> \o Accesses(new)) = Append(done, e) \o Accesses(new)
      BY <1>2, <2>3, <2>5, Moved, Zenon
    <3> QED BY <2>4, <3>1
  <2> QED BY <2>1, <2>6 DEF InOrder, Accesses
<1>11. CASE NextStore
  <2> DEFINE e   == <<"store", Head(Current.stores)>>
             new == [items EXCEPT ![1].stores = Tail(@)]
  <2>1. /\ at = "stores" /\ at' = at /\ outcome' = outcome /\ asked' = asked
        /\ Current.stores # <<>> /\ items' = new /\ done' = Append(done, e)
    BY <1>11 DEF NextStore, At
  <2>2. items # <<>> /\ Current.loads = <<>>
    BY <1>1, <2>1 DEF ItemsOK, InOrder
  <2>3. e \in Access /\ new \in Seq(Item)
    BY <1>1, <2>1, <2>2, TakeStore DEF Access
  <2>4. Accesses(items) = <<e>> \o Accesses(new) /\ new[1].loads = <<>>
    BY <1>1, <2>1, <2>2, StoreComesFirst
  <2> HIDE DEF e, new
  <2>5. Accesses(new) \in Seq(Access)
    BY <2>3, AccessesFirst
  <2>6. done \o Accesses(items) = Append(done, e) \o Accesses(new)
    <3>1. done \o (<<e>> \o Accesses(new)) = Append(done, e) \o Accesses(new)
      BY <1>2, <2>3, <2>5, Moved, Zenon
    <3> QED BY <2>4, <3>1
  <2> QED BY <2>1, <2>4, <2>6 DEF InOrder, Accesses, Current
<1>12. CASE StoresDone
  <2>1. /\ at = "stores" /\ at' = "item" /\ UNCHANGED <<outcome, asked, done>>
        /\ Current.stores = <<>> /\ items' = Tail(items)
    BY <1>12 DEF StoresDone, At
  <2>2. items # <<>> /\ Current.loads = <<>>
    BY <1>1, <2>1 DEF ItemsOK, InOrder
  <2>3. Accesses(items) = Accesses(Tail(items))
    BY <1>1, <2>1, <2>2, NothingLeft
  <2> QED BY <2>1, <2>3 DEF InOrder, Accesses
<1>13. CASE Return
  <2>1. at = "item" /\ items = <<>> /\ UNCHANGED <<asked, done>>
    BY <1>13 DEF Return, At
  <2>2. asked = done
    BY <1>2, <2>1, AccessesNone, ConcatEmptySeq DEF InOrder
  <2> QED BY <1>4, <1>6, <1>13, <2>1, <2>2 DEF InOrder, Return
<1>14. CASE UNCHANGED requestVars
  BY <1>14 DEF InOrder, requestVars, Accesses, Current
<1> QED
  BY <1>5, <1>8, <1>9, <1>10, <1>11, <1>12, <1>13, <1>14 DEF RequestsNext, RequestStep, requestVars

\* "Load and store address in order given." (cache.py:151): whatever the list holds,
\* the accesses made so far are the beginning of those it asks for, its items one
\* after the other and the loads of each before its stores; and when no exception
\* is raised, all of them were made.
THEOREM AccessesInOrder == RequestsSpec => []AppliedInOrder
<1>1. RequestsInit => RequestsTypeOK /\ InOrder
  <2> SUFFICES ASSUME RequestsInit PROVE RequestsTypeOK /\ InOrder
    OBVIOUS
  <2>1. <<>> \in Seq(Item) /\ <<>> \in Seq({"load", "store"} \X Ranges) /\ <<>> \in Seq(Access)
    OBVIOUS
  <2>2. IsPrefix(<<>>, <<>> \o <<>>)
    BY <2>1, BeginsWith
  <2>3. <<>> \o <<>> = <<>>
    BY <2>1, ConcatEmptySeq
  <2> QED BY <2>1, <2>2, <2>3 DEF RequestsInit, RequestsTypeOK, InOrder
<1>2. RequestsTypeOK /\ InOrder => AppliedInOrder
  <2> SUFFICES ASSUME RequestsTypeOK, InOrder PROVE AppliedInOrder
    OBVIOUS
  <2>1. done \in Seq(Access) /\ items \in Seq(Item)
    BY DEF RequestsTypeOK, Access
  <2>2. at # "none" => IsPrefix(done, asked)
    BY <2>1, AccessesFirst, BeginsWith DEF InOrder
  <2> QED BY <2>2 DEF InOrder, AppliedInOrder
<1>3. RequestsTypeOK /\ InOrder /\ [RequestsNext]_<<vars, requestVars>> => (RequestsTypeOK /\ InOrder)'
  BY RequestTypesNext, InOrderNext
<1> QED BY <1>1, <1>2, <1>3, PTL DEF RequestsSpec

(* What is wrong with a list. *)

Faulty(q) == \E i \in DOMAIN q : ~Faultless(q[i])

\* What was wrong with the list is still in what is left of it, or has set an exception
\* that stays set.
FaultsKept ==
  /\ at # "none" => (faulty <=> failed \/ Faulty(items)) /\ outcome = "none"
  /\ at = "loads" => Current.valid # "none"
  /\ at = "stores" => /\ Current.valid = "all" /\ Current.loads = <<>>
                      /\ "loads" \in Current.breaks => failed
  /\ at = "none" => ~failed /\ ErrorsSurface

LEMMA NoStrayFirst ==
  ASSUME NEW S, NEW s \in Seq(S), s # <<>>
  PROVE  NoStray(s) <=> Head(s) # Stray /\ NoStray(Tail(s))
<1>1. /\ Len(s) \in Nat \ {0} /\ DOMAIN s = 1..Len(s) /\ Head(s) = s[1]
      /\ DOMAIN Tail(s) = 1..Len(s) - 1
      /\ \A i \in 1..Len(s) - 1 : Tail(s)[i] = s[i + 1]
  OBVIOUS
<1>2. ASSUME Head(s) # Stray, NoStray(Tail(s))
      PROVE  NoStray(s)
  <2> SUFFICES ASSUME NEW i \in 1..Len(s) PROVE s[i] # Stray
    BY <1>1 DEF NoStray
  <2>1. CASE i = 1
    BY <1>1, <1>2, <2>1
  <2>2. CASE i # 1
    <3>1. i - 1 \in 1..Len(s) - 1 /\ (i - 1) + 1 = i
      BY <1>1, <2>2
    <3> QED BY <1>1, <1>2, <3>1 DEF NoStray
  <2> QED BY <2>1, <2>2
<1>3. ASSUME NoStray(s)
      PROVE  Head(s) # Stray /\ NoStray(Tail(s))
  <2>1. 1 \in 1..Len(s) /\ \A i \in 1..Len(s) - 1 : i + 1 \in 1..Len(s)
    BY <1>1
  <2> QED BY <1>1, <1>3, <2>1 DEF NoStray
<1> QED BY <1>2, <1>3

\* A list is faulty in its first item or behind it.
LEMMA FaultyFirst ==
  ASSUME NEW q \in Seq(Item), q # <<>>
  PROVE  Faulty(q) <=> ~Faultless(q[1]) \/ Faulty(Tail(q))
<1>1. /\ Len(q) \in Nat \ {0} /\ DOMAIN q = 1..Len(q) /\ DOMAIN Tail(q) = 1..Len(q) - 1
      /\ \A i \in 1..Len(q) - 1 : Tail(q)[i] = q[i + 1]
  OBVIOUS
<1>2. ASSUME Faulty(q), Faultless(q[1])
      PROVE  Faulty(Tail(q))
  <2>1. PICK i \in 1..Len(q) : ~Faultless(q[i])
    BY <1>1, <1>2, Zenon DEF Faulty
  <2>2. i # 1
    BY <1>2, <2>1
  <2>3. i - 1 \in 1..Len(q) - 1 /\ (i - 1) + 1 = i
    BY <1>1, <2>1, <2>2
  <2>4. Tail(q)[i - 1] = q[i]
    BY <1>1, <2>3
  <2> QED BY <1>1, <2>1, <2>3, <2>4, Zenon DEF Faulty
<1>3. ASSUME Faulty(Tail(q))
      PROVE  Faulty(q)
  <2>1. PICK i \in 1..Len(q) - 1 : ~Faultless(Tail(q)[i])
    BY <1>1, <1>3, Zenon DEF Faulty
  <2>2. i + 1 \in 1..Len(q) /\ Tail(q)[i] = q[i + 1]
    BY <1>1, <2>1
  <2> QED BY <1>1, <2>1, <2>2, Zenon DEF Faulty
<1>4. ASSUME ~Faultless(q[1])
      PROVE  Faulty(q)
  <2>1. 1 \in 1..Len(q)
    BY <1>1
  <2> QED BY <1>1, <1>4, <2>1, Zenon DEF Faulty
<1> QED BY <1>2, <1>3, <1>4

LEMMA FaultyChanged ==
  ASSUME NEW q \in Seq(Item), q # <<>>, NEW item \in Item
  PROVE  Faulty([q EXCEPT ![1] = item]) <=> ~Faultless(item) \/ Faulty(Tail(q))
<1> DEFINE new == [q EXCEPT ![1] = item]
<1>1. new \in Seq(Item) /\ new # <<>>
  BY SetFirst
<1>2. new[1] = item
  <2>1. Len(q) \in Nat \ {0} /\ DOMAIN q = 1..Len(q)
    OBVIOUS
  <2> QED BY <2>1
<1>3. Tail(new) = Tail(q)
  BY RestUnchanged
<1> HIDE DEF new
<1>4. Faulty(new) <=> ~Faultless(new[1]) \/ Faulty(Tail(new))
  BY <1>1, FaultyFirst
<1> QED BY <1>2, <1>3, <1>4 DEF new

\* The element that is taken next may be what was wrong with the item.
LEMMA LoadTaken ==
  ASSUME ItemsOK, items # <<>>, Current.loads # <<>>
  PROVE  LET new == [items EXCEPT ![1].loads = Tail(@)] IN
         /\ Faulty(items) <=> Head(Current.loads) = Stray \/ Faulty(new)
         /\ new[1].valid = Current.valid
<1> DEFINE cur  == [Current EXCEPT !.loads = Tail(@)]
           new  == [items EXCEPT ![1] = cur]
           head == Head(Current.loads)
<1>1. items \in Seq(Item) /\ Current \in Item /\ Current.loads \in Seq(Ranges)
  <2>1. items \in Seq(Item) /\ Current \in Item
    BY DEF ItemsOK, Current
  <2> QED BY <2>1 DEF Item
<1>2. Tail(Current.loads) \in Seq(Ranges)
  BY <1>1
<1>3. /\ cur \in Item /\ cur.loads = Tail(Current.loads) /\ cur.stores = Current.stores
      /\ cur.valid = Current.valid /\ cur.breaks = Current.breaks
  BY <1>1, <1>2 DEF Item
<1>4. [items EXCEPT ![1].loads = Tail(@)] = new
  BY DEF Current
<1>5. new[1] = cur
  <2>1. Len(items) \in Nat \ {0} /\ DOMAIN items = 1..Len(items)
    BY <1>1
  <2> HIDE DEF cur
  <2> QED BY <2>1
<1>6. NoStray(Current.loads) <=> head # Stray /\ NoStray(cur.loads)
  BY <1>1, <1>3, NoStrayFirst
<1> HIDE DEF cur, head
<1>7. ~Faultless(Current) <=> head = Stray \/ ~Faultless(cur)
  BY <1>3, <1>6 DEF Faultless
<1>8. Faulty(items) <=> ~Faultless(Current) \/ Faulty(Tail(items))
  BY <1>1, FaultyFirst, Zenon DEF Current
<1>9. Faulty(new) <=> ~Faultless(cur) \/ Faulty(Tail(items))
  BY <1>1, <1>3, FaultyChanged, Zenon
<1> HIDE DEF new
<1> QED BY <1>3, <1>4, <1>5, <1>7, <1>8, <1>9, Zenon DEF head

LEMMA StoreTaken ==
  ASSUME ItemsOK, items # <<>>, Current.stores # <<>>
  PROVE  LET new == [items EXCEPT ![1].stores = Tail(@)] IN
         /\ Faulty(items) <=> Head(Current.stores) = Stray \/ Faulty(new)
         /\ new[1].valid = Current.valid /\ new[1].loads = Current.loads
         /\ new[1].breaks = Current.breaks
<1> DEFINE cur  == [Current EXCEPT !.stores = Tail(@)]
           new  == [items EXCEPT ![1] = cur]
           head == Head(Current.stores)
<1>1. items \in Seq(Item) /\ Current \in Item /\ Current.stores \in Seq(Ranges)
  <2>1. items \in Seq(Item) /\ Current \in Item
    BY DEF ItemsOK, Current
  <2> QED BY <2>1 DEF Item
<1>2. Tail(Current.stores) \in Seq(Ranges)
  BY <1>1
<1>3. /\ cur \in Item /\ cur.stores = Tail(Current.stores) /\ cur.loads = Current.loads
      /\ cur.valid = Current.valid /\ cur.breaks = Current.breaks
  BY <1>1, <1>2 DEF Item
<1>4. [items EXCEPT ![1].stores = Tail(@)] = new
  BY DEF Current
<1>5. new[1] = cur
  <2>1. Len(items) \in Nat \ {0} /\ DOMAIN items = 1..Len(items)
    BY <1>1
  <2> HIDE DEF cur
  <2> QED BY <2>1
<1>6. NoStray(Current.stores) <=> head # Stray /\ NoStray(cur.stores)
  BY <1>1, <1>3, NoStrayFirst
<1> HIDE DEF cur, head
<1>7. ~Faultless(Current) <=> head = Stray \/ ~Faultless(cur)
  BY <1>3, <1>6 DEF Faultless
<1>8. Faulty(items) <=> ~Faultless(Current) \/ Faulty(Tail(items))
  BY <1>1, FaultyFirst, Zenon DEF Current
<1>9. Faulty(new) <=> ~Faultless(cur) \/ Faulty(Tail(items))
  BY <1>1, <1>3, FaultyChanged, Zenon
<1> HIDE DEF new
<1> QED BY <1>3, <1>4, <1>5, <1>7, <1>8, <1>9, Zenon DEF head

LEMMA FaultsKeptNext ==
  ASSUME RequestsTypeOK, FaultsKept, [RequestsNext]_<<vars, requestVars>>
  PROVE  FaultsKept'
<1>1. ItemsOK /\ items \in Seq(Item) /\ faulty \in BOOLEAN /\ failed \in BOOLEAN
  BY DEF RequestsTypeOK, ItemsOK
<1>2. items # <<>> => (Faulty(items) <=> ~Faultless(Current) \/ Faulty(Tail(items)))
  BY <1>1, FaultyFirst, Zenon DEF Current
<1>3. ASSUME NEW r \in Requests, Request(r)
      PROVE  FaultsKept'
  <2>1. /\ at' = "item" /\ outcome' = "none" /\ items' = r /\ failed' = failed
        /\ faulty' = Faulty(r) /\ at = "none"
    BY <1>3 DEF Request, Faulty
  <2> QED BY <2>1 DEF FaultsKept, Faulty
<1>4. ASSUME Raise, UNCHANGED faulty, at # "none", Faulty(items) \/ failed
      PROVE  FaultsKept'
  BY <1>1, <1>4 DEF Raise, FaultsKept, ErrorsSurface
<1>5. CASE NextItem
  <2>1. at = "item" /\ items # <<>> /\ UNCHANGED faulty
    BY <1>5 DEF NextItem, At
  <2>2. CASE Current.valid = "none" /\ Raise
    <3>1. ~Faultless(Current)
      BY <2>2 DEF Faultless
    <3> QED BY <1>2, <1>4, <2>1, <2>2, <3>1
  <2>3. CASE Current.valid # "none" /\ at' = "loads" /\ UNCHANGED <<items, failed, outcome, trouble>>
    BY <2>1, <2>3 DEF FaultsKept, Faulty, Current
  <2> QED BY <1>5, <2>2, <2>3 DEF NextItem
<1>6. CASE NextLoad
  <2>1. /\ at = "loads" /\ at' = at /\ outcome' = outcome /\ faulty' = faulty
        /\ items' = [items EXCEPT ![1].loads = Tail(@)]
        /\ failed' = (failed \/ Head(Current.loads) = Stray)
        /\ Current.loads # <<>> /\ items # <<>>
    BY <1>1, <1>6 DEF NextLoad, At, ItemsOK
  <2>2. /\ Faulty(items) <=> Head(Current.loads) = Stray \/ Faulty(items')
        /\ items'[1].valid = Current.valid
    BY <1>1, <2>1, LoadTaken, Zenon
  <2>3. Faulty(items)' <=> Faulty(items')
    BY DEF Faulty
  <2>4. Current' = items'[1]
    BY DEF Current
  <2> QED BY <2>1, <2>2, <2>3, <2>4 DEF FaultsKept
<1>7. CASE LoadsDone
  <2>1. /\ at = "loads" /\ items # <<>> /\ UNCHANGED faulty /\ Current.loads = <<>>
        /\ Current \in Item
    BY <1>1, <1>7 DEF LoadsDone, At, ItemsOK, Current
  <2>2. CASE Current.valid = "loads" /\ Raise
    <3>1. ~Faultless(Current)
      BY <2>2 DEF Faultless
    <3> QED BY <1>2, <1>4, <2>1, <2>2, <3>1
  <2>3. CASE /\ Current.valid = "all" /\ at' = "stores"
             /\ failed' = (failed \/ "loads" \in Current.breaks)
             /\ UNCHANGED <<items, outcome, trouble>>
    <3>1. "loads" \in Current.breaks => Faulty(items)
      <4>1. "loads" \in Current.breaks => ~Faultless(Current)
        BY DEF Faultless
      <4> QED BY <1>2, <2>1, <4>1
    <3> HIDE DEF Current
    <3>2. Current' = Current
      BY <2>3 DEF Current
    <3>3. Faulty(items)' <=> Faulty(items)
      BY <2>3 DEF Faulty
    <3> QED BY <1>1, <2>1, <2>3, <3>1, <3>2, <3>3 DEF FaultsKept
  <2> QED BY <1>7, <2>2, <2>3 DEF LoadsDone
<1>8. CASE NextStore
  <2>1. /\ at = "stores" /\ at' = at /\ outcome' = outcome /\ faulty' = faulty
        /\ items' = [items EXCEPT ![1].stores = Tail(@)]
        /\ failed' = (failed \/ Head(Current.stores) = Stray)
        /\ Current.stores # <<>> /\ items # <<>>
    BY <1>1, <1>8 DEF NextStore, At, ItemsOK
  <2>2. /\ Faulty(items) <=> Head(Current.stores) = Stray \/ Faulty(items')
        /\ items'[1].valid = Current.valid /\ items'[1].loads = Current.loads
        /\ items'[1].breaks = Current.breaks
    BY <1>1, <2>1, StoreTaken, Zenon
  <2>3. Faulty(items)' <=> Faulty(items')
    BY DEF Faulty
  <2>4. Current' = items'[1]
    BY DEF Current
  <2> QED BY <2>1, <2>2, <2>3, <2>4 DEF FaultsKept
<1>9. CASE StoresDone
  <2>1. /\ at = "stores" /\ at' = "item" /\ outcome' = outcome /\ faulty' = faulty
        /\ items' = Tail(items) /\ failed' = (failed \/ "stores" \in Current.breaks)
        /\ Current.stores = <<>> /\ items # <<>> /\ Current \in Item
    BY <1>1, <1>9 DEF StoresDone, At, ItemsOK, Current
  <2>2. /\ Current.valid = "all" /\ Current.loads = <<>>
        /\ "loads" \in Current.breaks => failed
    BY <2>1 DEF FaultsKept
  <2>3. NoStray(<<>>)
    BY DEF NoStray
  <2>4. ~Faultless(Current) <=> Current.breaks # {}
    BY <2>1, <2>2, <2>3 DEF Faultless
  <2>5. Current.breaks # {} <=> "loads" \in Current.breaks \/ "stores" \in Current.breaks
    BY <2>1 DEF Item
  <2>6. failed' \/ Faulty(Tail(items)) <=> failed \/ Faulty(items)
    BY <1>2, <2>1, <2>2, <2>4, <2>5, Zenon
  <2>7. Faulty(items)' <=> Faulty(Tail(items))
    BY <2>1 DEF Faulty
  <2> QED BY <2>1, <2>6, <2>7 DEF FaultsKept
<1>10. CASE Return
  <2>1. at = "item" /\ items = <<>> /\ UNCHANGED faulty
    BY <1>10 DEF Return, At
  <2>2. ~Faulty(items)
    BY <2>1 DEF Faulty
  <2>3. CASE failed /\ Raise
    BY <1>4, <2>1, <2>3
  <2>4. CASE ~failed /\ at' = "none" /\ outcome' = "returned" /\ UNCHANGED <<items, failed, trouble>>
    BY <2>1, <2>2, <2>4 DEF FaultsKept, ErrorsSurface
  <2> QED BY <1>10, <2>3, <2>4 DEF Return
<1>11. CASE UNCHANGED requestVars
  BY <1>11 DEF FaultsKept, Faulty, ErrorsSurface, requestVars, Current
<1> QED
  BY <1>3, <1>5, <1>6, <1>7, <1>8, <1>9, <1>10, <1>11 DEF RequestsNext, RequestStep, requestVars

\* A request ends in an exception if and only if something is wrong with its list,
\* whatever the list holds: the exception that a loop leaves set stays set through
\* the accesses and conversions after it (backend.c:683-763), and none is raised for
\* a sound list.
THEOREM FaultsSurface == RequestsSpec => []ErrorsSurface
<1>1. RequestsInit => FaultsKept
  BY DEF RequestsInit, FaultsKept, ErrorsSurface
<1>2. FaultsKept => ErrorsSurface
  BY DEF FaultsKept, ErrorsSurface
<1> QED BY <1>1, <1>2, FaultsKeptNext, RequestsTyped, PTL DEF RequestsSpec

(* The address that could not be converted. *)

\* A set of addresses apart from all others: no line of any cache lies across its
\* border.
Undivided(zone) ==
  \A c \in Levels : \A a, b \in Nat : ClId(c, a) = ClId(c, b) => (a \in zone <=> b \in zone)

\* Stray stands in such a set, and no other element of a list has a byte in it.
Separates(zone) ==
  /\ Undivided(zone)
  /\ Stray.addr \in zone
  /\ \A r \in Ranges \ {Stray} : r.addr \notin zone /\ Bytes(r) \cap zone = {}

StrayApart == \E zone \in SUBSET Nat : Separates(zone)

Zone == CHOOSE zone \in SUBSET Nat : Separates(zone)

\* A line keeps its number when it is delivered, so a victim cache must have lines of
\* the size of those it is given (cache.py:365).
VictimsAlike ==
  \A c \in Levels : Cache[c].victims_to # None =>
    Cache[Cache[c].victims_to].cl_size = Cache[c].cl_size

Apart(range) == range.addr \notin Zone /\ Bytes(range) \cap Zone = {}

LineApart(c, cl) == cl * Cache[c].cl_size \notin Zone

FrameApart(f) ==
  /\ f.fn \in {"load", "fill", "store", "write"} =>
       Apart(f.range) /\ ClId(f.c, f.range.addr) <= f.cl
  /\ f.fn \in {"fill", "write", "inject"} => LineApart(f.c, f.cl)

StackApart(st) == \A i \in 1..Len(st) : FrameApart(st[i])

QueueApart(c, q) == \A w \in Ways(c) : q[w].invalid \/ LineApart(c, q[w].cl_id)

PlacementApart == \A c \in Levels : \A s \in Sets(c) : QueueApart(c, placement[c][s])

\* No cache has a line of the zone, and no function is at work on one.
Untouched == PlacementApart /\ StackApart(stack)

LEMMA ZoneSeparates ==
  ASSUME StrayApart PROVE Zone \in SUBSET Nat /\ Separates(Zone)
BY DEF StrayApart, Zone

\* Such a set exists around every address: the block it has in a division of memory
\* into blocks of which each cache divides every one into lines.
LEMMA BlockUndivided ==
  ASSUME NEW size \in Nat \ {0},
         \A c \in Levels : \E m \in Nat \ {0} : size = m * Cache[c].cl_size,
         NEW k \in Nat
  PROVE  Undivided({a \in Nat : a \div size = k})
<1> SUFFICES ASSUME NEW c \in Levels, NEW a \in Nat, NEW b \in Nat, ClId(c, a) = ClId(c, b),
                    a \div size = k
             PROVE  b \div size = k
  BY DEF Undivided
<1> DEFINE d == Cache[c].cl_size
<1>1. d \in Nat \ {0}
  BY CacheType
<1>2. PICK m \in Nat \ {0} : size = m * d
  OBVIOUS
<1> DEFINE q    == ClId(c, a)
           low  == k * m
           high == low + m
<1>3. q \in Nat /\ q * d <= a /\ a < q * d + d /\ q * d <= b /\ b < q * d + d
  BY <1>1, InItsLine
<1>4. low \in Nat /\ high \in Nat
  BY TimesIsNat
<1>5. low * d = k * size /\ high * d = k * size + size
  <2>1. \A x, y, z \in Int : (x * y) * z = x * (y * z) /\ (x + y) * z = x * z + y * z
    OBVIOUS
  <2> QED BY <1>1, <1>2, <1>4, <2>1
<1>6. k * size <= a /\ a < k * size + size
  <2>1. \A x \in Nat, y \in Nat \ {0} : (x \div y) * y <= x /\ x < (x \div y) * y + y
    OBVIOUS
  <2> QED BY <2>1
<1>7. \A x, y \in Nat : x * d < y * d => x < y
  <2> HIDE DEF d
  <2> SUFFICES ASSUME NEW x \in Nat, NEW y \in Nat, ~(x < y) PROVE ~(x * d < y * d)
    OBVIOUS
  <2>1. y <= x
    OBVIOUS
  <2>2. y * d <= x * d
    BY <1>1, <2>1
  <2>3. y * d \in Nat /\ x * d \in Nat
    BY <1>1, TimesIsNat
  <2> QED BY <2>2, <2>3
<1>8. \A x, y \in Nat : x <= y => x * d <= y * d
  BY <1>1
<1> HIDE DEF q, low, high, d
<1>9. q < high /\ low < q + 1
  <2>1. q * d < high * d
    BY <1>1, <1>3, <1>5, <1>6, TimesIsNat
  <2>2. low * d < (q + 1) * d
    <3>1. (q + 1) * d = q * d + d
      BY <1>1, <1>3
    <3> QED BY <1>1, <1>3, <1>4, <1>5, <1>6, <3>1, TimesIsNat
  <2>3. q + 1 \in Nat
    BY <1>3
  <2> QED BY <1>3, <1>4, <1>7, <2>1, <2>2, <2>3
<1>10. low * d <= q * d /\ q * d + d <= high * d
  <2>1. low <= q /\ q + 1 <= high /\ q + 1 \in Nat
    BY <1>3, <1>4, <1>9
  <2>2. (q + 1) * d = q * d + d
    BY <1>1, <1>3
  <2>3. (q + 1) * d <= high * d
    BY <1>4, <1>8, <2>1
  <2> QED BY <1>3, <1>4, <1>8, <2>1, <2>2, <2>3
<1>11. k * size <= b /\ b < k * size + size
  <2>1. k * size \in Nat /\ q * d \in Nat
    BY <1>1, <1>3, TimesIsNat
  <2> QED BY <1>1, <1>3, <1>5, <1>10, <2>1
<1>12. \A x \in Nat, y \in Nat \ {0}, z \in Nat : z * y <= x /\ x < z * y + y => x \div y = z
  OBVIOUS
<1> QED BY <1>11, <1>12

LEMMA LineRangeApart ==
  ASSUME Undivided(Zone), NEW c \in Levels, NEW cl \in Nat, LineApart(c, cl)
  PROVE  Apart(LineRange(c, cl))
<1> DEFINE r == LineRange(c, cl)
           a == cl * Cache[c].cl_size
<1>1. r \in AddrRange /\ r.addr = a
  BY GeometryType DEF LineRange
<1>2. a \in Nat /\ a \notin Zone
  BY CacheType, TimesIsNat DEF LineApart
<1>3. LastCl(c, r) = cl /\ ClId(c, r.addr) = cl
  BY LineEnd
<1>4. ASSUME NEW b \in Bytes(r) PROVE b \notin Zone
  <2> HIDE DEF r, a
  <2>1. cl <= ClId(c, b) /\ ClId(c, b) <= cl /\ b \in Nat
    BY <1>1, <1>3, RangeLines
  <2>2. ClId(c, b) \in Nat
    BY <2>1, InItsLine
  <2>3. ClId(c, b) = ClId(c, a)
    BY <1>1, <1>3, <2>1, <2>2
  <2> QED BY <1>2, <2>1, <2>3 DEF Undivided
<1> QED BY <1>1, <1>2, <1>4 DEF Apart

\* The lines of a range are as far from the zone as its bytes.
LEMMA RangeLineApart ==
  ASSUME Undivided(Zone), NEW c \in Levels, NEW range \in AddrRange, Apart(range),
         NEW cl \in Nat, ClId(c, range.addr) <= cl, cl <= LastCl(c, range)
  PROVE  LineApart(c, cl)
<1> DEFINE n == Cache[c].cl_size
           a == cl * n
<1>1. n \in Nat \ {0} /\ range.addr \in Nat /\ range.length \in Nat
  BY CacheType DEF AddrRange
<1>2. a \in Nat /\ ClId(c, a) = cl
  <2>1. a \in Nat
    BY <1>1, TimesIsNat
  <2> QED BY <2>1, LineEnd DEF LineRange
<1>3. ClId(c, range.addr) \in Nat
  BY ClIdType
<1>4. a <= range.addr + range.length - 1
  <2> DEFINE last == range.addr + range.length - 1
  <2>1. last \in Int
    BY <1>1
  <2>2. cl <= last \div n
    BY DEF LastCl, ClId
  <2> HIDE DEF last, n
  <2>3. cl * n <= last
    BY <1>1, <2>1, <2>2, LineStart
  <2> QED BY <2>3 DEF last
<1> HIDE DEF a
<1>5. CASE range.addr < a
  <2>1. a \in Bytes(range)
    BY <1>1, <1>2, <1>4, <1>5 DEF Bytes
  <2> QED BY <2>1 DEF Apart, LineApart, a
<1>6. CASE a <= range.addr
  <2>1. cl <= ClId(c, range.addr)
    BY <1>1, <1>2, <1>6, DivMonotone DEF ClId
  <2>2. ClId(c, range.addr) = ClId(c, a)
    BY <1>2, <1>3, <2>1
  <2>3. a \notin Zone
    BY <1>1, <1>2, <2>2 DEF Undivided, Apart
  <2> QED BY <2>3 DEF LineApart, a
<1> QED BY <1>1, <1>2, <1>5, <1>6

LEMMA ClipApart ==
  ASSUME NEW c \in Levels, NEW range \in AddrRange, Apart(range),
         NEW cl \in Nat, LineApart(c, cl)
  PROVE  Apart(ClipRange(c, cl, range))
<1> DEFINE n == Cache[c].cl_size
           a == cl * n
           start == Larger(a, range.addr)
           end == range.addr + range.length
           r == ClipRange(c, cl, range)
<1>1. n \in Nat \ {0} /\ range.addr \in Nat /\ range.length \in Nat
  BY CacheType DEF AddrRange
<1>2. a \in Nat /\ a \notin Zone
  BY <1>1, TimesIsNat DEF LineApart
<1>3. r = [addr |-> start, length |-> IF start + n < end THEN n ELSE end - start]
  BY DEF ClipRange
<1> HIDE DEF a, n, r
<1>4. start \in Nat /\ range.addr <= start /\ start \in {a, range.addr}
  BY <1>1, <1>2 DEF Larger
<1>5. start \notin Zone
  BY <1>2, <1>4 DEF Apart
<1> HIDE DEF start
<1>6. Bytes(r) \subseteq Bytes(range)
  <2> SUFFICES ASSUME NEW b \in Bytes(r) PROVE b \in Bytes(range)
    OBVIOUS
  <2>1. r.addr = start /\ r.length \in Int /\ start + r.length <= end
    BY <1>1, <1>3, <1>4
  <2>2. b \in start .. start + r.length - 1
    BY <2>1 DEF Bytes
  <2> QED BY <1>1, <1>4, <2>1, <2>2 DEF Bytes
<1> QED BY <1>3, <1>5, <1>6 DEF Apart, r

(* Frames and what they call. *)

LEMMA CallApart ==
  ASSUME NEW c \in Levels, NEW range \in AddrRange, Apart(range), NEW nt
  PROVE  FrameApart(LoadCall(c, range)) /\ FrameApart(StoreCall(c, range, nt))
<1>1. ClId(c, range.addr) \in Nat
  BY ClIdType
<1> QED BY <1>1 DEF FrameApart, LoadCall, StoreCall

LEMMA PushApart ==
  ASSUME NEW st \in Seq(Frame), StackApart(st), NEW f \in Frame, FrameApart(f)
  PROVE  StackApart(Append(st, f)) /\ Append(st, f) \in Seq(Frame)
<1>1. /\ Append(st, f) \in Seq(Frame) /\ Len(Append(st, f)) = Len(st) + 1
      /\ \A i \in 1..Len(st) : Append(st, f)[i] = st[i]
      /\ Append(st, f)[Len(st) + 1] = f
  BY Pushed
<1>2. Len(st) \in Nat
  OBVIOUS
<1>3. \A i \in 1..Len(st) + 1 : i \in 1..Len(st) \/ i = Len(st) + 1
  BY <1>2
<1> QED BY <1>1, <1>3 DEF StackApart

LEMMA TopApart ==
  ASSUME TypeOK, stack # <<>>, StackApart(stack)
  PROVE  FrameApart(Top) /\ StackApart(Callers) /\ Callers \in Seq(Frame)
<1>1. /\ Len(stack) \in Nat \ {0} /\ Callers \in Seq(Frame) /\ Len(Callers) = Len(stack) - 1
      /\ \A i \in 1..Len(stack) - 1 : Callers[i] = stack[i]
      /\ Top = stack[Len(stack)]
  BY Split
<1>2. \A i \in 1..Len(stack) - 1 : i \in 1..Len(stack)
  BY <1>1
<1>3. Len(stack) \in 1..Len(stack)
  BY <1>1
<1> QED BY <1>1, <1>2, <1>3 DEF StackApart

LEMMA ContinueApart ==
  ASSUME TypeOK, stack # <<>>, StackApart(stack), NEW g \in Frame, FrameApart(g)
  PROVE  StackApart(Continue(g)) /\ Continue(g) \in Seq(Frame)
BY TopApart, PushApart DEF Continue

LEMMA ReturnedApart ==
  ASSUME NEW st \in Seq(Frame), StackApart(st), NEW loc
  PROVE  StackApart(Returned(st, loc))
<1>1. CASE st # <<>> /\ st[Len(st)].fn = "write"
  <2> DEFINE n == Len(st)
             r == [st EXCEPT ![n].loc = loc]
  <2>1. n \in Nat \ {0} /\ DOMAIN st = 1..n
    BY <1>1
  <2>2. Returned(st, loc) = r
    BY <1>1 DEF Returned
  <2>3. DOMAIN r = 1..n /\ Len(r) = n
    BY <2>1
  <2>4. r[n] = [st[n] EXCEPT !.loc = loc] /\ \A i \in 1..n : i # n => r[i] = st[i]
    BY <2>1
  <2>5. st[n] \in Frame /\ FrameApart(st[n])
    BY <2>1 DEF StackApart
  <2>6. /\ r[n].fn = st[n].fn /\ r[n].c = st[n].c
        /\ r[n].cl = st[n].cl /\ r[n].range = st[n].range
    BY <2>4, <2>5 DEF Frame
  <2> HIDE DEF r, n
  <2>7. FrameApart(r[n])
    BY <2>5, <2>6 DEF FrameApart
  <2>8. \A i \in 1..n : FrameApart(r[i])
    BY <2>4, <2>7 DEF StackApart, n
  <2> QED BY <2>2, <2>3, <2>8 DEF StackApart
<1>2. CASE ~(st # <<>> /\ st[Len(st)].fn = "write")
  BY <1>2 DEF Returned
<1> QED BY <1>1, <1>2

LEMMA PassDownApart ==
  ASSUME NEW c \in Levels, NEW range \in AddrRange, Apart(range), NEW nt \in BOOLEAN, NEW st,
         NEW callers \in Seq(Frame), StackApart(callers), PassDown(c, range, nt, st, callers)
  PROVE  StackApart(stack')
<1> DEFINE below == Cache[c].store_to
           f     == StoreCall(below, range, nt)
<1>1. CASE below = None
  BY <1>1 DEF PassDown
<1>2. CASE below # None
  <2>1. below \in Levels
    BY <1>2, LinksLeadDown
  <2>2. f \in Frame /\ FrameApart(f)
    BY <2>1, CallFrames, CallApart
  <2>3. stack' = Append(callers, f)
    BY <1>2 DEF PassDown
  <2> HIDE DEF f
  <2> QED BY <2>2, <2>3, PushApart
<1> QED BY <1>1, <1>2

LEMMA FetchApart ==
  ASSUME NEW source \in Levels \cup {None}, NEW range \in AddrRange, Apart(range), NEW st,
         NEW callers \in Seq(Frame), StackApart(callers), Fetch(source, range, st, callers)
  PROVE  StackApart(stack')
<1> DEFINE f == LoadCall(source, range)
<1>1. CASE source = None
  BY <1>1 DEF Fetch
<1>2. CASE source # None
  <2>1. f \in Frame /\ FrameApart(f)
    BY <1>2, CallFrames, CallApart
  <2>2. stack' = Append(callers, f)
    BY <1>2 DEF Fetch
  <2> HIDE DEF f
  <2> QED BY <2>1, <2>2, PushApart
<1> QED BY <1>1, <1>2

LEMMA QueueUpdateApart ==
  ASSUME PlacementOK, PlacementApart, NEW c \in Levels, NEW s \in Sets(c), NEW q,
         QueueApart(c, q), placement' = [placement EXCEPT ![c][s] = q]
  PROVE  PlacementApart'
<1> SUFFICES ASSUME NEW d \in Levels, NEW t \in Sets(d)
             PROVE  QueueApart(d, placement'[d][t])
  BY DEF PlacementApart, QueueApart, LineApart
<1>1. /\ placement = [x \in Levels |-> placement[x]]
      /\ placement[c] \in [Sets(c) -> [Ways(c) -> Entry]]
  BY DEF PlacementOK
<1>2. placement'[d][t] = IF d = c /\ t = s THEN q ELSE placement[d][t]
  BY <1>1
<1> QED BY <1>2 DEF PlacementApart

LEMMA DirtyBitApart ==
  ASSUME PlacementOK, PlacementApart, NEW c \in Levels, NEW s \in Sets(c), NEW w, NEW d,
         placement' = [placement EXCEPT ![c][s][w].dirty = d]
  PROVE  PlacementApart'
<1> DEFINE q == [placement[c][s] EXCEPT ![w].dirty = d]
<1>1. placement[c][s] \in [Ways(c) -> Entry] /\ QueueApart(c, placement[c][s])
  BY DEF PlacementOK, PlacementApart
<1>2. placement' = [placement EXCEPT ![c][s] = q]
  OBVIOUS
<1>3. QueueApart(c, q)
  <2> SUFFICES ASSUME NEW v \in Ways(c) PROVE q[v].invalid \/ LineApart(c, q[v].cl_id)
    BY DEF QueueApart
  <2>1. placement[c][s][v] \in Entry
    BY <1>1
  <2>2. q[v].invalid = placement[c][s][v].invalid /\ q[v].cl_id = placement[c][s][v].cl_id
    BY <1>1, <2>1 DEF Entry
  <2> HIDE DEF q
  <2> QED BY <1>1, <2>2 DEF QueueApart
<1> HIDE DEF q
<1> QED BY <1>2, <1>3, QueueUpdateApart

\* An injection of a line outside the zone: what it displaces was outside as well.
LEMMA InjectApart ==
  ASSUME TypeOK, Undivided(Zone), VictimsAlike, PlacementApart, NEW c \in Levels,
         NEW e \in Entry, LineApart(c, e.cl_id), NEW idx \in ReplaceIdx(c),
         NEW callers \in Seq(Frame), StackApart(callers), Inject(c, e, idx, callers)
  PROVE  PlacementApart' /\ StackApart(stack')
<1> DEFINE s     == SetId(c, e.cl_id)
           q     == placement[c][s]
           old   == ReplaceEntry(c, q, idx)
           new   == Injected(c, q, idx, e)
           below == Cache[c].victims_to
           f     == CreditFrame(c)
           g     == InjectCall(below, old)
<1>1. e.cl_id \in Nat /\ s \in Sets(c) /\ idx \in Ways(c)
  BY GeometryType, ReplaceIdxType DEF Entry
<1>2. q \in [Ways(c) -> Entry] /\ QueueApart(c, q)
  BY <1>1 DEF TypeOK, PlacementOK, PlacementApart
<1>3. old \in Entry
  <2> HIDE DEF q
  <2> QED BY <1>1, <1>2, ReplaceEntryType
<1>4. placement' = [placement EXCEPT ![c][s] = new]
  BY DEF Inject
<1>5. ~old.invalid => LineApart(c, old.cl_id)
  <2>1. \E w \in Ways(c) : old = q[w]
    <3>1. Cache[c].replacement_policy \in Policies
      BY CacheType
    <3>2. 0 \in Ways(c) /\ Cache[c].ways - 1 \in Ways(c)
      BY GeometryType
    <3> HIDE DEF q
    <3> QED BY <1>1, <3>1, <3>2 DEF ReplaceEntry, Policies
  <2> HIDE DEF q, old
  <2> QED BY <1>2, <2>1 DEF QueueApart
<1>6. \/ ~old.invalid /\ \E nt \in BOOLEAN :
           PassDown(c, LineRange(c, old.cl_id), nt,
                    Bump(stats, c, "EVICT", Cache[c].cl_size), callers)
      \/ ~old.invalid /\ below # None /\ stack' = Append(Append(callers, f), g)
      \/ stack' = callers
  <2>1. \A slot, after : NonTemporalEvict(c, slot, after) \in BOOLEAN
    BY CacheType DEF Configuration, NonTemporalEvict
  <2> QED BY <2>1 DEF Inject
<1>7. QueueApart(c, new)
  <2> HIDE DEF q, s
  <2> SUFFICES ASSUME NEW w \in Ways(c) PROVE new[w].invalid \/ LineApart(c, new[w].cl_id)
    BY DEF QueueApart
  <2>1. new[w] = e \/ \E v \in Ways(c) : new[w] = q[v]
    BY <1>2, InjectedEntries
  <2> HIDE DEF new
  <2> QED BY <1>2, <2>1 DEF QueueApart
<1> HIDE DEF old, s, q, new
<1>8. PlacementApart'
  BY <1>1, <1>4, <1>7, QueueUpdateApart DEF TypeOK
<1>9. CASE ~old.invalid /\ \E nt \in BOOLEAN :
             PassDown(c, LineRange(c, old.cl_id), nt,
                      Bump(stats, c, "EVICT", Cache[c].cl_size), callers)
  <2>1. LineRange(c, old.cl_id) \in AddrRange /\ Apart(LineRange(c, old.cl_id))
    BY <1>3, <1>5, <1>9, GeometryType, LineRangeApart DEF Entry
  <2> QED BY <1>8, <1>9, <2>1, PassDownApart
<1>10. CASE ~old.invalid /\ below # None /\ stack' = Append(Append(callers, f), g)
  <2>1. f \in Frame /\ g \in Frame
    BY <1>3, <1>10, VictimFrames
  <2>2. FrameApart(f)
    BY DEF CreditFrame, FrameApart
  <2>3. g.fn = "inject" /\ g.c = below /\ g.cl = old.cl_id
    BY DEF InjectCall
  <2>4. FrameApart(g)
    <3>1. LineApart(below, old.cl_id)
      BY <1>5, <1>10 DEF VictimsAlike, LineApart
    <3> HIDE DEF g
    <3> QED BY <2>3, <3>1 DEF FrameApart
  <2> HIDE DEF f, g
  <2>5. StackApart(Append(callers, f)) /\ Append(callers, f) \in Seq(Frame)
    BY <2>1, <2>2, PushApart
  <2> QED BY <1>8, <1>10, <2>1, <2>4, <2>5, PushApart
<1>11. CASE stack' = callers
  BY <1>8, <1>11
<1> QED BY <1>6, <1>9, <1>10, <1>11

(* The steps of the functions. *)

LEMMA LoadsApart ==
  ASSUME TypeOK, Undivided(Zone), VictimsAlike, Untouched, LoadStep
  PROVE  PlacementApart' /\ StackApart(stack')
<1>0. PlacementOK /\ PlacementApart /\ StackApart(stack)
  BY DEF TypeOK, Untouched
<1>1. stack # <<>> /\ Top \in Frame /\ Top.fn \in {"load", "fill"} /\ Top.c \in Levels
      /\ Top.cl \in Nat /\ Top.range \in AddrRange /\ FrameApart(Top)
      /\ Top.loc \in Nat \cup {-1}
  BY <1>0, TopType, TopApart DEF LoadStep, LoadHit, LoadMiss, LoadFill, LoadReturn
<1>2. /\ Apart(Top.range) /\ ClId(Top.c, Top.range.addr) <= Top.cl
      /\ ClId(Top.c, Top.range.addr) \in Nat
  BY <1>1, ClIdType DEF FrameApart
<1>3. CASE LoadHit
  <2> DEFINE c   == Top.c
             loc == Location(c, Top.cl)
             q   == placement[c][TopSet]
             r   == PushFront(q, loc, q[loc])
  <2>1. TopSet \in Sets(c) /\ loc \in Ways(c)
    BY <1>0, <1>1, <1>3, TopType, LocationType DEF LoadHit
  <2>2. PICK w \in Nat : stack' = Continue([Top EXCEPT !.cl = @ + 1, !.loc = w])
    <3>1. 0 \in Nat /\ Cache[Top.c].ways - 1 \in Nat
      BY <1>1, CacheType
    <3> QED BY <1>3, <3>1 DEF LoadHit
  <2> DEFINE g == [Top EXCEPT !.cl = @ + 1, !.loc = w]
  <2>3. /\ g \in Frame /\ g.fn = Top.fn /\ g.c = Top.c /\ g.cl = Top.cl + 1
        /\ g.range = Top.range /\ Top.fn = "load"
    <3>1. g \in Frame
      BY <1>1, FrameSteps
    <3> QED BY <1>1, <1>3, <3>1, FrameFields, TopType DEF LoadHit
  <2> HIDE DEF g
  <2>4. FrameApart(g)
    BY <1>1, <1>2, <2>3 DEF FrameApart
  <2>5. StackApart(stack')
    BY <1>0, <1>1, <2>2, <2>3, <2>4, ContinueApart DEF g
  <2>6. UNCHANGED placement \/ placement' = [placement EXCEPT ![c][TopSet] = r]
    BY <1>3 DEF LoadHit
  <2>7. CASE UNCHANGED placement
    BY <1>0, <2>5, <2>7 DEF PlacementApart, QueueApart, LineApart
  <2>8. CASE placement' = [placement EXCEPT ![c][TopSet] = r]
    <3>1. q \in [Ways(c) -> Entry] /\ QueueApart(c, q) /\ c \in Levels
      BY <1>0, <1>1, <2>1 DEF PlacementOK, PlacementApart
    <3> HIDE DEF c, q, loc
    <3>2. QueueApart(c, r)
      <4> SUFFICES ASSUME NEW v \in Ways(c) PROVE r[v].invalid \/ LineApart(c, r[v].cl_id)
        BY DEF QueueApart
      <4>1. \E u \in Ways(c) : r[v] = q[u]
        BY <2>1, <3>1, PushFrontEntries
      <4> HIDE DEF r
      <4> QED BY <3>1, <4>1 DEF QueueApart
    <3> HIDE DEF r
    <3>3. PlacementApart'
      BY <1>0, <2>1, <2>8, <3>1, <3>2, QueueUpdateApart
    <3> QED BY <2>5, <3>3
  <2> QED BY <2>6, <2>7, <2>8
<1>4. CASE LoadMiss
  <2> DEFINE g == [Top EXCEPT !.fn = "fill"]
             r == LineRange(Top.c, Top.cl)
  <2>1. PICK source \in {Cache[Top.c].load_from, Cache[Top.c].victims_to} : \E st :
          Fetch(source, r, st, Continue(g))
    BY <1>4 DEF LoadMiss
  <2>2. source \in Levels \cup {None} /\ r \in AddrRange
    BY <1>1, GeometryType, LinksLeadDown
  <2>3. LineApart(Top.c, Top.cl)
    BY <1>1, <1>2, <1>4, RangeLineApart DEF LoadMiss
  <2>4. Apart(r)
    BY <1>1, <2>3, LineRangeApart
  <2>5. /\ g \in Frame /\ g.fn = "fill" /\ g.c = Top.c /\ g.cl = Top.cl
        /\ g.range = Top.range
    BY <1>1, FrameSteps, FrameFields
  <2> HIDE DEF g, r
  <2>6. FrameApart(g)
    BY <1>2, <2>3, <2>5 DEF FrameApart
  <2>7. StackApart(Continue(g)) /\ Continue(g) \in Seq(Frame)
    BY <1>0, <1>1, <2>5, <2>6, ContinueApart
  <2>8. StackApart(stack')
    BY <2>1, <2>2, <2>4, <2>7, FetchApart
  <2>9. placement' = placement
    BY <1>4 DEF LoadMiss
  <2> QED BY <1>0, <2>8, <2>9 DEF PlacementApart, QueueApart, LineApart
<1>5. CASE LoadFill
  <2> DEFINE e == [cl_id |-> Top.cl, dirty |-> FALSE, invalid |-> FALSE]
  <2>1. PICK idx \in ReplaceIdx(Top.c) :
          Inject(Top.c, e, idx, Continue([Top EXCEPT !.fn = "load", !.cl = @ + 1, !.loc = idx]))
    BY <1>5 DEF LoadFill
  <2> DEFINE g == [Top EXCEPT !.fn = "load", !.cl = @ + 1, !.loc = idx]
  <2>2. e \in Entry /\ e.cl_id = Top.cl
    BY <1>1 DEF Entry
  <2>3. idx \in Nat
    BY <1>1, ReplaceIdxType, GeometryType
  <2>4. /\ g \in Frame /\ g.fn = "load" /\ g.c = Top.c /\ g.cl = Top.cl + 1
        /\ g.range = Top.range
    <3>1. g \in Frame
      BY <1>1, <2>3, FrameSteps
    <3> QED BY <1>1, <3>1, FrameFields
  <2>5. LineApart(Top.c, Top.cl)
    BY <1>1, <1>5, TopType DEF FrameApart, LoadFill
  <2>6. Inject(Top.c, e, idx, Continue(g))
    BY <2>1
  <2> HIDE DEF g, e
  <2>7. FrameApart(g)
    BY <1>1, <1>2, <2>4 DEF FrameApart
  <2>8. StackApart(Continue(g)) /\ Continue(g) \in Seq(Frame)
    BY <1>0, <1>1, <2>4, <2>7, ContinueApart
  <2> QED BY <1>0, <1>1, <2>2, <2>5, <2>6, <2>8, InjectApart
<1>6. CASE LoadReturn
  <2>1. stack' = Returned(Callers, Top.loc) /\ placement' = placement
    BY <1>6 DEF LoadReturn
  <2>2. StackApart(stack')
    BY <1>0, <1>1, <2>1, TopApart, ReturnedApart
  <2> QED BY <1>0, <2>1, <2>2 DEF PlacementApart, QueueApart, LineApart
<1> QED BY <1>3, <1>4, <1>5, <1>6 DEF LoadStep

LEMMA StoresApart ==
  ASSUME TypeOK, Undivided(Zone), VictimsAlike, Untouched, StoreStep
  PROVE  PlacementApart' /\ StackApart(stack')
<1>0. PlacementOK /\ PlacementApart /\ StackApart(stack)
  BY DEF TypeOK, Untouched
<1>1. /\ stack # <<>> /\ Top \in Frame /\ Top.fn \in {"store", "write"} /\ Top.c \in Levels
      /\ Top.cl \in Nat /\ Top.range \in AddrRange /\ FrameApart(Top) /\ Top.nt \in BOOLEAN
      /\ FrameOK(Top)
  BY <1>0, TopType, TopApart DEF StoreStep, StoreAllocate, StoreInject, StoreLookup,
     StoreDirty, StoreForward, StoreReturn, Storing
<1>2. /\ Apart(Top.range) /\ ClId(Top.c, Top.range.addr) <= Top.cl
      /\ ClId(Top.c, Top.range.addr) \in Nat
  BY <1>1, ClIdType DEF FrameApart
<1>3. Storing => LineApart(Top.c, Top.cl)
  BY <1>1, <1>2, RangeLineApart DEF Storing
<1>4. ASSUME Storing, NEW w \in Nat \cup {-1}
      PROVE  LET g == [Top EXCEPT !.fn = "write", !.loc = w]
             IN  StackApart(Continue(g)) /\ Continue(g) \in Seq(Frame)
  <2> DEFINE g == [Top EXCEPT !.fn = "write", !.loc = w]
  <2>1. /\ g \in Frame /\ g.fn = "write" /\ g.c = Top.c /\ g.cl = Top.cl
        /\ g.range = Top.range
    BY <1>1, <1>4, WriteFrame
  <2> HIDE DEF g
  <2>2. FrameApart(g)
    BY <1>2, <1>3, <1>4, <2>1 DEF FrameApart
  <2>3. StackApart(Continue(g)) /\ Continue(g) \in Seq(Frame)
    BY <1>0, <1>1, <2>1, <2>2, ContinueApart
  <2> QED BY <2>3 DEF g
<1>5. StackApart(Continue(NextLine)) /\ Continue(NextLine) \in Seq(Frame)
  <2>1. /\ NextLine \in Frame /\ NextLine.fn = "store" /\ NextLine.c = Top.c
        /\ NextLine.cl = Top.cl + 1 /\ NextLine.range = Top.range
    BY <1>1, NextLineFrame
  <2>2. FrameApart(NextLine)
    BY <1>1, <1>2, <2>1 DEF FrameApart
  <2> QED BY <1>0, <1>1, <2>1, <2>2, ContinueApart
<1>6. UNCHANGED placement => PlacementApart'
  BY <1>0 DEF PlacementApart, QueueApart, LineApart
<1>7. CASE StoreAllocate
  <2> DEFINE g == [Top EXCEPT !.fn = "write"]
             r == LineRange(Top.c, Top.cl)
             h == LoadCall(Top.c, r)
  <2>1. Storing /\ stack' = Append(Continue(g), h) /\ placement' = placement
    BY <1>7 DEF StoreAllocate
  <2>2. r \in AddrRange /\ Apart(r)
    BY <1>1, <1>3, <2>1, GeometryType, LineRangeApart
  <2>3. /\ g \in Frame /\ g.fn = "write" /\ g.c = Top.c /\ g.cl = Top.cl
        /\ g.range = Top.range
    BY <1>1, FrameSteps, FrameFields
  <2> HIDE DEF g, r
  <2>4. h \in Frame /\ FrameApart(h)
    BY <1>1, <2>2, CallFrames, CallApart
  <2>5. FrameApart(g)
    BY <1>2, <1>3, <2>1, <2>3 DEF FrameApart
  <2> HIDE DEF h
  <2>6. StackApart(Continue(g)) /\ Continue(g) \in Seq(Frame)
    BY <1>0, <1>1, <2>3, <2>5, ContinueApart
  <2> QED BY <1>6, <2>1, <2>4, <2>6, PushApart
<1>8. CASE StoreInject
  <2> DEFINE e == [cl_id |-> Top.cl, dirty |-> TRUE, invalid |-> FALSE]
  <2>1. PICK idx \in ReplaceIdx(Top.c) :
          Inject(Top.c, e, idx, Continue([Top EXCEPT !.fn = "write", !.loc = idx]))
    BY <1>8 DEF StoreInject
  <2>2. e \in Entry /\ e.cl_id = Top.cl /\ Storing
    BY <1>1, <1>8 DEF Entry, StoreInject
  <2>3. idx \in Nat
    BY <1>1, ReplaceIdxType, GeometryType
  <2> DEFINE st == Continue([Top EXCEPT !.fn = "write", !.loc = idx])
  <2>4. StackApart(st) /\ st \in Seq(Frame)
    BY <1>4, <2>2, <2>3
  <2>5. Inject(Top.c, e, idx, st)
    BY <2>1
  <2> HIDE DEF e, st
  <2> QED BY <1>0, <1>1, <1>3, <2>2, <2>4, <2>5, InjectApart
<1>9. CASE StoreLookup
  <2>1. Location(Top.c, Top.cl) \in Nat \cup {-1}
    <3>1. Location(Top.c, Top.cl) \in Ways(Top.c) \cup {-1}
      BY <1>0, <1>1, LocationType
    <3> QED BY <1>1, <3>1, GeometryType
  <2>2. /\ Storing /\ placement' = placement
        /\ stack' = Continue([Top EXCEPT !.fn = "write", !.loc = Location(Top.c, Top.cl)])
    BY <1>9 DEF StoreLookup
  <2> QED BY <1>4, <1>6, <2>1, <2>2
<1>10. CASE StoreDirty
  <2>1. /\ stack' = Continue(NextLine) /\ TopSet \in Sets(Top.c)
        /\ placement' = [placement EXCEPT ![Top.c][TopSet][Top.loc].dirty = TRUE]
    BY <1>10, TopType DEF StoreDirty
  <2> QED BY <1>0, <1>1, <1>5, <2>1, DirtyBitApart
<1>11. CASE StoreForward
  <2> DEFINE range == ClipRange(Top.c, Top.cl, Top.range)
  <2>1. /\ Top.cl <= LastCl(Top.c, Top.range) /\ LineApart(Top.c, Top.cl)
        /\ placement' = placement
    BY <1>1, <1>11, TopType DEF StoreForward, FrameOK, FrameApart
  <2>2. range \in AddrRange /\ Apart(range)
    BY <1>1, <1>2, <2>1, ClipType, ClipApart
  <2>3. PICK st : PassDown(Top.c, range, Top.nt, st, Continue(NextLine))
    BY <1>11 DEF StoreForward
  <2> HIDE DEF range
  <2> QED BY <1>1, <1>5, <1>6, <2>1, <2>2, <2>3, PassDownApart
<1>12. CASE StoreReturn
  <2>1. stack' = Callers /\ placement' = placement
    BY <1>12 DEF StoreReturn
  <2> QED BY <1>0, <1>1, <1>6, <2>1, TopApart
<1> QED BY <1>7, <1>8, <1>9, <1>10, <1>11, <1>12 DEF StoreStep

LEMMA VictimsApart ==
  ASSUME TypeOK, Undivided(Zone), VictimsAlike, Untouched, VictimStep
  PROVE  PlacementApart' /\ StackApart(stack')
<1>0. PlacementApart /\ StackApart(stack)
  BY DEF Untouched
<1>1. /\ stack # <<>> /\ Top.c \in Levels /\ Top.cl \in Nat /\ Top.dirty \in BOOLEAN
      /\ FrameApart(Top) /\ StackApart(Callers) /\ Callers \in Seq(Frame)
  BY <1>0, TopType, TopApart DEF VictimStep, InjectVictim, CreditVictim
<1>2. CASE InjectVictim
  <2> DEFINE e == [cl_id |-> Top.cl, dirty |-> Top.dirty, invalid |-> FALSE]
  <2>1. e \in Entry /\ e.cl_id = Top.cl
    BY <1>1 DEF Entry
  <2>2. PICK idx \in ReplaceIdx(Top.c) : Inject(Top.c, e, idx, Callers)
    BY <1>2 DEF InjectVictim
  <2>3. LineApart(Top.c, Top.cl)
    BY <1>1, <1>2 DEF InjectVictim, Running, FrameApart
  <2> HIDE DEF e
  <2> QED BY <1>0, <1>1, <2>1, <2>2, <2>3, InjectApart
<1>3. CASE CreditVictim
  BY <1>0, <1>1, <1>3 DEF CreditVictim, PlacementApart, QueueApart, LineApart
<1> QED BY <1>2, <1>3 DEF VictimStep

LEMMA FlushesApart ==
  ASSUME TypeOK, Undivided(Zone), Untouched, FlushStep
  PROVE  PlacementApart' /\ StackApart(stack')
<1>0. PlacementOK /\ PlacementApart /\ StackApart(stack)
  BY DEF TypeOK, Untouched
<1>1. /\ stack # <<>> /\ Top \in Frame /\ Top.fn \in {"flush", "clean"} /\ Top.c \in Levels
      /\ FrameOK(Top) /\ StackApart(Callers)
  BY <1>0, TopType, TopApart DEF FlushStep, FlushSlot, FlushClean, FlushReturn
<1>2. FlushSlot \/ FlushClean => StackApart(Continue(NextSlot(Top)))
  <2> SUFFICES ASSUME FlushSlot \/ FlushClean PROVE StackApart(Continue(NextSlot(Top)))
    OBVIOUS
  <2>1. NextSlot(Top) \in Frame /\ NextSlot(Top).fn = "flush"
    BY NextSlotFrame DEF FlushSlot, FlushClean
  <2>2. FrameApart(NextSlot(Top))
    BY <2>1 DEF FrameApart
  <2> QED BY <1>0, <1>1, <2>1, <2>2, ContinueApart
<1>3. UNCHANGED placement => PlacementApart'
  BY <1>0 DEF PlacementApart, QueueApart, LineApart
<1>4. CASE FlushSlot
  <2> DEFINE g == [Top EXCEPT !.fn = "clean"]
             r == LineRange(Top.c, Slot.cl_id)
  <2>1. Top.loc \in Ways(Top.c) /\ Top.cl \in Sets(Top.c)
    BY <1>1, <1>4 DEF FlushSlot, FrameOK
  <2>2. Slot \in Entry /\ (Slot.invalid \/ LineApart(Top.c, Slot.cl_id))
    BY <1>0, <1>1, <2>1 DEF Slot, PlacementOK, PlacementApart, QueueApart
  <2>3. \/ ~Slot.invalid /\ \E nt \in BOOLEAN : \E st : PassDown(Top.c, r, nt, st, Continue(g))
        \/ stack' = Continue(NextSlot(Top))
    <3>1. \A slot : NonTemporalFlush(Top.c, slot) \in BOOLEAN
      BY <1>1, CacheType DEF Configuration, NonTemporalFlush
    <3> QED BY <1>4, <3>1 DEF FlushSlot
  <2>4. placement' = placement
    BY <1>4 DEF FlushSlot
  <2>5. CASE ~Slot.invalid /\ \E nt \in BOOLEAN : \E st : PassDown(Top.c, r, nt, st, Continue(g))
    <3>1. r \in AddrRange /\ Apart(r)
      BY <1>1, <2>2, <2>5, GeometryType, LineRangeApart DEF Entry
    <3>2. g \in Frame /\ g.fn = "clean"
      BY <1>1, FrameSteps, FrameFields
    <3> HIDE DEF g, r
    <3>3. FrameApart(g)
      BY <3>2 DEF FrameApart
    <3>4. StackApart(Continue(g)) /\ Continue(g) \in Seq(Frame)
      BY <1>0, <1>1, <3>2, <3>3, ContinueApart
    <3> QED BY <1>1, <1>3, <2>4, <2>5, <3>1, <3>4, PassDownApart
  <2> QED BY <1>2, <1>3, <1>4, <2>3, <2>4, <2>5
<1>5. CASE FlushClean
  <2>1. /\ stack' = Continue(NextSlot(Top)) /\ Top.cl \in Sets(Top.c)
        /\ placement' = [placement EXCEPT ![Top.c][Top.cl][Top.loc].dirty = FALSE]
    BY <1>1, <1>5 DEF FlushClean, Running, FrameOK
  <2> QED BY <1>0, <1>1, <1>2, <1>5, <2>1, DirtyBitApart
<1>6. CASE FlushReturn
  BY <1>1, <1>3, <1>6 DEF FlushReturn
<1> QED BY <1>4, <1>5, <1>6 DEF FlushStep

LEMMA WalksApart ==
  ASSUME TypeOK, Untouched, WalkStep \/ \E job \in Jobs : StartWalk(job)
  PROVE  Untouched'
<1>1. CASE VisitInvalidate
  <2> DEFINE c == Head(walk.pending)
  <2> SUFFICES ASSUME NEW d \in Levels, NEW t \in Sets(d)
               PROVE  QueueApart(d, placement'[d][t])
    BY <1>1 DEF Untouched, PlacementApart, QueueApart, LineApart, VisitInvalidate,
       StackApart, FrameApart, Apart
  <2>1. placement' = [placement EXCEPT ![c] =
          [s \in DOMAIN placement[c] |-> [w \in DOMAIN placement[c][s] |->
             [placement[c][s][w] EXCEPT !.invalid = TRUE]]]]
    BY <1>1 DEF VisitInvalidate
  <2>2. /\ placement = [x \in Levels |-> placement[x]]
        /\ placement[d] \in [Sets(d) -> [Ways(d) -> Entry]]
    BY DEF TypeOK, PlacementOK
  <2>3. CASE d = c
    <3>1. \A w \in Ways(d) :
            placement'[d][t][w] = [placement[d][t][w] EXCEPT !.invalid = TRUE]
      BY <2>1, <2>2, <2>3
    <3>2. \A w \in Ways(d) : placement[d][t][w] \in Entry
      BY <2>2
    <3>3. \A e \in Entry : [e EXCEPT !.invalid = TRUE].invalid
      BY DEF Entry
    <3> QED BY <3>1, <3>2, <3>3 DEF QueueApart
  <2>4. CASE d # c
    <3>1. placement'[d] = placement[d]
      BY <2>1, <2>2, <2>4
    <3> QED BY <3>1 DEF Untouched, PlacementApart
  <2> QED BY <2>3, <2>4
<1>2. CASE VisitFlush
  <2> DEFINE f == FlushCall(Head(walk.pending))
  <2>1. stack' = <<f>> /\ placement' = placement
    BY <1>2 DEF VisitFlush
  <2>2. FrameApart(f)
    BY DEF FlushCall, FrameApart
  <2> HIDE DEF f
  <2>3. StackApart(<<f>>)
    BY <2>2 DEF StackApart
  <2> QED BY <2>1, <2>3 DEF Untouched, PlacementApart, QueueApart, LineApart,
          StackApart, FrameApart, Apart
<1>3. CASE UNCHANGED <<placement, stack>>
  BY <1>3 DEF Untouched, PlacementApart, QueueApart, LineApart, StackApart, FrameApart, Apart
<1>4. VisitInvalidate \/ VisitFlush \/ UNCHANGED <<placement, stack>>
  BY DEF WalkStep, WalkOn, VisitReset, WalkEnd, StartWalk
<1> QED BY <1>1, <1>2, <1>3, <1>4

LEMMA AccessApart ==
  ASSUME TypeOK, Separates(Zone), Untouched, NEW range \in Ranges \ {Stray},
         Load(range) \/ Store(range)
  PROVE  Untouched'
<1>1. range \in AddrRange /\ Apart(range)
  BY HierarchyAssumption DEF Separates, Apart
<1>2. PICK f \in {LoadCall(FirstLevel, range), StoreCall(FirstLevel, range, FALSE)} :
        stack' = <<f>> /\ placement' = placement
  BY DEF Load, Store
<1>3. FrameApart(f)
  BY <1>1, FirstLevelType, CallApart
<1>4. StackApart(<<f>>)
  BY <1>3 DEF StackApart
<1> QED BY <1>2, <1>4 DEF Untouched, PlacementApart, QueueApart, LineApart,
        StackApart, FrameApart, Apart

LEMMA StepApart ==
  ASSUME TypeOK, Separates(Zone), VictimsAlike, Untouched, Step
  PROVE  Untouched'
<1>1. CASE WalkStep
  BY <1>1, WalksApart
<1>2. CASE ~WalkStep
  <2>1. PlacementApart' /\ StackApart(stack')
    BY <1>2, LoadsApart, StoresApart, VictimsApart, FlushesApart DEF Step, Separates
  <2> QED BY <2>1 DEF Untouched, StackApart, FrameApart, Apart, LineApart
<1> QED BY <1>1, <1>2

\* Only an element that could not be converted reaches the zone, and it leaves an
\* exception behind.
ZoneInv == failed \/ trouble \/ Untouched

LEMMA ZoneInvNext ==
  ASSUME RequestsTypeOK, TypeOK, Separates(Zone), VictimsAlike, ZoneInv,
         [RequestsNext]_<<vars, requestVars>>
  PROVE  ZoneInv'
<1>1. ItemsOK
  BY DEF RequestsTypeOK, ItemsOK
<1>2. SUFFICES ASSUME ~failed', ~trouble' PROVE Untouched'
  BY DEF ZoneInv
<1>3. CASE UNCHANGED vars
  <2>1. ~Raise
    BY <1>2 DEF Raise
  <2>2. NextLoad \/ NextStore \/ LoadsDone \/ StoresDone \/ UNCHANGED <<failed, trouble>>
    BY <2>1 DEF RequestsNext, RequestStep, Request, NextItem, Return, requestVars
  <2>3. ~failed /\ ~trouble
    <3>1. NextLoad \/ NextStore \/ StoresDone => (failed => failed') /\ UNCHANGED trouble
      BY Zenon DEF NextLoad, NextStore, StoresDone
    <3>2. LoadsDone => (failed => failed') /\ UNCHANGED trouble
      BY <2>1, Zenon DEF LoadsDone
    <3>3. (failed => failed') /\ UNCHANGED trouble
      BY <2>2, <3>1, <3>2
    <3>4. trouble \in BOOLEAN /\ failed \in BOOLEAN
      BY DEF RequestsTypeOK
    <3> QED BY <1>2, <3>3, <3>4
  <2> QED BY <1>3, <2>3 DEF ZoneInv, vars, Untouched, PlacementApart, QueueApart, LineApart,
          StackApart, FrameApart, Apart
<1>4. CASE NextLoad
  <2> DEFINE range == Head(Current.loads)
  <2>1. range \in Ranges /\ Load(range) /\ failed' = (failed \/ range = Stray)
        /\ trouble' = trouble
    BY <1>1, <1>4, TakeLoad DEF NextLoad, At, ItemsOK
  <2>2. Untouched /\ range # Stray
    BY <1>2, <2>1 DEF ZoneInv
  <2> HIDE DEF range
  <2> QED BY <2>1, <2>2, AccessApart
<1>5. CASE NextStore
  <2> DEFINE range == Head(Current.stores)
  <2>1. range \in Ranges /\ Store(range) /\ failed' = (failed \/ range = Stray)
        /\ trouble' = trouble
    BY <1>1, <1>5, TakeStore DEF NextStore, At, ItemsOK
  <2>2. Untouched /\ range # Stray
    BY <1>2, <2>1 DEF ZoneInv
  <2> HIDE DEF range
  <2> QED BY <2>1, <2>2, AccessApart
<1>6. CASE Step /\ UNCHANGED requestVars
  BY <1>2, <1>6, StepApart DEF ZoneInv, requestVars
<1>7. CASE \E job \in Jobs : StartWalk(job) /\ UNCHANGED requestVars
  BY <1>2, <1>7, WalksApart DEF ZoneInv, requestVars
<1> QED
  BY <1>3, <1>4, <1>5, <1>6, <1>7 DEF RequestsNext, RequestStep, Request, NextItem, LoadsDone,
     StoresDone, Return

LEMMA UntouchedInit ==
  ASSUME Init PROVE Untouched
<1>1. PlacementApart
  BY DEF Init, PlacementApart, QueueApart
<1>2. StackApart(stack)
  BY DEF Init, StackApart
<1> QED BY <1>1, <1>2 DEF Untouched

LEMMA NoLineOfZone ==
  ASSUME TypeOK, Separates(Zone), Untouched, NEW c \in Levels
  PROVE  Location(c, ClId(c, Stray.addr)) = -1
<1> DEFINE cl == ClId(c, Stray.addr)
           a  == cl * Cache[c].cl_size
<1> SUFFICES ASSUME Location(c, cl) # -1 PROVE FALSE
  OBVIOUS
<1>1. Stray \in AddrRange /\ Stray.addr \in Nat /\ Stray.addr \in Zone
  BY HierarchyAssumption, RequestsAssumption DEF AddrRange, Separates
<1>2. cl \in Nat /\ a \in Nat /\ SetId(c, cl) \in Sets(c)
  BY <1>1, InItsLine, GeometryType
<1>3. ClId(c, a) = cl
  BY <1>2, LineEnd DEF LineRange
<1>4. a \in Zone
  BY <1>1, <1>2, <1>3 DEF Separates, Undivided
<1> HIDE DEF cl
<1>5. LineApart(c, cl)
  <2>1. PlacementOK
    BY DEF TypeOK
  <2>2. /\ Location(c, cl) \in Ways(c)
        /\ Holds(placement[c][SetId(c, cl)][Location(c, cl)], cl)
    BY <1>2, <2>1, LocationHolds
  <2> QED BY <1>2, <2>2 DEF Untouched, PlacementApart, QueueApart, Holds
<1> QED BY <1>4, <1>5 DEF LineApart

\* As long as no request has raised an exception, no cache has a line of the address
\* that stands for what could not be converted (backend.c:601, 651, 716,
\* 747: the loops go on with -1): whatever levels hand to each other of other
\* accesses, in lines of their own sizes, stays apart from it.
THEOREM StrayLeavesError ==
  StrayApart /\ VictimsAlike => (RequestsSpec => []StrayOnlyAfterError)
<1> SUFFICES ASSUME StrayApart, VictimsAlike PROVE RequestsSpec => []StrayOnlyAfterError
  OBVIOUS
<1>1. Separates(Zone)
  BY ZoneSeparates
<1>2. RequestsInit => ZoneInv
  BY UntouchedInit DEF RequestsInit, ZoneInv
<1>3. /\ RequestsTypeOK /\ TypeOK /\ ZoneInv /\ [RequestsNext]_<<vars, requestVars>>
      => ZoneInv'
  BY <1>1, ZoneInvNext
<1>4. TypeOK /\ ZoneInv => StrayOnlyAfterError
  BY <1>1, NoLineOfZone DEF ZoneInv, StrayOnlyAfterError
<1> QED BY <1>2, <1>3, <1>4, RequestsTyped, RequestsSafe, PTL DEF RequestsSpec
=============================================================================
