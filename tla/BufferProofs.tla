------------------------------ MODULE BufferProofs ------------------------------
(***************************************************************************)
(* Every hierarchy whose MRU caches write through is a write buffer: the   *)
(* dirty lines of its caches and the stores under way lose bytes to main   *)
(* memory only.                                                            *)
(***************************************************************************)
EXTENDS WriteProofs

(* Lines are in the set their number gives. *)

InItsSet(c, s, q) == \A w \in Ways(c) : ~q[w].invalid => SetId(c, q[w].cl_id) = s

InSets(p) == \A c \in Levels : \A s \in Sets(c) : InItsSet(c, s, p[c][s])

LEMMA QueueInSets ==
  ASSUME PlacementOK, InSets(placement), NEW c \in Levels, NEW s \in Sets(c), NEW q,
         InItsSet(c, s, q), placement' = [placement EXCEPT ![c][s] = q]
  PROVE  InSets(placement')
<1> SUFFICES ASSUME NEW d \in Levels, NEW t \in Sets(d)
             PROVE  InItsSet(d, t, placement'[d][t])
  BY DEF InSets
<1>1. placement \in [Levels -> {placement[x] : x \in Levels}]
  BY DEF PlacementOK
<1>2. placement[d] \in [Sets(d) -> [Ways(d) -> Entry]]
  BY DEF PlacementOK
<1>3. CASE d = c /\ t = s
  BY <1>1, <1>2, <1>3
<1>4. CASE ~(d = c /\ t = s)
  <2>1. placement'[d][t] = placement[d][t]
    BY <1>1, <1>2, <1>4
  <2> QED BY <2>1 DEF InSets
<1> QED BY <1>3, <1>4

LEMMA DirtyBitInSets ==
  ASSUME PlacementOK, InSets(placement), NEW c \in Levels, NEW s \in Sets(c), NEW w, NEW d,
         placement' = [placement EXCEPT ![c][s][w].dirty = d]
  PROVE  InSets(placement')
<1> DEFINE q == placement[c][s]
           r == [q EXCEPT ![w].dirty = d]
<1>1. q \in [Ways(c) -> Entry] /\ InItsSet(c, s, q)
  BY DEF PlacementOK, InSets
<1>2. ASSUME NEW v \in Ways(c)
      PROVE  r[v].invalid = q[v].invalid /\ r[v].cl_id = q[v].cl_id
  BY <1>1 DEF Entry
<1>3. placement' = [placement EXCEPT ![c][s] = r]
  OBVIOUS
<1> HIDE DEF q, r
<1>4. InItsSet(c, s, r)
  BY <1>1, <1>2 DEF InItsSet
<1> QED BY <1>3, <1>4, QueueInSets

LEMMA InjectInSets ==
  ASSUME PlacementOK, InSets(placement), NEW c \in Levels, NEW e \in Entry,
         NEW idx \in ReplaceIdx(c), NEW callers, Inject(c, e, idx, callers)
  PROVE  InSets(placement')
<1> DEFINE s == SetId(c, e.cl_id)
           q == placement[c][s]
           r == Injected(c, q, idx, e)
<1>1. s \in Sets(c)
  BY GeometryType DEF Entry
<1>2. q \in [Ways(c) -> Entry] /\ InItsSet(c, s, q)
  BY <1>1 DEF PlacementOK, InSets
<1>3. placement' = [placement EXCEPT ![c][s] = r]
  BY DEF Inject
<1>4. \A w \in Ways(c) : r[w] = e \/ \E v \in Ways(c) : r[w] = q[v]
  <2> HIDE DEF q
  <2> QED BY <1>2, InjectedEntries
<1>5. SetId(c, e.cl_id) = s
  OBVIOUS
<1> HIDE DEF s, q, r
<1>6. InItsSet(c, s, r)
  BY <1>2, <1>4, <1>5 DEF InItsSet
<1> QED BY <1>1, <1>3, <1>6, QueueInSets

LEMMA RunningInSets ==
  ASSUME TypeOK, InSets(placement), RunningStep
  PROVE  InSets(placement')
<1>0. PlacementOK
  BY DEF TypeOK
<1>1. CASE UNCHANGED placement
  BY <1>1
<1>2. CASE LoadHit
  <2> DEFINE c == Top.c
             k == Location(c, Top.cl)
             s == TopSet
             q == placement[c][s]
             r == PushFront(q, k, q[k])
  <2>1. c \in Levels /\ Top.cl \in Nat /\ s \in Sets(c)
    BY <1>2, TopType DEF LoadHit
  <2>2. k \in Ways(c)
    BY <1>0, <1>2, <2>1, LocationType DEF LoadHit
  <2>3. q \in [Ways(c) -> Entry] /\ InItsSet(c, s, q)
    BY <1>0, <2>1 DEF PlacementOK, InSets
  <2>4. UNCHANGED placement \/ placement' = [placement EXCEPT ![c][s] = r]
    BY <1>2 DEF LoadHit
  <2>5. \A w \in Ways(c) : \E v \in Ways(c) : r[w] = q[v]
    <3> HIDE DEF q, k
    <3> QED BY <2>1, <2>2, <2>3, PushFrontEntries
  <2> HIDE DEF c, k, q, r, s
  <2>6. InItsSet(c, s, r)
    BY <2>3, <2>5 DEF InItsSet
  <2>7. CASE placement' = [placement EXCEPT ![c][s] = r]
    BY <1>0, <2>1, <2>6, <2>7, QueueInSets
  <2> QED BY <1>1, <2>4, <2>7
<1>3. CASE LoadFill \/ StoreInject \/ InjectVictim
  <2>1. Top.c \in Levels /\ Top.cl \in Nat /\ Top.dirty \in BOOLEAN
    BY <1>3, TopType DEF LoadFill, StoreInject, Storing, InjectVictim
  <2>2. \A d \in BOOLEAN : [cl_id |-> Top.cl, dirty |-> d, invalid |-> FALSE] \in Entry
    BY <2>1 DEF Entry
  <2>3. \E d \in BOOLEAN : \E idx \in ReplaceIdx(Top.c) : \E callers :
          Inject(Top.c, [cl_id |-> Top.cl, dirty |-> d, invalid |-> FALSE], idx, callers)
    BY <1>3, <2>1 DEF LoadFill, StoreInject, InjectVictim
  <2> QED BY <1>0, <2>1, <2>2, <2>3, InjectInSets
<1>4. CASE StoreDirty
  <2>1. Top.c \in Levels /\ TopSet \in Sets(Top.c)
    BY <1>4, TopType DEF StoreDirty
  <2>2. placement' = [placement EXCEPT ![Top.c][TopSet][Top.loc].dirty = TRUE]
    BY <1>4 DEF StoreDirty
  <2> QED BY <1>0, <2>1, <2>2, DirtyBitInSets
<1>5. CASE FlushClean
  <2>1. Top.c \in Levels /\ Top.cl \in Sets(Top.c)
    BY <1>5, TopType DEF FlushClean, FrameOK
  <2>2. placement' = [placement EXCEPT ![Top.c][Top.cl][Top.loc].dirty = FALSE]
    BY <1>5 DEF FlushClean
  <2> QED BY <1>0, <2>1, <2>2, DirtyBitInSets
<1>6. CASE \/ LoadMiss \/ LoadReturn \/ StoreAllocate \/ StoreLookup \/ StoreForward
           \/ StoreReturn \/ CreditVictim \/ FlushSlot \/ FlushReturn
  BY <1>1, <1>6 DEF LoadMiss, LoadReturn, StoreAllocate, StoreLookup, StoreForward,
     StoreReturn, CreditVictim, FlushSlot, FlushReturn
<1> QED BY <1>2, <1>3, <1>4, <1>5, <1>6
        DEF RunningStep, LoadStep, StoreStep, VictimStep, FlushStep

\* mark_all_invalid keeps a line that was valid in no slot of the cache it visits.
LEMMA Invalidated ==
  ASSUME TypeOK, VisitInvalidate, NEW d \in Levels, NEW t \in Sets(d)
  PROVE  placement'[d][t] = placement[d][t] \/ \A w \in Ways(d) : placement'[d][t][w].invalid
<1> DEFINE c == Head(walk.pending)
<1>1. placement' = [placement EXCEPT ![c] =
        [s \in DOMAIN placement[c] |-> [w \in DOMAIN placement[c][s] |->
           [placement[c][s][w] EXCEPT !.invalid = TRUE]]]]
  BY DEF VisitInvalidate
<1>2. /\ placement = [x \in Levels |-> placement[x]]
      /\ placement[d] \in [Sets(d) -> [Ways(d) -> Entry]]
  BY DEF TypeOK, PlacementOK
<1>3. CASE d = c
  <2>1. \A w \in Ways(d) : placement'[d][t][w] = [placement[d][t][w] EXCEPT !.invalid = TRUE]
    BY <1>1, <1>2, <1>3
  <2>2. \A w \in Ways(d) : placement[d][t][w] \in Entry
    BY <1>2
  <2>3. \A e \in Entry : [e EXCEPT !.invalid = TRUE].invalid
    BY DEF Entry
  <2>4. \A w \in Ways(d) : placement'[d][t][w].invalid
    BY <2>1, <2>2, <2>3
  <2> QED BY <2>4
<1>4. CASE d # c
  <2>1. placement'[d] = placement[d]
    BY <1>1, <1>2, <1>4
  <2> QED BY <2>1
<1> QED BY <1>3, <1>4

LEMMA StaysInSets == Spec => []InSets(placement)
<1>1. Init => InSets(placement)
  <2> SUFFICES ASSUME Init PROVE InSets(placement)
    OBVIOUS
  <2>1. \A c \in Levels : \A s \in Sets(c) : \A w \in Ways(c) : placement[c][s][w].invalid
    BY DEF Init
  <2> QED BY <2>1 DEF InSets, InItsSet
<1>2. TypeOK /\ InSets(placement) /\ [Next]_vars => InSets(placement')
  <2> SUFFICES ASSUME TypeOK, InSets(placement), [Next]_vars PROVE InSets(placement')
    OBVIOUS
  <2>1. CASE RunningStep
    BY <2>1, RunningInSets
  <2>2. CASE VisitInvalidate
    BY <2>2, Invalidated DEF InSets, InItsSet
  <2>3. CASE (Call \/ WalkStep) /\ ~VisitInvalidate
    BY <2>3, IdleSteps
  <2>4. CASE UNCHANGED vars
    BY <2>4 DEF vars
  <2> QED BY <2>1, <2>2, <2>3, <2>4 DEF Next, Step, RunningStep
<1>3. InSets(placement') <=> InSets(placement)'
  BY DEF InSets, InItsSet
<1> QED BY <1>1, <1>2, <1>3, TypeCorrect, PTL DEF Spec

(* The contents of the buffer. *)

DirtyOf(p, st, c) ==
  UNION {{b \in Bytes(LineRange(c, p[c][s][w].cl_id)) :
            /\ p[c][s][w].dirty /\ ~p[c][s][w].invalid
            /\ ~Given(st, c, s, w)} : s \in Sets(c), w \in Ways(c)}

HeldBy(p, st) ==
  UNION ({DirtyOf(p, st, c) : c \in Levels} \cup {InFlight(st[i]) : i \in 1..Len(st)})

\* The bytes of a line are those whose number is the line's.
LEMMA BytesOfLine ==
  ASSUME NEW c \in Levels, NEW cl \in Nat, NEW b \in Bytes(LineRange(c, cl))
  PROVE  b \in Nat /\ ClId(c, b) = cl
<1>1. LineRange(c, cl) \in AddrRange
  BY GeometryType
<1>2. cl <= ClId(c, b) /\ ClId(c, b) <= cl /\ b \in Nat
  BY <1>1, RangeLines, LineEnd
<1>3. ClId(c, b) \in Nat
  BY <1>2, InItsLine
<1> QED BY <1>2, <1>3

\* The buffer holds the bytes that are covered.
LEMMA HeldIsCovered ==
  ASSUME NEW p, InSets(p), \A c \in Levels : p[c] \in [Sets(c) -> [Ways(c) -> Entry]],
         NEW st \in Seq(Frame), NEW b
  PROVE  b \in HeldBy(p, st) <=> b \in Nat /\ Covered(p, st, b)
<1>1. ASSUME b \in HeldBy(p, st) PROVE b \in Nat /\ Covered(p, st, b)
  <2>1. CASE \E i \in 1..Len(st) : b \in InFlight(st[i])
    <3>1. PICK i \in 1..Len(st) : b \in InFlight(st[i])
      BY <2>1
    <3>2. st[i] \in Frame
      OBVIOUS
    <3>3. st[i].range \in AddrRange /\ b \in Bytes(st[i].range)
      BY <3>1, <3>2 DEF InFlight, Frame
    <3>4. b \in Nat
      BY <3>2, <3>3, FrameLevel, RangeLines
    <3> QED BY <2>1, <3>4 DEF Covered, Carried
  <2>2. CASE \E c \in Levels : b \in DirtyOf(p, st, c)
    <3>0. PICK c \in Levels : b \in DirtyOf(p, st, c)
      BY <2>2
    <3>1. PICK s \in Sets(c), w \in Ways(c) :
            /\ b \in Bytes(LineRange(c, p[c][s][w].cl_id))
            /\ p[c][s][w].dirty /\ ~p[c][s][w].invalid /\ ~Given(st, c, s, w)
      BY <3>0 DEF DirtyOf
    <3> DEFINE e == p[c][s][w]
    <3>2. e \in Entry
      OBVIOUS
    <3>3. e.cl_id \in Nat
      BY <3>2 DEF Entry
    <3>4. b \in Nat /\ ClId(c, b) = e.cl_id
      BY <3>1, <3>3, BytesOfLine
    <3>5. SetId(c, e.cl_id) = s
      BY <3>1 DEF InSets, InItsSet
    <3>6. Keeps(p, st, c, b)
      BY <3>1, <3>4, <3>5 DEF Keeps, DirtyAt, Holds
    <3> QED BY <3>4, <3>6 DEF Covered
  <2>3. \/ \E i \in 1..Len(st) : b \in InFlight(st[i])
        \/ \E c \in Levels : b \in DirtyOf(p, st, c)
    BY <1>1 DEF HeldBy
  <2> QED BY <2>1, <2>2, <2>3
<1>2. ASSUME b \in Nat, Covered(p, st, b) PROVE b \in HeldBy(p, st)
  <2>1. CASE Carried(st, b)
    BY <2>1 DEF Carried, HeldBy
  <2>2. CASE \E c \in Levels : Keeps(p, st, c, b)
    <3>1. PICK c \in Levels : Keeps(p, st, c, b)
      BY <2>2
    <3> DEFINE s == SetId(c, ClId(c, b))
    <3>2. PICK w \in Ways(c) : DirtyAt(p, c, b, w) /\ ~Given(st, c, s, w)
      BY <3>1 DEF Keeps
    <3>3. s \in Sets(c) /\ b \in Bytes(LineRange(c, ClId(c, b)))
      BY <1>2, InItsLine, GeometryType
    <3>4. /\ b \in Bytes(LineRange(c, p[c][s][w].cl_id))
          /\ p[c][s][w].dirty /\ ~p[c][s][w].invalid
      BY <3>2, <3>3 DEF DirtyAt, Holds
    <3> HIDE DEF s
    <3>5. b \in DirtyOf(p, st, c)
      BY <3>2, <3>3, <3>4 DEF DirtyOf
    <3> QED BY <3>5 DEF HeldBy
  <2> QED BY <1>2, <2>1, <2>2 DEF Covered
<1> QED BY <1>1, <1>2

(* The steps. *)

Held     == HeldBy(placement, stack)
Received == memory["stores"].count

\* What memory receives, it is no longer owed, and it receives nothing else.
LEMMA PassDownReceives ==
  ASSUME TypeOK, NEW c, NEW range, NEW nt, NEW st, NEW callers,
         PassDown(c, range, nt, st, callers)
  PROVE  \/ UNCHANGED <<owed, Received>>
         \/ Received' = Received + 1 /\ owed' \subseteq owed
BY DEF PassDown, Accessed, Received, TypeOK, AccessTable, Counter

LEMMA StepReceives ==
  ASSUME TypeOK, RunningStep
  PROVE  \/ UNCHANGED <<owed, Received>>
         \/ Received' = Received + 1 /\ owed' \subseteq owed
<1>1. ASSUME NEW c, NEW e, NEW idx, NEW callers, Inject(c, e, idx, callers)
      PROVE  \/ UNCHANGED <<owed, Received>>
             \/ Received' = Received + 1 /\ owed' \subseteq owed
  <2>1. \/ UNCHANGED <<owed, memory>>
        \/ \E range, nt, st : PassDown(c, range, nt, st, callers)
    BY <1>1 DEF Inject
  <2>2. CASE UNCHANGED <<owed, memory>>
    BY <2>2 DEF Received
  <2> QED BY <2>1, <2>2, PassDownReceives
<1>2. CASE LoadFill \/ StoreInject \/ InjectVictim
  <2>1. \E c, e, idx, callers : Inject(c, e, idx, callers)
    BY <1>2 DEF LoadFill, StoreInject, InjectVictim
  <2> QED BY <1>1, <2>1
<1>3. CASE StoreForward \/ FlushSlot
  <2>1. \/ UNCHANGED <<owed, memory>>
        \/ \E c, range, nt, st, callers : PassDown(c, range, nt, st, callers)
    BY <1>3 DEF StoreForward, FlushSlot
  <2>2. CASE UNCHANGED <<owed, memory>>
    BY <2>2 DEF Received
  <2> QED BY <2>1, <2>2, PassDownReceives
<1>4. CASE LoadMiss
  <2>1. UNCHANGED owed /\ \E range : memory' = memory \/ memory' = Accessed("loads", range)
    BY <1>4 DEF LoadMiss, Fetch
  <2>2. \A range : Accessed("loads", range)["stores"] = memory["stores"]
    BY DEF Accessed, TypeOK, AccessTable
  <2> QED BY <2>1, <2>2 DEF Received
<1>5. CASE \/ LoadHit \/ LoadReturn \/ StoreAllocate \/ StoreLookup \/ StoreDirty
           \/ StoreReturn \/ CreditVictim \/ FlushClean \/ FlushReturn
  <2>1. UNCHANGED <<owed, memory>>
    BY <1>5 DEF LoadHit, LoadReturn, StoreAllocate, StoreLookup, StoreDirty,
       StoreReturn, CreditVictim, FlushClean, FlushReturn
  <2> QED BY <2>1 DEF Received
<1> QED BY <1>2, <1>3, <1>4, <1>5
        DEF RunningStep, LoadStep, StoreStep, VictimStep, FlushStep

\* A step of the buffer.
BufferStep ==
  \/ /\ owed \subseteq owed' /\ owed' \subseteq owed \cup Held'
     /\ Held \subseteq Held' /\ UNCHANGED Received
  \/ /\ Received' = Received + 1 /\ owed' \subseteq owed
     /\ (Held \ Held') \cap owed' = {}
  \/ owed' = {} /\ UNCHANGED <<Held, Received>>
  \/ owed = {} /\ Held' \subseteq Held /\ UNCHANGED <<owed, Received>>
  \/ Received' = 0 /\ UNCHANGED <<owed, Held>>

LEMMA HeldNow ==
  ASSUME TypeOK, InSets(placement)
  PROVE  \A b : b \in Held <=> b \in Nat /\ Covered(placement, stack, b)
<1>1. \A c \in Levels : placement[c] \in [Sets(c) -> [Ways(c) -> Entry]]
  BY DEF TypeOK, PlacementOK
<1>2. stack \in Seq(Frame)
  BY DEF TypeOK, FramesOK
<1> QED BY <1>1, <1>2, HeldIsCovered DEF Held

LEMMA HeldNext ==
  ASSUME TypeOK', InSets(placement')
  PROVE  \A b : b \in Held' <=> b \in Nat /\ Covered(placement', stack', b)
<1>1. \A c \in Levels : placement'[c] \in [Sets(c) -> [Ways(c) -> Entry]]
  BY DEF TypeOK, PlacementOK
<1>2. stack' \in Seq(Frame)
  BY DEF TypeOK, FramesOK
<1>3. Held' = HeldBy(placement', stack')
  BY DEF Held, HeldBy, DirtyOf, Given, InFlight
<1> QED BY <1>1, <1>2, <1>3, HeldIsCovered

LEMMA RunningBuffers ==
  ASSUME MRUWritesThrough, TypeOK, TypeOK', StackInv, Tidy, InSets(placement),
         InSets(placement'), RunningStep
  PROVE  BufferStep
<1>1. ASSUME NEW b \in Held, Stays(b) PROVE b \in Held'
  <2>1. b \in Nat /\ Covered(placement, stack, b)
    BY HeldNow
  <2>2. Covered(placement', stack', b)
    BY <1>1, <2>1, LoadCovers, StoreCovers, VictimCovers, FlushCovers DEF RunningStep
  <2> QED BY <2>1, <2>2, HeldNext
<1>2. CASE UNCHANGED <<owed, Received>>
  <2>1. \A b : Stays(b)
    BY <1>2 DEF Stays, Received
  <2>2. Held \subseteq Held'
    BY <1>1, <2>1
  <2> QED BY <1>2, <2>2 DEF BufferStep
<1>3. CASE Received' = Received + 1 /\ owed' \subseteq owed
  <2>1. \A b \in owed' : Stays(b)
    BY DEF Stays
  <2>2. (Held \ Held') \cap owed' = {}
    BY <1>1, <2>1
  <2> QED BY <1>3, <2>2 DEF BufferStep
<1> QED BY <1>2, <1>3, StepReceives

LEMMA IdleBuffers ==
  ASSUME TypeOK, TypeOK', Forgotten, InSets(placement), InSets(placement'),
         Call \/ WalkStep
  PROVE  BufferStep
<1>1. ASSUME UNCHANGED placement PROVE Held \subseteq Held'
  <2> SUFFICES ASSUME NEW b \in Held PROVE b \in Held'
    OBVIOUS
  <2>1. b \in Nat /\ Covered(placement, stack, b)
    BY HeldNow
  <2>2. Covered(placement', stack', b)
    BY <1>1, <2>1, IdleSteps, IdleKeeps
  <2> QED BY <2>1, <2>2, HeldNext
<1>2. ASSUME UNCHANGED <<placement, stack>> PROVE UNCHANGED Held
  BY <1>2 DEF Held, HeldBy, DirtyOf, Given, InFlight
<1>3. ASSUME UNCHANGED <<placement, owed, memory>> PROVE BufferStep
  BY <1>1, <1>3 DEF BufferStep, Received
<1>4. ASSUME NEW range \in Ranges, Store(range) PROVE BufferStep
  <2>1. owed' = owed \cup Bytes(range) /\ UNCHANGED <<placement, memory>>
    BY <1>4 DEF Store
  <2>2. ASSUME NEW b \in Bytes(range) PROVE b \in Held'
    <3>1. Covered(placement', stack', b)
      BY <1>4, StoreEnters DEF Covered
    <3>2. b \in Nat
      BY <2>1 DEF TypeOK
    <3> QED BY <3>1, <3>2, HeldNext
  <2> QED BY <1>1, <2>1, <2>2 DEF BufferStep, Received
<1>5. ASSUME NEW job \in Jobs, StartWalk(job) PROVE BufferStep
  <2>1. (owed' = {} \/ owed' = owed) /\ UNCHANGED <<placement, stack, memory>>
    BY <1>5 DEF StartWalk
  <2> QED BY <1>2, <1>3, <2>1 DEF BufferStep, Received
<1>6. CASE VisitInvalidate
  <2>1. owed = {} /\ UNCHANGED <<stack, memory, owed>>
    BY <1>6 DEF VisitInvalidate, Visiting, Forgotten
  <2>2. Held' \subseteq Held
    <3> SUFFICES ASSUME NEW b \in Held' PROVE b \in Held
      OBVIOUS
    <3>1. b \in Nat /\ Covered(placement', stack, b)
      BY <2>1, HeldNext
    <3>2. ASSUME NEW c \in Levels, Keeps(placement', stack, c, b)
          PROVE  Keeps(placement, stack, c, b)
      <4> DEFINE s == SetId(c, ClId(c, b))
      <4>1. s \in Sets(c)
        BY <3>1, InItsLine, GeometryType
      <4>2. PICK w \in Ways(c) : DirtyAt(placement', c, b, w) /\ ~Given(stack, c, s, w)
        BY <3>2 DEF Keeps
      <4>3. placement'[c][s] = placement[c][s]
        BY <1>6, <4>1, <4>2, Invalidated DEF DirtyAt, Holds
      <4>4. DirtyAt(placement, c, b, w)
        BY <4>2, <4>3 DEF DirtyAt
      <4> QED BY <4>2, <4>4 DEF Keeps
    <3>3. Covered(placement, stack, b)
      BY <3>1, <3>2 DEF Covered
    <3> QED BY <3>1, <3>3, HeldNow
  <2> QED BY <2>1, <2>2 DEF BufferStep, Received
<1>7. CASE WalkEnd
  <2>1. UNCHANGED <<placement, stack, owed>> /\ (memory' = memory \/ memory' = NoAccess)
    BY <1>7 DEF WalkEnd
  <2>2. CASE memory' = NoAccess
    <3>1. Received' = 0
      BY <2>2 DEF Received, NoAccess
    <3> QED BY <1>2, <2>1, <3>1 DEF BufferStep
  <2>3. CASE memory' = memory
    BY <1>3, <2>1, <2>3
  <2> QED BY <2>1, <2>2, <2>3
<1>8. CASE (\E range \in Ranges : Load(range)) \/ WalkOn \/ VisitFlush \/ VisitReset
  BY <1>3, <1>8 DEF Load, WalkOn, VisitFlush, VisitReset
<1> QED BY <1>4, <1>5, <1>6, <1>7, <1>8 DEF Call, WalkStep

LEMMA InitBuffers == Init => owed = {} /\ Held = {} /\ Received = 0
<1> SUFFICES ASSUME Init PROVE owed = {} /\ Held = {} /\ Received = 0
  OBVIOUS
<1>1. \A c \in Levels : \A s \in Sets(c) : \A w \in Ways(c) : placement[c][s][w].invalid
  BY DEF Init
<1>2. stack = <<>>
  BY DEF Init
<1>3. Held = {}
  <2>1. \A c \in Levels : DirtyOf(placement, stack, c) = {}
    BY <1>1 DEF DirtyOf
  <2>2. \A i \in 1..Len(stack) : FALSE
    BY <1>2
  <2> QED BY <2>1, <2>2 DEF Held, HeldBy
<1>4. owed = {} /\ Received = 0
  BY DEF Init, NoAccess, Received
<1> QED BY <1>3, <1>4

LEMMA HeldIsPending ==
  Held = UNION ({DirtyBytes(c) : c \in Levels} \cup {InFlight(stack[i]) : i \in 1..Len(stack)})
BY DEF Held, HeldBy, DirtyOf, DirtyBytes, Given, HandedDown

\* Where every MRU cache writes through, a hierarchy implements the write buffer,
\* whatever its levels: a load, a hit, a victim delivery, an allocation and a
\* store between levels lose none of the bytes that are dirty or on their way,
\* and a store to main memory loses only bytes memory has received.
THEOREM HierarchyBuffers == MRUWritesThrough => (Spec => ImplementsWriteBuffer)
<1> SUFFICES ASSUME MRUWritesThrough PROVE Spec => ImplementsWriteBuffer
  OBVIOUS
<1>1. Init => WB!Init
  BY InitBuffers, HeldIsPending DEF WB!Init, Received
<1>2. /\ TypeOK /\ StackInv /\ Tidy /\ Forgotten /\ InSets(placement) /\ [Next]_vars
      /\ TypeOK' /\ InSets(placement)'
      => BufferStep \/ UNCHANGED <<owed, Held, Received>>
  <2> SUFFICES ASSUME TypeOK, StackInv, Tidy, Forgotten, InSets(placement),
                      [Next]_vars, TypeOK', InSets(placement)'
               PROVE  BufferStep \/ UNCHANGED <<owed, Held, Received>>
    OBVIOUS
  <2>1. InSets(placement')
    BY DEF InSets, InItsSet
  <2>2. CASE RunningStep
    BY <2>1, <2>2, RunningBuffers
  <2>3. CASE Call \/ WalkStep
    BY <2>1, <2>3, IdleBuffers
  <2>4. CASE UNCHANGED vars
    <3>1. UNCHANGED <<placement, stack, owed, memory>>
      BY <2>4 DEF vars
    <3>2. UNCHANGED Held
      BY <3>1 DEF Held, HeldBy, DirtyOf, Given, InFlight
    <3> QED BY <3>1, <3>2 DEF Received
  <2> QED BY <2>2, <2>3, <2>4 DEF Next, Step, RunningStep
<1> DEFINE P == UNION ({DirtyBytes(c) : c \in Levels}
                         \cup {InFlight(stack[i]) : i \in 1..Len(stack)})
<1>3. BufferStep \/ UNCHANGED <<owed, Held, Received>>
        => [WB!Next]_<<owed, P, memory["stores"].count>>
  <2>1. Held = P /\ Received = memory["stores"].count
    BY HeldIsPending DEF Received
  <2>2. Held' = P' /\ Received' = memory'["stores"].count
    BY DEF Held, HeldBy, DirtyOf, DirtyBytes, Given, HandedDown, InFlight, Received
  <2>3. BufferStep => WB!Next
    BY <2>1, <2>2 DEF BufferStep, WB!Next, WB!Buffer, WB!Receive, WB!Discard,
       WB!Forget, WB!Reset
  <2> QED BY <2>1, <2>2, <2>3
<1> QED BY <1>1, <1>2, <1>3, TypeCorrect, FramesStaySound, StaysTidy, StaysForgotten,
           StaysInSets, PTL DEF Spec, ImplementsWriteBuffer, WB!Spec
=============================================================================
