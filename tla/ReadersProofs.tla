----------------------------- MODULE ReadersProofs -----------------------------
(***************************************************************************)
(* Both readers implement Wiring, for all files and dictionaries, and a    *)
(* description that both accept gives the same hierarchy.                  *)
(***************************************************************************)
EXTENDS Readers, FiniteSetTheorems, WellFoundedInduction, TLAPS

(* Counting lines, the last of several tokens, and the caches of a name. *)

LEMMA GreatestElement ==
  ASSUME NEW n \in Nat, NEW S \in SUBSET (1..n), S # {}
  PROVE  \E x \in S : \A y \in S : y <= x
<1> DEFINE T == {n - x : x \in S}
           R == {ss \in Nat \X Nat : ss[1] < ss[2]}
<1>1. T \subseteq Nat /\ T # {}
  <2>1. \A x \in S : n - x \in Nat
    OBVIOUS
  <2> QED
    BY <2>1
<1>2. IsWellFoundedOn(R, Nat)
  BY NatLessThanWellFounded DEF OpToRel
<1>3. PICK t \in T : \A u \in T : ~(<<u, t>> \in R)
  <2> HIDE DEF R, T
  <2> QED BY <1>1, <1>2, WFMin
<1>4. PICK x \in S : t = n - x
  OBVIOUS
<1>5. ASSUME NEW y \in S, x < y PROVE FALSE
  <2>1. n - y \in T /\ n - y \in Nat /\ n - x \in Nat /\ n - y < n - x
    BY <1>1, <1>5
  <2>2. <<n - y, n - x>> \in Nat \X Nat /\ <<n - y, n - x>>[1] < <<n - y, n - x>>[2]
    BY <2>1
  <2>3. <<n - y, n - x>> \in R
    BY <2>2
  <2> HIDE DEF R, T
  <2> QED
    BY <1>3, <1>4, <2>1, <2>3
<1> QED
  BY <1>4, <1>5

LEMMA WrittenSteps ==
  ASSUME NEW f, NEW n \in Nat
  PROVE  /\ Written(f, 0) = 0 /\ Written(f, n) \in Nat
         /\ Written(f, n + 1) = Written(f, n) + IF f.lines[n + 1] # <<>> THEN 1 ELSE 0
<1> DEFINE W1(m) == {p \in 1..m : f.lines[p] # <<>>}
<1>1. IsFiniteSet(W1(n)) /\ Cardinality(W1(n)) \in Nat
  <2>1. IsFiniteSet(1..n) /\ W1(n) \in SUBSET (1..n)
    BY FS_Interval
  <2> HIDE DEF W1
  <2> QED
    BY <2>1, FS_Subset, FS_CardinalityType
<1>2. Written(f, 0) = 0
  <2>1. W1(0) = {}
    OBVIOUS
  <2> QED
    BY <2>1, FS_EmptySet DEF Written
<1>3. Written(f, n) = Cardinality(W1(n)) /\ Written(f, n + 1) = Cardinality(W1(n + 1))
  BY DEF Written
<1>4. CASE f.lines[n + 1] # <<>>
  <2>1. W1(n + 1) = W1(n) \cup {n + 1} /\ n + 1 \notin W1(n)
    BY <1>4
  <2> HIDE DEF W1
  <2> QED
    BY <1>1, <1>2, <1>3, <1>4, <2>1, FS_AddElement
<1>5. CASE f.lines[n + 1] = <<>>
  <2>1. W1(n + 1) = W1(n)
    BY <1>5
  <2> HIDE DEF W1
  <2> QED
    BY <1>1, <1>2, <1>3, <1>5, <2>1
<1> QED
  BY <1>4, <1>5

LEMMA WrittenGrows ==
  ASSUME NEW f, NEW n \in Nat, NEW m \in 0..n
  PROVE  Written(f, m) <= Written(f, n)
<1> DEFINE W1(q) == {p \in 1..q : f.lines[p] # <<>>}
<1>1. IsFiniteSet(1..n) /\ W1(n) \in SUBSET (1..n) /\ W1(m) \in SUBSET W1(n)
  BY FS_Interval
<1>2. Written(f, m) = Cardinality(W1(m)) /\ Written(f, n) = Cardinality(W1(n))
  BY DEF Written
<1> HIDE DEF W1
<1>3. IsFiniteSet(W1(n))
  BY <1>1, FS_Subset
<1> QED
  BY <1>1, <1>2, <1>3, FS_Subset

\* The line that was counted as the i-th is the i-th.
LEMMA LineFound ==
  ASSUME NEW f \in File, NEW p \in DOMAIN f.lines, f.lines[p] # <<>>
  PROVE  LineOf(f, Written(f, p)) = f.lines[p]
<1>1. DOMAIN f.lines \subseteq Nat \ {0}
  BY DEF File
<1>2. ASSUME NEW q \in DOMAIN f.lines, NEW r \in DOMAIN f.lines, f.lines[r] # <<>>, q < r
      PROVE  Written(f, q) < Written(f, r)
  <2>1. r - 1 \in Nat /\ q \in 0..(r - 1) /\ (r - 1) + 1 = r /\ q \in Nat
    BY <1>1, <1>2
  <2>2. Written(f, q) <= Written(f, r - 1)
    BY <2>1, WrittenGrows
  <2>3. Written(f, r) = Written(f, r - 1) + 1 /\ Written(f, r - 1) \in Nat
    BY <1>2, <2>1, WrittenSteps
  <2>4. Written(f, q) \in Nat
    BY <2>1, WrittenSteps
  <2> QED
    BY <2>2, <2>3, <2>4
<1> DEFINE At(q) == q \in DOMAIN f.lines /\ f.lines[q] # <<>> /\ Written(f, q) = Written(f, p)
<1>3. \A q : At(q) => q = p
  <2> SUFFICES ASSUME NEW q, At(q), q # p PROVE FALSE
    OBVIOUS
  <2>1. q \in Nat /\ p \in Nat /\ Written(f, p) \in Nat
    BY <1>1, WrittenSteps
  <2>2. q < p \/ p < q
    BY <2>1
  <2>3. ~(Written(f, p) < Written(f, p))
    BY <2>1
  <2> QED
    BY <1>2, <2>2, <2>3
<1>4. (CHOOSE q \in DOMAIN f.lines : f.lines[q] # <<>> /\ Written(f, q) = Written(f, p)) = p
  BY <1>3
<1> QED
  BY <1>4 DEF LineOf

\* What the first n tokens of a line leave for a key.
LeftBy(l, n, k, v) ==
  \/ v = 0 /\ \A i \in 1..n : l[i].key # k
  \/ \E i \in 1..n : /\ l[i].key = k /\ l[i].value = v
                     /\ \A j \in 1..n : l[j].key = k => j <= i

LEMMA LeftIsGiven ==
  ASSUME NEW l \in Seq(Token), NEW k, NEW v, LeftBy(l, Len(l), k, v)
  PROVE  v = Given(l, k)
<1> DEFINE at == {i \in DOMAIN l : l[i].key = k}
<1>1. DOMAIN l = 1..Len(l) /\ Len(l) \in Nat
  OBVIOUS
<1>2. CASE at = {}
  BY <1>1, <1>2 DEF LeftBy, Given
<1>3. CASE at # {}
  <2>1. PICK i \in at : l[i].value = v /\ \A j \in at : j <= i
    BY <1>1, <1>3 DEF LeftBy
  <2>2. \A m \in at : (\A j \in at : j <= m) => m = i
    BY <1>1, <2>1
  <2>3. (CHOOSE m \in at : \A j \in at : j <= m) = i
    BY <2>1, <2>2
  <2> QED
    BY <1>3, <2>1, <2>3 DEF Given
<1> QED
  BY <1>2, <1>3

LEMMA LeftStep ==
  ASSUME NEW l, NEW n \in Nat, NEW k, NEW v, LeftBy(l, n, k, v)
  PROVE  LeftBy(l, n + 1, k, IF l[n + 1].key = k THEN l[n + 1].value ELSE v)
<1>1. CASE l[n + 1].key = k
  BY <1>1 DEF LeftBy
<1>2. CASE l[n + 1].key # k
  BY <1>2 DEF LeftBy
<1> QED
  BY <1>1, <1>2

LEMMA LinkedToNamed ==
  ASSUME NEW name, size \in Nat
  PROVE  IF Named(name) = {} THEN Linked(name) = 0 ELSE Linked(name) \in Named(name)
<1>1. Named(name) \in SUBSET (1..size)
  BY DEF Named
<1> QED
  BY <1>1, GreatestElement DEF Linked

-----------------------------------------------------------------------------
Enough(f) == f.size <= Written(f, Len(f.lines))

\* The values of the i-th cache, which EndOfLine has found sane.
Stored(i) ==
  /\ \A k \in Keys \ {"subblock_size"} : caches[i][k] = Values(file, i)[k]
  /\ Sane(Values(file, i))

\* The caches read so far come from the lines read so far; the last of them may
\* still be read.
Reading ==
  /\ pc = "size" => line = 0 /\ caches = <<>>
  /\ pc \in {"line", "token", "link", "returned"} => size >= 1 /\ Written(file, line) = Len(caches)
  /\ pc \in {"line", "link", "returned"} => \A i \in 1..Len(caches) : Stored(i)
  /\ pc \in {"size", "line"} => token = 0
  /\ pc = "token" =>
       /\ file.lines[line] # <<>>
       /\ \A i \in 1..(Len(caches) - 1) : Stored(i)
       /\ \A k \in Keys : LeftBy(Tokens, token, k, Current[k])

\* Key k of cache i is the name of cache j; a link leads to such a cache.
Names(i, k, j) == caches[i][k] # 0 /\ caches[j]["name"] = caches[i][k]
Right(i, k) ==
  IF \E j \in 1..size : Names(i, k, j)
  THEN links[i][k] \in 1..size /\ Names(i, k, links[i][k]) ELSE links[i][k] = 0

\* The caches linked so far, and which caches were counted meanwhile.
LinkingFile ==
  pc \in {"link", "returned"} =>
    /\ Len(caches) = size
    /\ Len(links) <= size /\ DOMAIN linkcounter = 1..size
    /\ \A i \in 1..Len(links) : \A k \in LinkKeys : Right(i, k)
    /\ \A j \in 1..size :
         linkcounter[j] = 0 <=> \A i \in 1..Len(links) : \A k \in LinkKeys : ~Names(i, k, j)

Unlinked == {j \in 1..size : linkcounter[j] = 0}

Result ==
  /\ pc # "undefined"
  /\ pc = "exit" => ~W!Acceptable(Described)
  /\ pc = "returned" =>
       Len(links) = size /\ Cardinality(Unlinked) = 1 /\ first_level \in Unlinked

\* The file does not announce more caches than it has; the reader would follow
\* pointers that nobody has set.
FileInv == TypeOK /\ Enough(file) /\ Reading /\ LinkingFile /\ Result

LEMMA FileShape ==
  ASSUME TypeOK
  PROVE  /\ file \in File /\ size \in Int /\ file.lines \in Seq(Seq(Token))
         /\ Len(file.lines) \in Nat /\ DOMAIN file.lines = 1..Len(file.lines)
         /\ line \in 0..Len(file.lines) /\ Len(caches) \in Nat
         /\ DOMAIN caches = 1..Len(caches)
         /\ \A i \in 1..Len(caches) : caches[i] \in [Keys -> Nat]
         /\ links \in Seq([LinkKeys -> 0..Len(caches)])
         /\ \A i \in DOMAIN file.lines : file.lines[i] \in Seq(Token)
         /\ token \in Nat
<1>1. file \in File /\ line \in 0..Len(file.lines) /\ caches \in Seq([Keys -> Nat])
      /\ links \in Seq([LinkKeys -> 0..Len(caches)])
  BY DEF TypeOK
<1>2. size \in Int /\ file.lines \in Seq(Seq(Token))
  BY <1>1 DEF File, size
<1>3. Len(file.lines) \in Nat /\ DOMAIN file.lines = 1..Len(file.lines)
      /\ \A i \in DOMAIN file.lines : file.lines[i] \in Seq(Token)
  BY <1>2
<1>4. Len(caches) \in Nat /\ DOMAIN caches = 1..Len(caches)
      /\ \A i \in 1..Len(caches) : caches[i] \in [Keys -> Nat]
  BY <1>1
<1>5. token \in Nat
  <2>1. CASE line = 0
    BY <2>1 DEF TypeOK
  <2>2. CASE line # 0
    <3>1. Tokens \in Seq(Token)
      <4>1. line \in DOMAIN file.lines
        BY <1>1, <1>3, <2>2
      <4> QED
        BY <1>3, <4>1 DEF Tokens
    <3> QED
      BY <2>2, <3>1 DEF TypeOK
  <2> QED
    BY <2>1, <2>2
<1> QED
  BY <1>1, <1>2, <1>3, <1>4, <1>5

LEMMA FileInitially == (\A f \in Files : Enough(f)) /\ Init => FileInv
<1> SUFFICES ASSUME \A f \in Files : Enough(f), Init PROVE FileInv
  OBVIOUS
<1>1. file \in File /\ Len(file.lines) \in Nat /\ Enough(file)
  BY FilesAssumption DEF Init, File
<1>2. pc = "size" /\ line = 0 /\ token = 0 /\ caches = <<>> /\ links = <<>> /\ linkcounter = <<>>
      /\ first_level = 0 /\ Len(caches) = 0
  BY DEF Init
<1>3. TypeOK
  BY <1>1, <1>2 DEF TypeOK, Final
<1>4. Reading /\ LinkingFile /\ Result
  BY <1>2 DEF Reading, LinkingFile, Result
<1> QED
  BY <1>1, <1>3, <1>4 DEF FileInv

LEMMA FileCounts ==
  ASSUME NEW S
  PROVE  W!Cardinality(S) = Cardinality(S)
  BY DEF Cardinality, W!Cardinality, IsFiniteSet, W!IsFiniteSet

\* What Wiring makes of the file.
LEMMA DescribedFile ==
  ASSUME size \in Int
  PROVE  /\ DOMAIN Described = {i \in 1..size : size >= 1}
         /\ \A i \in 1..size :
              /\ Described[i].name = Values(file, i)["name"]
              /\ Described[i].ok = Sane(Values(file, i))
              /\ \A k \in LinkKeys : Described[i][k] = Values(file, i)[k]
<1>1. DOMAIN Described = {i \in 1..size : size >= 1} /\ (size >= 1 => DOMAIN Described = 1..size)
  BY DEF Described
<1>2. ASSUME NEW i \in 1..size
      PROVE  /\ Described[i].name = Values(file, i)["name"]
             /\ Described[i].ok = Sane(Values(file, i))
             /\ \A k \in LinkKeys : Described[i][k] = Values(file, i)[k]
  <2> DEFINE ok == Sane(Values(file, i))
  <2>0. i \in 1..(IF size < 1 THEN 0 ELSE size)
    BY <1>2
  <2>1. Described[i] = [name |-> Values(file, i)["name"], ok |-> ok,
                        load_from |-> Values(file, i)["load_from"],
                        store_to |-> Values(file, i)["store_to"],
                        victims_to |-> Values(file, i)["victims_to"]]
    BY <2>0, Zenon DEF Described
  <2> HIDE DEF ok
  <2>2. /\ Described[i].name = Values(file, i)["name"] /\ Described[i].ok = ok
        /\ Described[i]["load_from"] = Values(file, i)["load_from"]
        /\ Described[i]["store_to"] = Values(file, i)["store_to"]
        /\ Described[i]["victims_to"] = Values(file, i)["victims_to"]
    BY <2>1
  <2>3. \A k \in LinkKeys : Described[i][k] = Values(file, i)[k]
    BY <2>2 DEF LinkKeys
  <2> QED
    BY <2>2, <2>3, Zenon DEF ok
<1> QED
  BY <1>1, <1>2, Zenon

LEMMA InsaneRejects ==
  ASSUME size \in Int, NEW i \in 1..size, ~Sane(Values(file, i))
  PROVE  ~W!Acceptable(Described)
  BY DescribedFile DEF W!Acceptable

LEMMA NoneRejects ==
  ASSUME size \in Int, size < 1
  PROVE  ~W!Acceptable(Described)
<1>1. DOMAIN Described = {}
  BY DEF Described
<1>2. W!Roots(Described) = {}
  BY <1>1 DEF W!Roots
<1> QED
  BY <1>2, FileCounts, FS_EmptySet DEF W!Acceptable

LEMMA StoredStays ==
  ASSUME NEW i, Stored(i), file' = file, caches'[i] = caches[i]
  PROVE  Stored(i)'
  BY DEF Stored

LEMMA ReadSizeKeeps == FileInv /\ ReadSize => FileInv'
<1> SUFFICES ASSUME FileInv, ReadSize PROVE FileInv'
  OBVIOUS
<1>1. TypeOK /\ pc = "size" /\ line = 0 /\ caches = <<>> /\ token = 0 /\ size \in Int
  BY FileShape DEF FileInv, Reading, ReadSize
<1>2. UNCHANGED <<file, line, token, caches, links, linkcounter, first_level, size>>
      /\ Described' = Described /\ Len(caches) = 0
  BY <1>1 DEF ReadSize, size, Described
<1>3. CASE size < 1
  <2>1. pc' = "exit"
    BY <1>3 DEF ReadSize
  <2>2. ~W!Acceptable(Described)
    BY <1>1, <1>3, NoneRejects
  <2>3. TypeOK' /\ Reading' /\ LinkingFile' /\ Result'
    BY <1>1, <1>2, <2>1, <2>2 DEF TypeOK, Final, Reading, LinkingFile, Result, Tokens
  <2> QED
    BY <1>2, <2>3 DEF FileInv
<1>4. CASE size >= 1
  <2>1. pc' = "line"
    BY <1>1, <1>4 DEF ReadSize
  <2>2. Written(file, line) = Len(caches)
    BY <1>1, <1>2, WrittenSteps
  <2>3. TypeOK'
    BY <1>1, <1>2, <1>4, <2>1 DEF TypeOK, Final, Tokens
  <2>4. Reading' /\ LinkingFile' /\ Result'
    BY <1>1, <1>2, <1>4, <2>1, <2>2 DEF Reading, LinkingFile, Result
  <2> QED
    BY <1>2, <2>3, <2>4 DEF FileInv
<1> QED
  BY <1>1, <1>3, <1>4

LEMMA ReadLineKeeps == FileInv /\ ReadLine => FileInv'
<1> SUFFICES ASSUME FileInv, ReadLine PROVE FileInv'
  OBVIOUS
<1>1. /\ UNCHANGED <<file, token, links, linkcounter, first_level, size>>
      /\ line' = line + 1 /\ line < Len(file.lines) /\ Len(caches) # size /\ pc = "line"
  BY DEF ReadLine, size
<1>2. /\ TypeOK /\ size \in Int /\ size >= 1 /\ token = 0 /\ Written(file, line) = Len(caches)
      /\ line \in Nat /\ Len(caches) \in Nat /\ Len(caches) < size
      /\ \A i \in 1..Len(caches) : Stored(i)
  BY <1>1, FileShape DEF FileInv, Reading, TypeOK, Final
<1>3. Written(file, line + 1) = Len(caches) + (IF file.lines[line + 1] # <<>> THEN 1 ELSE 0)
  BY <1>2, WrittenSteps
<1>4. line + 1 \in 0..Len(file.lines) /\ line + 1 \in DOMAIN file.lines
      /\ file.lines[line + 1] \in Seq(Token)
  BY <1>1, <1>2, FileShape
<1>5. CASE file.lines[line + 1] = <<>>
  <2>1. pc' = pc /\ caches' = caches
    BY <1>5 DEF ReadLine
  <2>2. TypeOK'
    BY <1>1, <1>2, <1>4, <2>1 DEF TypeOK, Tokens
  <2>3. Reading' /\ LinkingFile' /\ Result'
    BY <1>1, <1>2, <1>3, <1>5, <2>1, StoredStays DEF Reading, LinkingFile, Result
  <2> QED
    BY <1>1, <2>2, <2>3 DEF FileInv
<1>6. CASE file.lines[line + 1] # <<>>
  <2>1. pc' = "token" /\ caches' = Append(caches, Zeroed)
    BY <1>6 DEF ReadLine
  <2>2. Zeroed \in [Keys -> Nat] /\ \A k \in Keys : Zeroed[k] = 0
    BY DEF Zeroed
  <2>3. caches \in Seq([Keys -> Nat])
    BY <1>2 DEF TypeOK
  <2>4. /\ caches' \in Seq([Keys -> Nat]) /\ Len(caches') = Len(caches) + 1
        /\ caches'[Len(caches) + 1] = Zeroed
        /\ \A i \in 1..Len(caches) : caches'[i] = caches[i]
    BY <2>1, <2>2, <2>3
  <2>5. TypeOK'
    <3>1. first_level' \in 0..Len(caches') /\ links' \in Seq([LinkKeys -> 0..Len(caches')])
      <4>1. 0..Len(caches) \subseteq 0..Len(caches')
        BY <1>2, <2>4
      <4>2. links \in Seq([LinkKeys -> 0..Len(caches)]) /\ first_level \in 0..Len(caches)
        BY <1>2 DEF TypeOK
      <4>3. [LinkKeys -> 0..Len(caches)] \subseteq [LinkKeys -> 0..Len(caches')]
        BY <4>1
      <4> QED
        BY <1>1, <4>1, <4>2, <4>3
    <3>2. token' \in 0..(IF line' = 0 THEN 0 ELSE Len(Tokens'))
      BY <1>1, <1>2, <1>4 DEF Tokens
    <3>3. caches' # <<>> /\ line' > 0
      BY <1>1, <1>2, <2>4
    <3> QED
      BY <1>1, <1>2, <1>4, <2>1, <2>4, <3>1, <3>2, <3>3 DEF TypeOK
  <2>6. Reading'
    <3>1. \A i \in 1..Len(caches) : Stored(i)'
      BY <1>1, <1>2, <2>4, StoredStays
    <3>2. \A k \in Keys : LeftBy(Tokens', 0, k, Current'[k])
      BY <2>2, <2>4 DEF LeftBy, Current
    <3> QED
      BY <1>1, <1>2, <1>3, <1>6, <2>1, <2>4, <3>1, <3>2 DEF Reading
  <2>7. LinkingFile' /\ Result'
    BY <2>1 DEF LinkingFile, Result
  <2> QED
    BY <1>1, <2>5, <2>6, <2>7 DEF FileInv
<1> QED
  BY <1>5, <1>6

LEMMA EndOfFileKeeps == FileInv /\ EndOfFile => FileInv'
<1> SUFFICES ASSUME FileInv, EndOfFile PROVE FileInv'
  OBVIOUS
<1>1. /\ UNCHANGED <<file, line, token, caches, first_level, size>>
      /\ (line = Len(file.lines) \/ Len(caches) = size) /\ pc = "line"
  BY DEF EndOfFile, size
<1>2. /\ TypeOK /\ size \in Int /\ size >= 1 /\ Written(file, line) = Len(caches)
      /\ Len(caches) \in Nat /\ Len(caches) <= size /\ token = 0
      /\ \A i \in 1..Len(caches) : Stored(i)
  BY <1>1, FileShape DEF FileInv, Reading, TypeOK, Final
<1>3. Len(caches) = size
  <2>1. CASE line = Len(file.lines)
    <3>1. size <= Len(caches)
      BY <1>2, <2>1 DEF FileInv, Enough, size
    <3> QED
      BY <1>2, <3>1
  <2> QED
    BY <1>1, <2>1
<1>4. pc' = "link" /\ links' = <<>> /\ linkcounter' = [j \in 1..size |-> 0]
  BY <1>2, <1>3 DEF EndOfFile
<1>5. TypeOK'
  <2>1. linkcounter' \in Seq(Nat)
    BY <1>2, <1>4
  <2> QED
    BY <1>1, <1>2, <1>3, <1>4, <2>1 DEF TypeOK, Tokens
<1>6. Reading'
  BY <1>1, <1>2, <1>4, StoredStays DEF Reading
<1>7. LinkingFile' /\ Result'
  BY <1>1, <1>2, <1>3, <1>4 DEF LinkingFile, Result
<1> QED
  BY <1>1, <1>5, <1>6, <1>7 DEF FileInv

LEMMA ReadTokenKeeps == FileInv /\ ReadToken => FileInv'
<1> SUFFICES ASSUME FileInv, ReadToken PROVE FileInv'
  OBVIOUS
<1> DEFINE t == Tokens[token + 1]
           n == Len(caches)
<1>1. /\ UNCHANGED <<pc, file, line, links, linkcounter, first_level, size>>
      /\ pc = "token" /\ token < Len(Tokens) /\ t.value # NoValue /\ token' = token + 1
      /\ caches' = IF t.key \in Keys THEN [caches EXCEPT ![n][t.key] = t.value] ELSE caches
  BY DEF ReadToken, size
<1>2. /\ TypeOK /\ size \in Int /\ n \in Nat /\ line > 0 /\ n # 0 /\ token \in Nat
      /\ size >= 1 /\ Written(file, line) = n
      /\ file.lines[line] # <<>>
      /\ \A i \in 1..(n - 1) : Stored(i)
      /\ \A k \in Keys : LeftBy(Tokens, token, k, Current[k])
      /\ caches \in Seq([Keys -> Nat])
  BY <1>1, FileShape DEF FileInv, Reading, TypeOK
<1>3. Tokens \in Seq(Token) /\ Tokens' = Tokens /\ Len(Tokens) \in Nat
  <2>1. line \in DOMAIN file.lines
    BY <1>2, FileShape
  <2>2. Tokens \in Seq(Token)
    BY <1>2, <2>1, FileShape DEF Tokens
  <2> QED
    BY <1>1, <2>2 DEF Tokens
<1>4. t \in Token
  BY <1>1, <1>2, <1>3
<1>5. t.value \in Nat
  BY <1>1, <1>4, FilesAssumption DEF Token, NoValue
<1>6. /\ caches' \in Seq([Keys -> Nat]) /\ Len(caches') = n
      /\ \A i \in 1..n : \A k \in Keys :
           caches'[i][k] = IF i = n /\ k = t.key THEN t.value ELSE caches[i][k]
      /\ \A i \in 1..(n - 1) : caches'[i] = caches[i]
  <2>1. CASE t.key \in Keys
    <3>1. caches[n] \in [Keys -> Nat]
      BY <1>2
    <3>2. [caches[n] EXCEPT ![t.key] = t.value] \in [Keys -> Nat]
      BY <1>5, <3>1
    <3>3. caches' = [caches EXCEPT ![n] = [caches[n] EXCEPT ![t.key] = t.value]]
      BY <1>1, <2>1
    <3>4. \A k \in Keys : [caches[n] EXCEPT ![t.key] = t.value][k] =
                            IF k = t.key THEN t.value ELSE caches[n][k]
      BY <3>1
    <3>5. ASSUME NEW f \in [Keys -> Nat]
          PROVE  /\ [caches EXCEPT ![n] = f] \in Seq([Keys -> Nat])
                 /\ Len([caches EXCEPT ![n] = f]) = n
                 /\ \A i \in 1..n : [caches EXCEPT ![n] = f][i] = IF i = n THEN f ELSE caches[i]
      BY <1>2, <3>5
    <3> HIDE DEF t
    <3>6. /\ caches' \in Seq([Keys -> Nat]) /\ Len(caches') = n
          /\ \A i \in 1..n : caches'[i] = IF i = n THEN [caches[n] EXCEPT ![t.key] = t.value]
                                          ELSE caches[i]
      BY <3>2, <3>3, <3>5
    <3> QED
      BY <1>2, <3>4, <3>6
  <2>2. CASE t.key \notin Keys
    BY <1>1, <1>2, <2>2
  <2> QED
    BY <2>1, <2>2
<1> HIDE DEF t
<1>7. TypeOK'
  <2>1. caches' # <<>> /\ token' \in 0..(IF line = 0 THEN 0 ELSE Len(Tokens))
    BY <1>1, <1>2, <1>3, <1>6
  <2> QED
    BY <1>1, <1>2, <1>3, <1>6, <2>1 DEF TypeOK
<1>8. Reading'
  <2>1. \A i \in 1..(n - 1) : Stored(i)'
    BY <1>1, <1>2, <1>6, StoredStays
  <2>2. ASSUME NEW k \in Keys
        PROVE  LeftBy(Tokens, token + 1, k, Current'[k])
    <3>1. LeftBy(Tokens, token, k, Current[k])
      BY <1>2
    <3>2. Current'[k] = IF Tokens[token + 1].key = k THEN Tokens[token + 1].value ELSE Current[k]
      BY <1>2, <1>6 DEF Current, t
    <3> QED
      BY <1>2, <3>1, <3>2, LeftStep
  <2> QED
    BY <1>1, <1>2, <1>3, <1>6, <2>1, <2>2 DEF Reading
<1>9. LinkingFile' /\ Result'
  BY <1>1 DEF LinkingFile, Result
<1> QED
  BY <1>1, <1>7, <1>8, <1>9 DEF FileInv

\* A line that has been read gives the values of its cache.
LEMMA LineRead ==
  ASSUME FileInv, pc = "token", token = Len(Tokens)
  PROVE  /\ Len(caches) >= 1 /\ Len(caches) <= size
         /\ Current \in [Keys -> Nat]
         /\ Current = Values(file, Len(caches))
<1>1. /\ TypeOK /\ file \in File /\ line \in DOMAIN file.lines /\ Len(caches) \in Nat
      /\ Len(caches) # 0 /\ Written(file, line) = Len(caches) /\ file.lines[line] # <<>>
      /\ \A k \in Keys : LeftBy(Tokens, token, k, Current[k])
      /\ file.lines[line] \in Seq(Token) /\ Len(caches) <= size
  BY FileShape DEF FileInv, Reading, TypeOK
<1>2. Current \in [Keys -> Nat]
  BY <1>1, FileShape DEF Current
<1>3. LineOf(file, Len(caches)) = Tokens
  BY <1>1, LineFound DEF Tokens
<1>4. \A k \in Keys : Current[k] = Given(Tokens, k)
  BY <1>1, LeftIsGiven DEF Tokens
<1>5. Values(file, Len(caches)) = [k \in Keys |-> Given(Tokens, k)]
  BY <1>3 DEF Values
<1> QED
  BY <1>1, <1>2, <1>4, <1>5

LEMMA EndOfLineKeeps == FileInv /\ EndOfLine => FileInv'
<1> SUFFICES ASSUME FileInv, EndOfLine PROVE FileInv'
  OBVIOUS
<1> DEFINE n == Len(caches)
<1>1. /\ UNCHANGED <<file, line, links, linkcounter, first_level, size>>
      /\ pc = "token" /\ token = Len(Tokens) /\ token' = 0
  BY DEF EndOfLine, size
<1>2. /\ TypeOK /\ size \in Int /\ n \in Nat /\ n >= 1 /\ n <= size /\ size >= 1
      /\ Written(file, line) = n
      /\ \A i \in 1..(n - 1) : Stored(i)
      /\ caches \in Seq([Keys -> Nat]) /\ line > 0
      /\ Current \in [Keys -> Nat] /\ Current = Values(file, n)
  BY <1>1, LineRead, FileShape DEF FileInv, Reading, TypeOK
<1>3. Len(Tokens) \in Nat /\ Tokens' = Tokens
  BY <1>1, <1>2, FileShape DEF Tokens
<1>4. CASE ~Sane(Current)
  <2>1. pc' = "exit" /\ caches' = caches
    BY <1>4 DEF EndOfLine
  <2>2. ~W!Acceptable(Described)
    BY <1>2, <1>4, InsaneRejects
  <2>3. Described' = Described
    BY <1>1 DEF Described
  <2>4. TypeOK'
    BY <1>1, <1>2, <1>3, <2>1 DEF TypeOK, Final
  <2>5. Reading' /\ LinkingFile' /\ Result'
    BY <1>1, <2>1, <2>2, <2>3 DEF Reading, LinkingFile, Result
  <2> QED
    BY <1>1, <2>4, <2>5 DEF FileInv
<1>5. CASE Sane(Current)
  <2> DEFINE e == [Current EXCEPT !["subblock_size"] = IF @ = 0 THEN Current["cl_size"] ELSE @]
  <2>1. pc' = "line" /\ caches' = [caches EXCEPT ![n] = e]
    BY <1>5 DEF EndOfLine, Current
  <2>2. e \in [Keys -> Nat] /\ \A k \in Keys \ {"subblock_size"} : e[k] = Current[k]
    BY <1>2 DEF Keys, Required
  <2> HIDE DEF e
  <2>3. /\ caches' \in Seq([Keys -> Nat]) /\ Len(caches') = n /\ caches'[n] = e
        /\ \A i \in 1..(n - 1) : caches'[i] = caches[i]
    BY <1>2, <2>1, <2>2
  <2>4. TypeOK'
    BY <1>1, <1>2, <1>3, <2>1, <2>3 DEF TypeOK
  <2>5. \A i \in 1..n : Stored(i)'
    <3>1. \A i : i = n => Stored(i)'
      BY <1>1, <1>2, <1>5, <2>2, <2>3 DEF Stored
    <3>2. \A i \in 1..(n - 1) : Stored(i)'
      BY <1>1, <1>2, <2>3, StoredStays
    <3> QED
      BY <1>2, <3>1, <3>2
  <2>6. Reading' /\ LinkingFile' /\ Result'
    BY <1>1, <1>2, <2>1, <2>3, <2>5 DEF Reading, LinkingFile, Result
  <2> QED
    BY <1>1, <2>4, <2>6 DEF FileInv
<1> QED
  BY <1>4, <1>5

\* A cache counts no link if and only if no key names it.
LEMMA CountedLinks ==
  ASSUME NEW P \in SUBSET LinkKeys
  PROVE  Cardinality(P) \in Nat /\ (Cardinality(P) = 0 <=> P = {})
<1>1. LinkKeys = (({} \cup {"load_from"}) \cup {"store_to"}) \cup {"victims_to"}
  BY DEF LinkKeys
<1>2. IsFiniteSet(LinkKeys)
  <2>1. IsFiniteSet({} \cup {"load_from"})
    BY FS_EmptySet, FS_AddElement
  <2>2. IsFiniteSet(({} \cup {"load_from"}) \cup {"store_to"})
    BY <2>1, FS_AddElement
  <2> QED
    BY <1>1, <2>2, FS_AddElement
<1> QED
  BY <1>2, FS_Subset, FS_EmptySet, FS_CardinalityType

LEMMA LinkCacheKeeps == FileInv /\ LinkCache => FileInv'
<1> SUFFICES ASSUME FileInv, LinkCache PROVE FileInv'
  OBVIOUS
<1> DEFINE n == Len(links)
           k == caches[n + 1]
           new == [l \in LinkKeys |-> Linked(k[l])]
<1>1. /\ UNCHANGED <<pc, file, line, token, caches, first_level, size>>
      /\ pc = "link" /\ n < size /\ links' = Append(links, new) /\ linkcounter' = Counted(k)
  BY DEF LinkCache, size
<1>2. /\ TypeOK /\ size \in Nat /\ Len(caches) = size /\ n \in Nat
      /\ DOMAIN linkcounter = 1..size
      /\ \A i \in 1..n : \A l \in LinkKeys : Right(i, l)
      /\ \A j \in 1..size : linkcounter[j] = 0 <=>
           \A i \in 1..n : \A l \in LinkKeys : ~Names(i, l, j)
      /\ links \in Seq([LinkKeys -> 0..size]) /\ linkcounter \in Seq(Nat)
  BY <1>1, FileShape DEF FileInv, Reading, LinkingFile, TypeOK
<1>3. \A l \in LinkKeys : \A j \in 1..size : j \in Named(k[l]) <=> Names(n + 1, l, j)
  BY DEF Named, Names
<1>4. ASSUME NEW l \in LinkKeys
      PROVE  /\ Linked(k[l]) \in 0..size
             /\ IF \E j \in 1..size : Names(n + 1, l, j)
                THEN Linked(k[l]) \in 1..size /\ Names(n + 1, l, Linked(k[l]))
                ELSE Linked(k[l]) = 0
  <2>1. Named(k[l]) \subseteq 1..size
    BY DEF Named
  <2>2. IF Named(k[l]) = {} THEN Linked(k[l]) = 0 ELSE Linked(k[l]) \in Named(k[l])
    BY <1>2, LinkedToNamed
  <2> HIDE DEF k
  <2> QED
    BY <1>2, <1>3, <2>1, <2>2
<1>5. new \in [LinkKeys -> 0..size] /\ \A l \in LinkKeys : new[l] = Linked(k[l])
  BY <1>4
<1>6. /\ links' \in Seq([LinkKeys -> 0..size]) /\ Len(links') = n + 1
      /\ links'[n + 1] = new /\ \A i \in 1..n : links'[i] = links[i]
  <2> HIDE DEF new
  <2> QED
    BY <1>1, <1>2, <1>5
<1>7. /\ linkcounter' \in Seq(Nat) /\ DOMAIN linkcounter' = 1..size
      /\ \A j \in 1..size : linkcounter'[j] = 0 <=>
           linkcounter[j] = 0 /\ \A l \in LinkKeys : j \notin Named(k[l])
  <2> DEFINE hits(j) == {l \in LinkKeys : j \in Named(k[l])}
  <2>1. \A j : Cardinality(hits(j)) \in Nat
               /\ (Cardinality(hits(j)) = 0 <=> \A l \in LinkKeys : j \notin Named(k[l]))
    <3>1. \A j : hits(j) \in SUBSET LinkKeys
                 /\ (hits(j) = {} <=> \A l \in LinkKeys : j \notin Named(k[l]))
      OBVIOUS
    <3> HIDE DEF hits
    <3> QED
      BY <3>1, CountedLinks
  <2>2. linkcounter' = [j \in 1..size |-> linkcounter[j] + Cardinality(hits(j))]
    BY <1>1 DEF Counted
  <2>3. \A j \in 1..size : linkcounter[j] \in Nat
    BY <1>2
  <2> HIDE DEF hits, k
  <2>4. linkcounter' \in [1..size -> Nat]
    BY <2>1, <2>2, <2>3
  <2>5. linkcounter' \in Seq(Nat)
    <3>1. \A m \in Nat : \A f \in [1..m -> Nat] : f \in Seq(Nat)
      OBVIOUS
    <3> QED
      BY <1>2, <2>4, <3>1
  <2>6. \A j \in 1..size : linkcounter'[j] = linkcounter[j] + Cardinality(hits(j))
    BY <2>2
  <2> QED
    BY <2>1, <2>3, <2>4, <2>5, <2>6
<1>8. TypeOK'
  <2> HIDE DEF k, new
  <2> QED
    BY <1>1, <1>2, <1>6, <1>7 DEF TypeOK, Tokens
<1>9. Reading'
  BY <1>1, StoredStays DEF FileInv, Reading
<1>10. LinkingFile'
  <2>1. ASSUME NEW i \in 1..(n + 1), NEW l \in LinkKeys
        PROVE  Right(i, l)'
    <3>1. CASE i \in 1..n
      <4>1. links'[i] = links[i] /\ Right(i, l)
        BY <1>2, <1>6, <3>1
      <4> QED
        BY <1>1, <4>1 DEF Right, Names
    <3>2. CASE i = n + 1
      <4>1. links'[i][l] = Linked(k[l])
        BY <1>5, <1>6, <3>2
      <4> DEFINE to == Linked(k[l])
      <4>2. IF \E j \in 1..size : Names(i, l, j)
            THEN to \in 1..size /\ Names(i, l, to) ELSE to = 0
        BY <1>4, <3>2
      <4> HIDE DEF to
      <4>3. links'[i][l] = to
        BY <4>1 DEF to
      <4> QED
        BY <1>1, <4>2, <4>3 DEF Right, Names
    <3> QED
      BY <1>2, <3>1, <3>2
  <2>2. ASSUME NEW j \in 1..size
        PROVE  linkcounter'[j] = 0 <=>
                 \A i \in 1..(n + 1) : \A l \in LinkKeys : ~Names(i, l, j)
    <3>1. linkcounter'[j] = 0 <=>
            linkcounter[j] = 0 /\ \A l \in LinkKeys : ~Names(n + 1, l, j)
      BY <1>3, <1>7
    <3>2. linkcounter[j] = 0 <=> \A i \in 1..n : \A l \in LinkKeys : ~Names(i, l, j)
      BY <1>2
    <3>3. \A i : i \in 1..(n + 1) <=> i \in 1..n \/ i = n + 1
      BY <1>2
    <3> HIDE DEF k, new, n
    <3> QED
      BY <3>1, <3>2, <3>3
  <2>3. \A i, l, j : Names(i, l, j)' <=> Names(i, l, j)
    BY <1>1 DEF Names
  <2>4. n + 1 <= size
    BY <1>1, <1>2
  <2> HIDE DEF k, new
  <2> QED
    BY <1>1, <1>2, <1>6, <1>7, <2>1, <2>2, <2>3, <2>4 DEF LinkingFile
<1>11. Result'
  BY <1>1 DEF Result
<1> QED
  BY <1>1, <1>8, <1>9, <1>10, <1>11 DEF FileInv

\* When all caches are linked, those without a link are the roots of the file.
LEMMA UnlinkedRoots ==
  ASSUME FileInv, pc = "link", Len(links) = size
  PROVE  /\ W!Roots(Described) = Unlinked
         /\ size \in Nat /\ DOMAIN Described = 1..size
         /\ \A i \in 1..size : Described[i].ok
         /\ links \in W!LinksOf(Described)
<1>1. /\ TypeOK /\ size \in Nat /\ size >= 1 /\ Len(caches) = size
      /\ \A i \in 1..size : Stored(i)
      /\ \A i \in 1..size : \A k \in LinkKeys : Right(i, k)
      /\ \A j \in 1..size : linkcounter[j] = 0 <=>
           \A i \in 1..size : \A k \in LinkKeys : ~Names(i, k, j)
      /\ links \in Seq([LinkKeys -> 0..size])
  BY FileShape DEF FileInv, Reading, LinkingFile
<1>2. DOMAIN Described = 1..size
  BY <1>1 DEF Described
<1>3. ASSUME NEW i \in 1..size
      PROVE  /\ Described[i].ok /\ Described[i].name = caches[i]["name"] /\ caches[i]["name"] # 0
             /\ \A k \in LinkKeys : Described[i][k] = caches[i][k]
  <2>1. Stored(i) /\ "name" \in Required
    BY <1>1 DEF Required
  <2>2. /\ caches[i]["name"] = Values(file, i)["name"]
        /\ \A k \in LinkKeys : caches[i][k] = Values(file, i)[k]
        /\ Sane(Values(file, i))
    BY <2>1 DEF Stored, Keys, Required, LinkKeys
  <2>3. Values(file, i)["name"] # 0
    BY <2>1, <2>2 DEF Sane
  <2>4. /\ Described[i].name = Values(file, i)["name"]
        /\ Described[i].ok = Sane(Values(file, i))
        /\ \A k \in LinkKeys : Described[i][k] = Values(file, i)[k]
    BY <1>1, DescribedFile
  <2> QED
    BY <2>2, <2>3, <2>4
<1>4. \A i, j \in 1..size : \A k \in LinkKeys :
        Names(i, k, j) <=> Described[i][k] = Described[j].name
  BY <1>3 DEF Names
<1>5. W!LinkKeys = LinkKeys
  BY DEF W!LinkKeys, LinkKeys
<1>6. W!Roots(Described) = Unlinked
  <2>1. ASSUME NEW j \in 1..size
        PROVE  linkcounter[j] = 0 <=>
                 \A i \in 1..size : \A k \in LinkKeys : Described[i][k] # Described[j].name
    <3>1. linkcounter[j] = 0 <=> \A i \in 1..size : \A k \in LinkKeys : ~Names(i, k, j)
      BY <1>1
    <3> QED
      BY <1>4, <3>1
  <2> QED
    BY <1>2, <1>5, <2>1 DEF W!Roots, Unlinked
<1>7. links \in [1..size -> [LinkKeys -> 1..size \cup {0}]]
  <2>1. links \in [1..size -> [LinkKeys -> 0..size]]
    BY <1>1
  <2>2. 0..size = 1..size \cup {0}
    BY <1>1
  <2> QED
    BY <2>1, <2>2
<1>8. ASSUME NEW i \in 1..size, NEW k \in LinkKeys
      PROVE  links[i][k] \in W!Targets(Described, Described[i][k])
  <2>1. \A j : j \in W!Called(Described, Described[i][k]) <=> j \in 1..size /\ Names(i, k, j)
    BY <1>2, <1>4 DEF W!Called
  <2>2. Right(i, k)
    BY <1>1
  <2> QED
    BY <2>1, <2>2 DEF W!Targets, Right
<1> QED
  BY <1>1, <1>2, <1>3, <1>5, <1>6, <1>7, <1>8 DEF W!LinksOf

LEMMA FindFirstKeeps == FileInv /\ FindFirst => FileInv'
<1> SUFFICES ASSUME FileInv, FindFirst PROVE FileInv'
  OBVIOUS
<1>1. /\ UNCHANGED <<file, line, token, caches, links, linkcounter, size>>
      /\ pc = "link" /\ Len(links) = size
  BY DEF FindFirst, size
<1>2. /\ Unlinked' = Unlinked /\ Described' = Described
  BY <1>1 DEF Unlinked, Described
<1>3. /\ TypeOK /\ size >= 1 /\ size \in Int /\ Len(caches) = size
  BY <1>1, FileShape DEF FileInv, Reading, LinkingFile
<1>4. CASE Cardinality(Unlinked) # 1
  <2>1. pc' = "exit" /\ first_level' = first_level
    BY <1>4 DEF FindFirst, Unlinked
  <2>2. ~W!Acceptable(Described)
    BY <1>1, <1>4, UnlinkedRoots, FileCounts DEF W!Acceptable
  <2>3. TypeOK' /\ Reading' /\ LinkingFile' /\ Result'
    BY <1>1, <1>2, <1>3, <2>1, <2>2 DEF TypeOK, Final, Tokens, Reading, LinkingFile, Result
  <2> QED
    BY <1>1, <2>3 DEF FileInv
<1>5. CASE Cardinality(Unlinked) = 1
  <2>1. pc' = "returned" /\ first_level' \in Unlinked
    BY <1>5 DEF FindFirst, Unlinked
  <2>2. first_level' \in 0..Len(caches)
    BY <1>3, <2>1 DEF Unlinked
  <2>3. TypeOK'
    BY <1>1, <1>3, <2>1, <2>2 DEF TypeOK, Final, Tokens
  <2>4. Reading'
    BY <1>1, <2>1, StoredStays DEF FileInv, Reading
  <2>5. LinkingFile'
    BY <1>1, <2>1 DEF FileInv, LinkingFile, Right, Names
  <2>6. Result'
    BY <1>1, <1>2, <1>5, <2>1 DEF Result
  <2> QED
    BY <1>1, <2>3, <2>4, <2>5, <2>6 DEF FileInv
<1> QED
  BY <1>4, <1>5

LEMMA FileStutters == FileInv /\ UNCHANGED vars => FileInv'
<1> SUFFICES ASSUME FileInv, UNCHANGED vars PROVE FileInv'
  OBVIOUS
<1>1. UNCHANGED <<pc, file, line, token, caches, links, linkcounter, first_level, size>>
  BY DEF vars, size
<1>2. TypeOK'
  BY <1>1 DEF FileInv, TypeOK, Tokens
<1>3. Reading'
  BY <1>1, StoredStays DEF FileInv, Reading, Tokens, Current
<1>4. LinkingFile'
  BY <1>1 DEF FileInv, LinkingFile, Right, Names
<1>5. Result'
  <2>1. Described' = Described /\ Unlinked' = Unlinked
    BY <1>1 DEF Described, Unlinked
  <2> QED
    BY <1>1, <2>1 DEF FileInv, Result
<1> QED
  BY <1>1, <1>2, <1>3, <1>4, <1>5 DEF FileInv

LEMMA FileSteps == FileInv /\ [Next]_vars => FileInv'
<1>1. ComplainAboutToken => UNCHANGED vars
  BY DEF ComplainAboutToken
<1> QED
  BY <1>1, FileStutters, ReadSizeKeeps, ReadLineKeeps, EndOfFileKeeps, ReadTokenKeeps,
     EndOfLineKeeps, LinkCacheKeeps, FindFirstKeeps DEF Next, Step

LEMMA FileImplements == FileInv /\ FileInv' /\ [Next]_vars => [W!Next]_<<Described, Outcome>>
<1> SUFFICES ASSUME FileInv, FileInv', [Next]_vars PROVE [W!Next]_<<Described, Outcome>>
  OBVIOUS
<1>1. file' = file
  BY DEF Next, Step, vars, ReadSize, ReadLine, EndOfFile, ReadToken, ComplainAboutToken,
     EndOfLine, LinkCache, FindFirst
<1>2. Described' = Described
  BY <1>1 DEF Described, size
<1>3. CASE pc' = pc \/ pc' \notin Final
  <2>1. pc' # "undefined"
    BY DEF FileInv, Result
  <2>2. CASE pc' \notin Final
    <3>1. pc \notin Final
      BY <2>2 DEF Final, Next, Step, vars, ReadSize, ReadLine, EndOfFile, ReadToken,
         ComplainAboutToken, EndOfLine, LinkCache, FindFirst
    <3>2. Outcome' = Outcome
      BY <2>2, <3>1 DEF Outcome, Final
    <3> QED
      BY <1>2, <3>2
  <2>3. CASE pc' = pc /\ pc \in Final
    <3>1. UNCHANGED <<first_level, links>>
      BY <2>3 DEF Final, Next, Step, vars, ReadSize, ReadLine, EndOfFile, ReadToken,
         ComplainAboutToken, EndOfLine, LinkCache, FindFirst
    <3>2. Outcome' = Outcome
      BY <2>3, <3>1 DEF Outcome
    <3> QED
      BY <1>2, <3>2
  <2> QED
    BY <1>3, <2>2, <2>3
<1>4. CASE pc' # pc /\ pc' \in Final
  <2>1. pc \notin Final
    BY <1>4 DEF Final, Next, Step, vars, ReadSize, ReadLine, EndOfFile, ReadToken,
       ComplainAboutToken, EndOfLine, LinkCache, FindFirst
  <2>2. Outcome = W!Pending
    BY <2>1 DEF Final, Outcome, W!Pending
  <2>3. CASE pc' = "exit"
    <3>1. ~W!Acceptable(Described)
      BY <1>2, <2>3 DEF FileInv, Result
    <3>2. Outcome' = W!Rejected
      BY <2>3 DEF Outcome, W!Rejected
    <3> QED
      BY <1>2, <2>2, <3>1, <3>2 DEF W!Next, W!Reject
  <2>4. CASE pc' = "returned"
    <3>1. FindFirst
      BY <1>4, <2>4 DEF Next, Step, vars, ReadSize, ReadLine, EndOfFile, ReadToken,
         ComplainAboutToken, EndOfLine, LinkCache
    <3>2. pc = "link" /\ Len(links) = size /\ links' = links /\ first_level' \in Unlinked
          /\ Cardinality(Unlinked) = 1
      BY <2>4, <3>1 DEF FindFirst, Unlinked
    <3>3. W!Acceptable(Described)
      BY <3>2, UnlinkedRoots, FileCounts DEF W!Acceptable
    <3>4. Outcome' = [verdict |-> "returned", first |-> first_level', links |-> links]
      BY <2>4, <3>2 DEF Outcome
    <3>5. Outcome' \in [verdict : {"returned"}, first : W!Roots(Described),
                        links : W!LinksOf(Described)]
      BY <3>2, <3>4, UnlinkedRoots
    <3> QED
      BY <1>2, <2>2, <3>3, <3>5 DEF W!Next, W!Accept
  <2> QED
    BY <1>4, <2>3, <2>4 DEF FileInv, Result, Final
<1> QED
  BY <1>3, <1>4

\* The C API returns the hierarchy that the file as a whole describes, or exits
\* because it describes none (backend.c:1128-1433), whatever the order of the
\* lines and keys; for every set of files of which none announces more caches
\* than it has lines for.
THEOREM FileLinked ==
  (\A f \in Files : Enough(f)) => (Spec => ImplementsWiring)
<1> SUFFICES ASSUME \A f \in Files : Enough(f)
             PROVE  Spec => ImplementsWiring
  OBVIOUS
<1>1. Init => FileInv
  BY FileInitially
<1>2. Init => W!Init
  BY DEF Init, W!Init, Outcome, W!Pending
<1> QED
  BY <1>1, <1>2, FileSteps, FileImplements, PTL DEF Spec, ImplementsWiring, W!Spec

\* The variables of the reader of the file keep their types: it never indexes a
\* line, a token or a cache that is not there.
THEOREM FileTyped ==
  (\A f \in Files : Enough(f)) => (Spec => []TypeOK)
<1> SUFFICES ASSUME \A f \in Files : Enough(f)
             PROVE  Spec => []TypeOK
  OBVIOUS
<1>1. Init => FileInv
  BY FileInitially
<1>2. FileInv => TypeOK
  BY DEF FileInv
<1> QED
  BY <1>1, <1>2, FileSteps, PTL DEF Spec

\* If every set of caches has one whose links lead out of it, no set but the
\* empty one has only caches that are linked from within.
LEMMA LinkedFromOutside ==
  ASSUME NEW n \in Nat, NEW R,
         \A S \in (SUBSET (1..n)) \ {{}} : \E i \in S : \A j \in S : <<i, j>> \notin R,
         NEW T \in SUBSET (1..n),
         \A j \in T : \E i \in T : <<i, j>> \in R
  PROVE  T = {}
<1> DEFINE Inward(S) == \A j \in S : \E i \in S : <<i, j>> \in R
           P == {S \in SUBSET (1..n) : S # {} /\ Inward(S)}
           C == {Cardinality(S) : S \in P}
           Less == {ss \in Nat \X Nat : ss[1] < ss[2]}
<1> SUFFICES ASSUME T # {} PROVE FALSE
  OBVIOUS
<1>1. \A S \in P : IsFiniteSet(S) /\ Cardinality(S) \in Nat
  <2>1. IsFiniteSet(1..n)
    BY FS_Interval
  <2> QED
    BY <2>1, FS_Subset, FS_CardinalityType
<1>2. C \subseteq Nat /\ C # {}
  <2>1. T \in P
    OBVIOUS
  <2> HIDE DEF P
  <2> QED
    BY <1>1, <2>1
<1>3. IsWellFoundedOn(Less, Nat)
  BY NatLessThanWellFounded DEF OpToRel
<1>4. PICK m \in C : \A y \in C : ~(<<y, m>> \in Less)
  <2> HIDE DEF Less, C
  <2> QED BY <1>2, <1>3, WFMin
<1>5. PICK S \in P : m = Cardinality(S)
  <2> HIDE DEF P, Less
  <2> QED OBVIOUS
<1>6. PICK i \in S : \A j \in S : <<i, j>> \notin R
  OBVIOUS
<1>7. \A j \in S : \E k \in S \ {i} : <<k, j>> \in R
  BY <1>6
<1>8. Inward(S \ {i}) /\ S \ {i} # {}
  BY <1>7
<1>9. S \ {i} \in P
  BY <1>8
<1>10. Cardinality(S \ {i}) = Cardinality(S) - 1 /\ Cardinality(S \ {i}) \in Nat /\ Cardinality(S) \in Nat
  <2> HIDE DEF P
  <2> QED
    BY <1>1, <1>9, FS_RemoveElement
<1>11. Cardinality(S \ {i}) \in C
  <2> HIDE DEF P
  <2> QED
    BY <1>9
<1>12. <<Cardinality(S \ {i}), m>> \in Less
  <2> HIDE DEF C, P
  <2>1. \A a, b \in Nat : a < b => <<a, b>> \in Less
    OBVIOUS
  <2>2. Cardinality(S \ {i}) < m
    BY <1>5, <1>10
  <2> HIDE DEF Less
  <2> QED
    BY <1>5, <1>10, <2>1, <2>2
<1> QED
  <2> HIDE DEF C, P, Less
  <2> QED BY <1>4, <1>11, <1>12
LEMMA FileConnects == FileInv => Connected
<1> SUFFICES ASSUME FileInv, pc = "returned", Acyclic,
                    \A i \in 1..size : Named(caches[i]["name"]) = {i},
                    NEW S \in SUBSET (1..size), first_level \in S,
                    \A i \in S : \A k \in LinkKeys : links[i][k] \in S \cup {0}
             PROVE  S = 1..size
  BY DEF Connected
<1> DEFINE R == {p \in (1..size) \X (1..size) : \E k \in LinkKeys : links[p[1]][k] = p[2]}
           T == (1..size) \ S
<1>1. /\ size \in Nat
      /\ \A i \in 1..size : \A k \in LinkKeys : Right(i, k)
      /\ \A j \in 1..size : linkcounter[j] = 0 <=>
           \A i \in 1..size : \A k \in LinkKeys : ~Names(i, k, j)
      /\ Cardinality(Unlinked) = 1 /\ first_level \in Unlinked
  BY FileShape DEF FileInv, LinkingFile, Result
<1>2. \A U \in (SUBSET (1..size)) \ {{}} : \E i \in U : \A j \in U : <<i, j>> \notin R
  BY DEF Acyclic
<1>3. Unlinked = {first_level}
  <2>1. IsFiniteSet(Unlinked)
    <3>1. IsFiniteSet(1..size) /\ Unlinked \in SUBSET (1..size)
      BY <1>1, FS_Interval DEF Unlinked
    <3> QED
      BY <3>1, FS_Subset
  <2> QED
    BY <1>1, <2>1, FS_Singleton
<1>4. ASSUME NEW j \in T PROVE \E i \in T : <<i, j>> \in R
  <2>1. PICK i \in 1..size, k \in LinkKeys : Names(i, k, j)
    BY <1>1, <1>3 DEF Unlinked
  <2>2. links[i][k] \in 1..size /\ Names(i, k, links[i][k])
    BY <1>1, <2>1 DEF Right
  <2>3. j \in Named(caches[j]["name"]) /\ links[i][k] \in Named(caches[j]["name"])
    BY <2>1, <2>2 DEF Names, Named
  <2>4. links[i][k] = j
    BY <2>3
  <2>5. i \notin S
    BY <2>4, <1>1
  <2> QED
    BY <2>4, <2>5
<1>5. T = {}
  <2> HIDE DEF R
  <2>1. T \in SUBSET (1..size) /\ \A j \in T : \E i \in T : <<i, j>> \in R
    BY <1>4
  <2> HIDE DEF T
  <2> QED
    BY <1>1, <1>2, <2>1, LinkedFromOutside
<1> QED
  BY <1>5

\* "cache that is not first level has no connection! exiting!" (backend.c:1401):
\* of a hierarchy of caches with different names and without cycles, every cache
\* can be reached from the first level, for every file that has enough lines.
THEOREM FileReached ==
  (\A f \in Files : Enough(f)) => (Spec => []Connected)
<1> SUFFICES ASSUME \A f \in Files : Enough(f)
             PROVE  Spec => []Connected
  OBVIOUS
<1>1. Init => FileInv
  BY FileInitially
<1> QED
  BY <1>1, FileSteps, FileConnects, PTL DEF Spec

-----------------------------------------------------------------------------
(* from_dict, whose names are those of the instance D. *)

\* FiniteSets is reached along three ways and counts the same on each.
LEMMA SameCount ==
  ASSUME NEW S
  PROVE  D!Cardinality(S) = Cardinality(S) /\ D!W!Cardinality(S) = Cardinality(S)
  BY DEF Cardinality, D!Cardinality, D!W!Cardinality, IsFiniteSet, D!IsFiniteSet, D!W!IsFiniteSet

\* The place of a link among the three setters of a cache, and its inverse.
Place(k) == IF k = "store_to" THEN 0 ELSE IF k = "load_from" THEN 1 ELSE 2
PassedSetter(i, k) == 3 * (i - 1) + Place(k) < setters

\* What link k of cache i may lead to: nothing if there is no name, else the
\* cache that has it.
Leads(i, k, j) ==
  IF d[i][k] = 0 THEN j = 0 ELSE j \in DOMAIN d /\ d[j].name = d[i][k]

Unreferred == {i \in DOMAIN d : d[i].name \notin referred_caches}

\* The first pass: what was created was accepted, and its links were collected.
Collected ==
  /\ \A i \in 1..Len(dict_caches) : D!Constructible(d[i])
  /\ \A n : n \in referred_caches <=>
              \E i \in 1..Len(dict_caches) : \E k \in D!Keywords : n = d[i][k]

\* The second pass: it waits for the first; the setters passed have accepted
\* and linked, the others have not yet.
Linking ==
  /\ setters # 0 => Len(dict_caches) = Len(d)
  /\ \A i \in 1..Len(dict_caches) : \A k \in D!Keywords :
       IF PassedSetter(i, k)
       THEN D!Accepted(i, k) /\ Leads(i, k, dict_caches[i][k])
       ELSE dict_caches[i][k] = 0

\* After both passes there is one cache to start from.
Started ==
  dict_pc \in {"last_level_load", "last_level_store", "returned"} =>
    D!Connected /\ Cardinality(Unreferred) = 1 /\ dict_first_level \in Unreferred

DictInv == D!TypeOK /\ Collected /\ Linking /\ Started

-----------------------------------------------------------------------------
\* The setter that is next belongs to one cache and one link.
LEMMA NextSetter ==
  ASSUME NEW n \in Nat, NEW i \in Nat, NEW p \in 0..2
  PROVE  3 * (i - 1) + p = n <=> i = n \div 3 + 1 /\ p = n % 3
  OBVIOUS

LEMMA DictShape ==
  ASSUME D!TypeOK
  PROVE  /\ d \in Seq(D!Conf) /\ Len(d) \in Nat /\ DOMAIN d = 1..Len(d)
         /\ dict_caches \in Seq([D!Keywords -> {0} \cup DOMAIN d])
         /\ Len(dict_caches) \in 0..Len(d)
         /\ DOMAIN dict_caches = 1..Len(dict_caches)
         /\ \A i \in DOMAIN d : d[i].name \in Nat \ {0} /\ \A k \in D!Keywords : d[i][k] \in Nat
<1>1. d \in Seq(D!Conf) /\ dict_caches \in Seq([D!Keywords -> {0} \cup DOMAIN d])
      /\ Len(dict_caches) <= Len(d)
  BY DEF D!TypeOK, D!WellFormed, D!None
<1>2. Len(d) \in Nat /\ DOMAIN d = 1..Len(d) /\ Len(dict_caches) \in Nat
      /\ DOMAIN dict_caches = 1..Len(dict_caches)
  BY <1>1
<1>3. ASSUME NEW i \in DOMAIN d
      PROVE  d[i].name \in Nat \ {0} /\ \A k \in D!Keywords : d[i][k] \in Nat
  <2>1. d[i] \in D!Conf
    BY <1>1, <1>2, <1>3
  <2> QED
    BY <2>1 DEF D!Conf, D!Keywords
<1> QED
  BY <1>1, <1>2, <1>3

LEMMA OwnerAndKeyword ==
  ASSUME D!TypeOK, Len(dict_caches) = Len(d), ~D!Connected
  PROVE  /\ D!Owner \in 1..Len(dict_caches) /\ D!Keyword \in D!Keywords
         /\ D!Owner \in DOMAIN d
         /\ 3 * (D!Owner - 1) + Place(D!Keyword) = setters
         /\ \A i \in 1..Len(dict_caches) : \A k \in D!Keywords :
              3 * (i - 1) + Place(k) = setters => i = D!Owner /\ k = D!Keyword
<1>1. setters \in Nat /\ setters < 3 * Len(d) /\ Len(d) \in Nat /\ DOMAIN d = 1..Len(d)
  <2>1. Len(d) \in Nat /\ DOMAIN d = 1..Len(d)
    BY DictShape
  <2>2. setters \in 0 .. 3 * Len(d) /\ setters # 3 * Len(d)
    BY DEF D!TypeOK, D!Connected
  <2> QED
    BY <2>1, <2>2
<1>2. setters \div 3 \in Nat /\ setters % 3 \in 0..2 /\ setters \div 3 < Len(d)
      /\ setters = 3 * (setters \div 3) + (setters % 3)
  BY <1>1
<1>3. D!Keyword = IF setters % 3 = 0 THEN "store_to"
                  ELSE IF setters % 3 = 1 THEN "load_from" ELSE "victims_to"
  BY <1>2 DEF D!Keyword
<1>4. Place(D!Keyword) = setters % 3 /\ D!Keyword \in D!Keywords
  BY <1>2, <1>3 DEF Place, D!Keywords
<1>5. ASSUME NEW i \in 1..Len(dict_caches), NEW k \in D!Keywords, 3 * (i - 1) + Place(k) = setters
      PROVE  i = D!Owner /\ k = D!Keyword
  <2>1. Place(k) \in 0..2 /\ i \in Nat
    BY <1>1 DEF Place
  <2>2. i = setters \div 3 + 1 /\ Place(k) = setters % 3
    BY <1>1, <1>5, <2>1, NextSetter
  <2> QED
    BY <1>3, <2>2 DEF Place, D!Keywords, D!Owner
<1> QED
  BY <1>1, <1>2, <1>4, <1>5 DEF D!Owner

-----------------------------------------------------------------------------
\* A failed assertion leaves everything as it is.
LEMMA Raising ==
  ASSUME DictInv, dict_pc' = "raised",
         UNCHANGED <<d, dict_caches, referred_caches, setters, dict_first_level,
                     c, last_level_load, last_level_store>>
  PROVE  DictInv'
<1>1. D!TypeOK'
  BY DEF DictInv, D!TypeOK, D!Final
<1>2. Collected'
  BY DEF DictInv, Collected, D!Constructible, D!is_power2
<1>3. Linking'
  BY DEF DictInv, Linking, PassedSetter, D!Accepted, D!None, D!Fits, Leads
<1>4. Started'
  BY DEF Started
<1> QED
  BY <1>1, <1>2, <1>3, <1>4 DEF DictInv

LEMMA DictInitially == D!Init => DictInv
<1> SUFFICES ASSUME D!Init PROVE DictInv
  OBVIOUS
<1>1. dict_caches = <<>> /\ Len(dict_caches) = 0 /\ referred_caches = {} /\ setters = 0
      /\ dict_pc = "caches"
  BY DEF D!Init
<1>2. D!TypeOK
  BY <1>1 DEF D!Init, D!TypeOK, D!WellFormed, D!None, D!Final
<1>3. Collected /\ Linking /\ Started
  BY <1>1 DEF Collected, Linking, Started
<1> QED
  BY <1>2, <1>3 DEF DictInv

LEMMA CreateKeeps == DictInv /\ D!CreateCache => DictInv'
<1> SUFFICES ASSUME DictInv, D!CreateCache PROVE DictInv'
  OBVIOUS
<1> DEFINE n == Len(dict_caches)
<1>1. /\ d' = d /\ setters' = setters /\ dict_first_level' = dict_first_level
      /\ c' = c /\ last_level_load' = last_level_load /\ last_level_store' = last_level_store
      /\ dict_pc = "caches" /\ n < Len(d)
  BY DEF D!CreateCache
<1>2. D!TypeOK /\ n \in Nat /\ Len(d) \in Nat /\ DOMAIN d = 1..Len(d) /\ n + 1 \in DOMAIN d
  BY <1>1, DictShape DEF DictInv
<1>3. setters = 0
  BY <1>1, <1>2 DEF DictInv, Linking
<1>4. CASE D!Constructible(d[n + 1])
  <2>1. /\ dict_caches' = Append(dict_caches, D!Unlinked) /\ dict_pc' = dict_pc
        /\ referred_caches' = referred_caches \cup {d[n + 1][k] : k \in D!Keywords}
    BY <1>1, <1>4 DEF D!CreateCache
  <2>2. D!Unlinked \in [D!Keywords -> {0} \cup DOMAIN d]
    BY DEF D!Unlinked, D!None
  <2>3. /\ dict_caches' \in Seq([D!Keywords -> {0} \cup DOMAIN d]) /\ Len(dict_caches') = n + 1
        /\ \A i \in 1..n : dict_caches'[i] = dict_caches[i]
        /\ dict_caches'[n + 1] = D!Unlinked
    BY <1>2, <2>1, <2>2, DictShape
  <2>4. \A k \in D!Keywords : d[n + 1][k] \in Nat
    BY <1>2, DictShape
  <2>5. D!TypeOK'
    <3>1. referred_caches' \subseteq Nat /\ Len(dict_caches') <= Len(d)
      <4>1. referred_caches \subseteq Nat
        BY <1>2 DEF D!TypeOK
      <4>2. {d[n + 1][k] : k \in D!Keywords} \subseteq Nat
        BY <2>4
      <4>3. Len(dict_caches') <= Len(d)
        BY <1>1, <1>2, <2>3
      <4> QED
        BY <2>1, <4>1, <4>2, <4>3
    <3>2. dict_caches' \in Seq([D!Keywords -> {D!None} \cup DOMAIN d])
      BY <2>3 DEF D!None
    <3> QED
      BY <1>1, <1>2, <2>1, <3>1, <3>2 DEF D!TypeOK, D!WellFormed
  <2>6. Collected'
    <3>1. \A i \in 1..(n + 1) : D!Constructible(d[i])
      BY <1>2, <1>4 DEF DictInv, Collected
    <3>2. \A m : m \in referred_caches' <=>
                   \E i \in 1..(n + 1) : \E k \in D!Keywords : m = d[i][k]
      BY <1>2, <2>1 DEF DictInv, Collected
    <3> QED
      BY <1>1, <2>3, <3>1, <3>2 DEF Collected, D!Constructible, D!is_power2
  <2>7. Linking'
    <3>1. ASSUME NEW i \in 1..(n + 1), NEW k \in D!Keywords
          PROVE  ~PassedSetter(i, k) /\ dict_caches'[i][k] = 0
      <4>1. ~PassedSetter(i, k)
        BY <1>2, <1>3 DEF PassedSetter, Place
      <4>2. CASE i = n + 1
        BY <2>3, <4>1, <4>2 DEF D!Unlinked, D!None
      <4>3. CASE i \in 1..n
        BY <2>3, <4>1, <4>3 DEF DictInv, Linking
      <4> QED
        BY <1>2, <4>2, <4>3
    <3> QED
      BY <1>1, <1>3, <2>3, <3>1 DEF Linking, PassedSetter
  <2>8. Started'
    BY <1>1, <2>1 DEF Started
  <2> QED
    BY <2>5, <2>6, <2>7, <2>8 DEF DictInv
<1>5. CASE ~D!Constructible(d[n + 1])
  <2>1. dict_pc' = "raised" /\ dict_caches' = dict_caches /\ referred_caches' = referred_caches
    BY <1>1, <1>5 DEF D!CreateCache
  <2> QED
    BY <1>1, <2>1, Raising
<1> QED
  BY <1>4, <1>5

\* A setter leaves what the setters before it have accepted and linked.
LEMMA ConnectKeeps == DictInv /\ D!Connect => DictInv'
<1> SUFFICES ASSUME DictInv, D!Connect PROVE DictInv'
  OBVIOUS
<1> DEFINE n == Len(dict_caches)
<1>1. /\ d' = d /\ referred_caches' = referred_caches /\ dict_first_level' = dict_first_level
      /\ c' = c /\ last_level_load' = last_level_load /\ last_level_store' = last_level_store
      /\ dict_pc = "caches" /\ n = Len(d) /\ ~D!Connected
  BY DEF D!Connect
<1>2. D!TypeOK /\ n \in Nat /\ Len(d) \in Nat /\ DOMAIN d = 1..n /\ setters \in 0 .. 3 * n
      /\ setters # 3 * n
  BY <1>1, DictShape DEF DictInv, D!TypeOK, D!Connected
<1>3. /\ D!Owner \in 1..n /\ D!Keyword \in D!Keywords
      /\ 3 * (D!Owner - 1) + Place(D!Keyword) = setters
      /\ \A i \in 1..n : \A k \in D!Keywords :
           3 * (i - 1) + Place(k) = setters => i = D!Owner /\ k = D!Keyword
  BY <1>1, <1>2, OwnerAndKeyword
<1>4. CASE D!Accepted(D!Owner, D!Keyword)
  <2> DEFINE name == d[D!Owner][D!Keyword]
             to   == IF name = 0 THEN 0 ELSE D!Index(name)
  <2>1. dict_pc' = dict_pc /\ setters' = setters + 1
    BY <1>4 DEF D!Connect
  <2>2. /\ to \in {0} \cup DOMAIN d
        /\ Leads(D!Owner, D!Keyword, to)
    BY <1>4 DEF D!Accepted, D!Index, Leads, D!None
  <2>3. dict_caches[D!Owner][D!Keyword] = 0
    BY <1>1, <1>2, <1>3 DEF DictInv, Linking, PassedSetter
  <2>4. dict_caches \in Seq([D!Keywords -> {0} \cup DOMAIN d])
    BY <1>2, DictShape
  <2>5. dict_caches' = IF name = 0 THEN dict_caches
                       ELSE [dict_caches EXCEPT ![D!Owner][D!Keyword] = to]
    BY <1>4 DEF D!Connect, D!None
  <2>6. /\ dict_caches' \in Seq([D!Keywords -> {0} \cup DOMAIN d])
        /\ Len(dict_caches') = n
        /\ \A i \in 1..n : \A k \in D!Keywords :
             dict_caches'[i][k] = IF i = D!Owner /\ k = D!Keyword THEN to ELSE dict_caches[i][k]
    <3>1. CASE name = 0
      BY <2>3, <2>4, <2>5, <3>1
    <3>2. CASE name # 0
      <4>1. dict_caches[D!Owner] \in [D!Keywords -> {0} \cup DOMAIN d]
        BY <1>2, <1>3, <2>4
      <4>2. dict_caches' =
              [dict_caches EXCEPT ![D!Owner] = [dict_caches[D!Owner] EXCEPT ![D!Keyword] = to]]
        BY <2>5, <3>2
      <4>3. [dict_caches[D!Owner] EXCEPT ![D!Keyword] = to] \in [D!Keywords -> {0} \cup DOMAIN d]
        BY <2>2, <4>1
      <4>4. ASSUME NEW f \in [D!Keywords -> {0} \cup DOMAIN d]
            PROVE  /\ [dict_caches EXCEPT ![D!Owner] = f] \in Seq([D!Keywords -> {0} \cup DOMAIN d])
                   /\ Len([dict_caches EXCEPT ![D!Owner] = f]) = n
                   /\ \A i \in 1..n : [dict_caches EXCEPT ![D!Owner] = f][i] =
                                        IF i = D!Owner THEN f ELSE dict_caches[i]
        BY <1>3, <2>4, <4>4
      <4>5. \A k \in D!Keywords : [dict_caches[D!Owner] EXCEPT ![D!Keyword] = to][k] =
                                    IF k = D!Keyword THEN to ELSE dict_caches[D!Owner][k]
        BY <4>1
      <4>6. /\ dict_caches' \in Seq([D!Keywords -> {0} \cup DOMAIN d])
            /\ Len(dict_caches') = n
            /\ \A i \in 1..n :
                 dict_caches'[i] = IF i = D!Owner
                                   THEN [dict_caches[D!Owner] EXCEPT ![D!Keyword] = to]
                                   ELSE dict_caches[i]
        BY <4>2, <4>3, <4>4
      <4> HIDE DEF to
      <4> QED
        BY <4>5, <4>6
    <3> QED
      BY <3>1, <3>2
  <2>7. D!TypeOK'
    <3>1. setters' \in 0 .. 3 * n
      BY <1>2, <2>1
    <3>2. dict_caches' \in Seq([D!Keywords -> {D!None} \cup DOMAIN d])
      BY <2>6 DEF D!None
    <3> QED
      BY <1>1, <1>2, <2>1, <2>6, <3>1, <3>2 DEF D!TypeOK, D!WellFormed
  <2>8. Collected'
    BY <1>1, <2>6 DEF DictInv, Collected, D!Constructible, D!is_power2
  <2>9. Linking'
    <3>1. ASSUME NEW i \in 1..n, NEW k \in D!Keywords
          PROVE  IF PassedSetter(i, k)'
                 THEN D!Accepted(i, k)' /\ Leads(i, k, dict_caches[i][k])'
                 ELSE dict_caches'[i][k] = 0
      <4>1. PassedSetter(i, k)' <=> PassedSetter(i, k) \/ (i = D!Owner /\ k = D!Keyword)
        BY <1>2, <1>3, <2>1 DEF PassedSetter, Place
      <4>2. D!Accepted(i, k)' <=> D!Accepted(i, k)
        BY <1>1 DEF D!Accepted, D!None, D!Fits
      <4>3. CASE i = D!Owner /\ k = D!Keyword
        BY <1>1, <1>4, <2>2, <2>6, <4>1, <4>2, <4>3 DEF Leads
      <4>4. CASE ~(i = D!Owner /\ k = D!Keyword)
        <5>1. dict_caches'[i][k] = dict_caches[i][k]
          BY <2>6, <4>4
        <5>2. IF PassedSetter(i, k)
              THEN D!Accepted(i, k) /\ Leads(i, k, dict_caches[i][k])
              ELSE dict_caches[i][k] = 0
          BY DEF DictInv, Linking
        <5> QED
          BY <1>1, <4>1, <4>2, <4>4, <5>1, <5>2 DEF Leads
      <4> QED
        BY <4>3, <4>4
    <3> QED
      BY <1>1, <2>6, <3>1 DEF Linking
  <2>10. Started'
    BY <1>1, <2>1 DEF Started
  <2> QED
    BY <2>7, <2>8, <2>9, <2>10 DEF DictInv
<1>5. CASE ~D!Accepted(D!Owner, D!Keyword)
  <2>1. dict_pc' = "raised" /\ dict_caches' = dict_caches /\ setters' = setters
    BY <1>5 DEF D!Connect
  <2> QED
    BY <1>1, <2>1, Raising
<1> QED
  BY <1>4, <1>5

\* The rest of the function reads what the two passes have made.
LEMMA RestKeeps ==
  DictInv /\ (D!FindFirstLevel \/ D!FollowLoads \/ D!FollowStores) => DictInv'
<1> SUFFICES ASSUME DictInv, D!FindFirstLevel \/ D!FollowLoads \/ D!FollowStores
             PROVE  DictInv'
  OBVIOUS
<1>1. UNCHANGED <<d, dict_caches, referred_caches, setters>>
  BY DEF D!FindFirstLevel, D!FollowLoads, D!FollowStores
<1>2. Collected' /\ Linking'
  BY <1>1 DEF DictInv, Collected, Linking, D!Constructible, D!is_power2, PassedSetter,
     D!Accepted, D!None, D!Fits, Leads
<1>3. Started'
  <2>1. Unreferred' = Unreferred /\ (D!Connected' <=> D!Connected)
    BY <1>1 DEF Unreferred, D!Connected
  <2>2. CASE D!FindFirstLevel
    BY <1>1, <2>1, <2>2, SameCount DEF D!FindFirstLevel, Started, Unreferred
  <2>3. CASE D!FollowLoads \/ D!FollowStores
    BY <1>1, <2>1, <2>3 DEF DictInv, D!FollowLoads, D!FollowStores, Started
  <2> QED
    BY <2>2, <2>3
<1>4. D!TypeOK'
  <2>1. D!TypeOK
    BY DEF DictInv
  <2>2. /\ dict_pc' \in D!Final \cup {"caches", "last_level_load", "last_level_store"}
        /\ {dict_first_level', c', last_level_load', last_level_store'} \subseteq {0} \cup DOMAIN d
    <3>1. CASE D!FindFirstLevel
      BY <2>1, <3>1 DEF D!FindFirstLevel, D!TypeOK, D!Final, D!None
    <3>2. ASSUME c # 0, dict_pc \in {"last_level_load", "last_level_store"}
          PROVE  \A k \in D!Keywords : dict_caches[c][k] \in {0} \cup DOMAIN d
      <4>1. Len(dict_caches) = Len(d)
        BY <3>2 DEF DictInv, Started, D!Connected
      <4>2. c \in DOMAIN dict_caches
        BY <2>1, <3>2, <4>1, DictShape DEF D!TypeOK, D!None
      <4> QED
        BY <2>1, <4>2, DictShape
    <3>3. CASE D!FollowLoads
      BY <2>1, <3>2, <3>3 DEF D!FollowLoads, D!TypeOK, D!Final, D!None, D!Keywords
    <3>4. CASE D!FollowStores
      BY <2>1, <3>2, <3>4 DEF D!FollowStores, D!TypeOK, D!Final, D!None, D!Keywords
    <3> QED
      BY <3>1, <3>3, <3>4
  <2> QED
    BY <1>1, <2>1, <2>2 DEF D!TypeOK, D!WellFormed, D!None
<1> QED
  BY <1>2, <1>3, <1>4 DEF DictInv

LEMMA DictSteps == DictInv /\ [D!Next]_(D!vars) => DictInv'
<1>1. DictInv /\ UNCHANGED D!vars => DictInv'
  <2> SUFFICES ASSUME DictInv, UNCHANGED D!vars PROVE DictInv'
    OBVIOUS
  <2>1. D!TypeOK'
    BY DEF DictInv, D!TypeOK, D!vars
  <2>2. Collected' /\ Linking'
    BY DEF DictInv, D!vars, Collected, Linking, D!Constructible, D!is_power2, PassedSetter,
       D!Accepted, D!None, D!Fits, Leads
  <2>3. Started'
    BY DEF DictInv, D!vars, Started, D!Connected, Unreferred
  <2> QED
    BY <2>1, <2>2, <2>3 DEF DictInv
<1> QED
  BY <1>1, CreateKeeps, ConnectKeeps, RestKeeps DEF D!Next

\* For every dictionary the variables of from_dict keep their types, and a cache
\* is only linked to one that exists.
THEOREM DictTyped == D!Spec => []D!TypeOK
<1>1. DictInv => D!TypeOK
  BY DEF DictInv
<1> QED
  BY <1>1, DictInitially, DictSteps, PTL DEF D!Spec

-----------------------------------------------------------------------------
\* What Wiring makes of the dictionary, in the terms of the invariant.
LEMMA DescribedShape ==
  /\ DOMAIN D!Described = DOMAIN d
  /\ \A i \in DOMAIN d :
       /\ D!Described[i].name = d[i].name
       /\ D!Described[i].ok = (D!Constructible(d[i]) /\ \A k \in D!Keywords : D!Accepted(i, k))
       /\ \A k \in D!Keywords : D!Described[i][k] = d[i][k]
<1>1. DOMAIN D!Described = DOMAIN d
  BY DEF D!Described
<1>2. ASSUME NEW i \in DOMAIN d
      PROVE  D!Described[i] =
               [name |-> d[i].name,
                ok   |-> D!Constructible(d[i]) /\ \A k \in D!Keywords : D!Accepted(i, k),
                load_from |-> d[i].load_from, store_to |-> d[i].store_to,
                victims_to |-> d[i].victims_to]
  BY <1>2, Zenon DEF D!Described
<1>3. ASSUME NEW i \in DOMAIN d
      PROVE  /\ D!Described[i].name = d[i].name
             /\ D!Described[i].ok =
                  (D!Constructible(d[i]) /\ \A k \in D!Keywords : D!Accepted(i, k))
             /\ \A k \in D!Keywords : D!Described[i][k] = d[i][k]
  <2> DEFINE ok == D!Constructible(d[i]) /\ \A k \in D!Keywords : D!Accepted(i, k)
  <2>1. D!Described[i] = [name |-> d[i].name, ok |-> ok, load_from |-> d[i].load_from,
                          store_to |-> d[i].store_to, victims_to |-> d[i].victims_to]
    BY <1>2, <1>3, Zenon
  <2> HIDE DEF ok
  <2>2. /\ D!Described[i].name = d[i].name /\ D!Described[i].ok = ok
        /\ D!Described[i]["load_from"] = d[i].load_from
        /\ D!Described[i]["store_to"] = d[i].store_to
        /\ D!Described[i]["victims_to"] = d[i].victims_to
    BY <2>1
  <2>3. \A k \in D!Keywords : D!Described[i][k] = d[i][k]
    BY <2>2 DEF D!Keywords
  <2> QED
    BY <2>2, <2>3, Zenon DEF ok
<1> QED
  BY <1>1, <1>3, Zenon

LEMMA DescribedRoots ==
  ASSUME Collected, Len(dict_caches) = Len(d), DOMAIN d = 1..Len(d)
  PROVE  D!W!Roots(D!Described) = Unreferred
  BY DescribedShape DEF D!W!Roots, D!W!LinkKeys, D!Keywords, Collected, Unreferred

LEMMA DescribedTargets ==
  ASSUME D!TypeOK, NEW i \in DOMAIN d, NEW k \in D!Keywords, NEW j, Leads(i, k, j),
         D!Accepted(i, k)
  PROVE  j \in {0} \cup DOMAIN d /\ j \in D!W!Targets(D!Described, D!Described[i][k])
<1>1. D!Described[i][k] = d[i][k]
  BY DescribedShape
<1>2. CASE d[i][k] = 0
  <2>1. D!W!Called(D!Described, 0) = {}
    BY DictShape, DescribedShape DEF D!W!Called
  <2> QED
    BY <1>1, <1>2, <2>1 DEF D!W!Targets, Leads
<1>3. CASE d[i][k] # 0
  <2>1. j \in D!W!Called(D!Described, d[i][k])
    BY <1>3, DescribedShape DEF D!W!Called, Leads
  <2> QED
    BY <1>1, <1>3, <2>1 DEF D!W!Targets, Leads
<1> QED
  BY <1>2, <1>3

\* The outcome stays open until the function returns or raises.
LEMMA RaiseRejects ==
  ASSUME dict_pc = "caches", dict_pc' = "raised", d' = d, ~D!W!Acceptable(D!Described)
  PROVE  D!W!Next
<1>1. D!Described' = D!Described
  BY DEF D!Described, D!Constructible, D!is_power2, D!Accepted, D!None, D!Fits
<1>2. D!Outcome = D!W!Pending /\ D!Outcome' = D!W!Rejected
  BY DEF D!Outcome, D!W!Pending, D!W!Rejected
<1> QED
  BY <1>1, <1>2 DEF D!W!Next, D!W!Reject

LEMMA FailuresReject ==
  ASSUME DictInv, D!CreateCache \/ D!Connect \/ D!FindFirstLevel, dict_pc' = "raised"
  PROVE  ~D!W!Acceptable(D!Described) /\ dict_pc = "caches" /\ d' = d
<1>1. dict_pc = "caches" /\ d' = d
  BY DEF D!CreateCache, D!Connect, D!FindFirstLevel
<1>2. D!TypeOK /\ DOMAIN d = 1..Len(d) /\ Len(d) \in Nat /\ Len(dict_caches) \in 0..Len(d)
  BY DictShape DEF DictInv
<1>3. CASE D!CreateCache
  <2>1. Len(dict_caches) + 1 \in DOMAIN d /\ ~D!Constructible(d[Len(dict_caches) + 1])
    BY <1>1, <1>2, <1>3 DEF D!CreateCache
  <2> QED
    BY <1>1, <2>1, DescribedShape DEF D!W!Acceptable
<1>4. CASE D!Connect
  <2>1. Len(dict_caches) = Len(d) /\ ~D!Connected /\ ~D!Accepted(D!Owner, D!Keyword)
    BY <1>1, <1>4 DEF D!Connect
  <2>2. D!Owner \in DOMAIN d /\ D!Keyword \in D!Keywords
    BY <1>2, <2>1, OwnerAndKeyword
  <2> QED
    BY <1>1, <2>1, <2>2, DescribedShape DEF D!W!Acceptable
<1>5. CASE D!FindFirstLevel
  <2>1. D!Connected /\ Cardinality(Unreferred) # 1
    BY <1>1, <1>5, SameCount DEF D!FindFirstLevel, Unreferred
  <2>2. D!W!Roots(D!Described) = Unreferred
    BY <1>2, <2>1, DescribedRoots DEF DictInv, D!Connected
  <2> QED
    BY <1>1, <2>1, <2>2, SameCount DEF D!W!Acceptable
<1> QED
  BY <1>3, <1>4, <1>5

\* What is returned is what the dictionary calls for.
LEMMA ReturnAccepts ==
  ASSUME DictInv, D!FollowStores, dict_pc' = "returned"
  PROVE  D!W!Next
<1>1. /\ dict_pc = "last_level_store" /\ d' = d /\ dict_caches' = dict_caches
      /\ dict_first_level' = dict_first_level
  BY DEF D!FollowStores
<1>2. /\ D!TypeOK /\ DOMAIN d = 1..Len(d) /\ Len(d) \in Nat /\ Len(dict_caches) = Len(d)
      /\ setters = 3 * Len(d) /\ Cardinality(Unreferred) = 1 /\ dict_first_level \in Unreferred
  BY <1>1, DictShape DEF DictInv, Started, D!Connected
<1>3. D!W!Roots(D!Described) = Unreferred
  BY <1>2, DescribedRoots DEF DictInv
<1>4. ASSUME NEW i \in DOMAIN d, NEW k \in D!Keywords
      PROVE  D!Accepted(i, k) /\ Leads(i, k, dict_caches[i][k])
  <2>1. PassedSetter(i, k)
    BY <1>2 DEF PassedSetter, Place
  <2> QED
    BY <1>2, <2>1 DEF DictInv, Linking
<1>5. D!W!Acceptable(D!Described)
  <2>1. \A i \in DOMAIN d : D!Constructible(d[i])
    BY <1>2 DEF DictInv, Collected
  <2> QED
    BY <1>2, <1>3, <1>4, <2>1, DescribedShape, SameCount DEF D!W!Acceptable
<1>6. dict_caches \in D!W!LinksOf(D!Described)
  <2>1. dict_caches \in [DOMAIN d -> [D!Keywords -> {0} \cup DOMAIN d]]
    BY <1>2, DictShape
  <2>2. \A i \in DOMAIN d : \A k \in D!Keywords :
          dict_caches[i][k] \in D!W!Targets(D!Described, D!Described[i][k])
    BY <1>2, <1>4, DescribedTargets
  <2>3. D!Keywords = D!W!LinkKeys /\ DOMAIN D!Described = DOMAIN d
    BY DescribedShape DEF D!Keywords, D!W!LinkKeys
  <2> QED
    BY <2>1, <2>2, <2>3 DEF D!W!LinksOf
<1>7. D!Outcome = D!W!Pending
  BY <1>1 DEF D!Outcome, D!W!Pending
<1>8. D!Outcome' = [verdict |-> "returned", first |-> dict_first_level, links |-> dict_caches]
  BY <1>1 DEF D!Outcome
<1>9. D!Described' = D!Described
  BY <1>1 DEF D!Described, D!Constructible, D!is_power2, D!Accepted, D!None, D!Fits
<1>10. D!Outcome' \in [verdict : {"returned"}, first : D!W!Roots(D!Described),
                       links : D!W!LinksOf(D!Described)]
  BY <1>2, <1>3, <1>6, <1>8
<1> QED
  BY <1>5, <1>7, <1>9, <1>10 DEF D!W!Next, D!W!Accept

LEMMA OtherStepsStutter ==
  ASSUME [D!Next]_(D!vars), dict_pc' = dict_pc \/ dict_pc' \notin {"raised", "returned"}
  PROVE  UNCHANGED <<D!Described, D!Outcome>>
<1>1. d' = d
  BY DEF D!Next, D!vars, D!CreateCache, D!Connect, D!FindFirstLevel, D!FollowLoads, D!FollowStores
<1>2. D!Described' = D!Described
  BY <1>1 DEF D!Described, D!Constructible, D!is_power2, D!Accepted, D!None, D!Fits
<1>3. CASE dict_pc' \notin {"raised", "returned"}
  <2>1. dict_pc \notin {"raised", "returned"}
    BY <1>3 DEF D!Next, D!vars, D!CreateCache, D!Connect, D!FindFirstLevel, D!FollowLoads,
       D!FollowStores
  <2> QED
    BY <1>2, <1>3, <2>1 DEF D!Outcome
<1>4. CASE dict_pc' = dict_pc /\ dict_pc \in {"raised", "returned"}
  <2>1. UNCHANGED <<dict_first_level, dict_caches>>
    BY <1>4 DEF D!Next, D!vars, D!CreateCache, D!Connect, D!FindFirstLevel, D!FollowLoads,
       D!FollowStores
  <2> QED
    BY <1>2, <1>4, <2>1 DEF D!Outcome
<1> QED
  BY <1>3, <1>4

LEMMA DictImplements ==
  DictInv /\ [D!Next]_(D!vars) => [D!W!Next]_<<D!Described, D!Outcome>>
<1> SUFFICES ASSUME DictInv, [D!Next]_(D!vars)
             PROVE  [D!W!Next]_<<D!Described, D!Outcome>>
  OBVIOUS
<1>1. CASE dict_pc' = dict_pc \/ dict_pc' \notin {"raised", "returned"}
  BY <1>1, OtherStepsStutter
<1>2. CASE dict_pc' # dict_pc /\ dict_pc' = "raised"
  <2>1. D!CreateCache \/ D!Connect \/ D!FindFirstLevel
    BY <1>2 DEF D!Next, D!vars, D!FollowLoads, D!FollowStores
  <2> QED
    BY <1>2, <2>1, FailuresReject, RaiseRejects
<1>3. CASE dict_pc' # dict_pc /\ dict_pc' = "returned"
  <2>1. D!FollowStores
    BY <1>3 DEF D!Next, D!vars, D!CreateCache, D!Connect, D!FindFirstLevel, D!FollowLoads
  <2> QED
    BY <1>3, <2>1, ReturnAccepts
<1> QED
  BY <1>1, <1>2, <1>3

\* from_dict links the caches that every dictionary calls for and starts at the
\* one no other refers to, or raises an exception because there is no such
\* hierarchy (cache.py:52-81).
THEOREM DictionaryLinked == D!Spec => D!ImplementsWiring
<1>1. D!Init => D!W!Init
  BY DEF D!Init, D!W!Init, D!Outcome, D!W!Pending
<1> QED
  BY <1>1, DictInitially, DictSteps, DictImplements, PTL
  DEF D!Spec, D!ImplementsWiring, D!W!Spec

-----------------------------------------------------------------------------
LEMMA ReadersReadDict == ReadersSpec => D!Spec
<1>1. ReadersInit => D!Init
  BY DEF ReadersInit
<1>2. [ReadFile \/ ReadDict]_ReadersVars => [D!Next]_(D!vars)
  BY DEF ReadFile, ReadDict, ReadersVars, dictVars, D!vars
<1> QED
  BY <1>1, <1>2, PTL DEF ReadersSpec, D!Spec

\* The variables of from_dict keep their types beside the reader of the file,
\* whatever files and policies are given.
THEOREM ReadersTyped == ReadersSpec => []DictTypeOK
  BY ReadersReadDict, DictTyped, PTL DEF DictTypeOK

\* And its promise holds for the dictionaries of all these files.
THEOREM ReadersLinked == ReadersSpec => DictImplementsWiring
  BY ReadersReadDict, DictionaryLinked, PTL DEF DictImplementsWiring

-----------------------------------------------------------------------------
\* The dictionary is the one of the file, and both invariants hold.
Both == FileInv /\ DictInv /\ \E p \in PolicyChoices[file] : d = AsDict(file, p)

LEMMA RecordValues ==
  ASSUME FileInv, NEW p, d = AsDict(file, p), d # <<>>, pc = "returned"
  PROVE  /\ DOMAIN d = 1..size
         /\ \A i \in 1..size : \A k \in Keys : d[i][k] = Values(file, i)[k]
         /\ \A i, j \in 1..size :
              Values(file, i)["name"] = Values(file, j)["name"] => i = j
<1> DEFINE m == Records(file)
           n == [i \in DOMAIN m |-> m[i].name]
<1>1. d = [i \in DOMAIN m |-> WithPolicies(m[i], p)] /\ IsInjective(n)
  BY DEF AsDict
<1>2. /\ size \in Nat /\ size <= Written(file, Len(file.lines)) /\ size = file.size
      /\ Written(file, Len(file.lines)) \in Nat
  <2>1. TypeOK /\ Enough(file) /\ size >= 1
    BY DEF FileInv, Reading
  <2>2. file \in File /\ size \in Int /\ Len(file.lines) \in Nat /\ size = file.size
    BY <2>1, FileShape DEF size
  <2>3. Written(file, Len(file.lines)) \in Nat
    BY <2>2, WrittenSteps
  <2> QED
    BY <2>1, <2>2, <2>3 DEF Enough
<1>3. DOMAIN m = 1..size /\ \A i \in 1..size : m[i] = Values(file, i)
  BY <1>2 DEF Records
<1> HIDE DEF m
<1>4. ASSUME NEW i \in 1..size, NEW k \in Keys
      PROVE  d[i][k] = Values(file, i)[k]
  <2>1. d[i] = WithPolicies(Values(file, i), p)
    BY <1>1, <1>3
  <2> QED
    BY <2>1 DEF WithPolicies
<1>5. ASSUME NEW i \in 1..size, NEW j \in 1..size,
             Values(file, i)["name"] = Values(file, j)["name"]
      PROVE  i = j
  BY <1>1, <1>3, <1>5 DEF IsInjective
<1> QED
  BY <1>1, <1>3, <1>4, <1>5

\* A name has one cache, and both readers find it.
LEMMA SameLinks ==
  ASSUME Both, pc = "returned", dict_pc = "returned"
  PROVE  /\ size \in Nat /\ DOMAIN d = 1..size
         /\ \A i \in 1..size : \A k \in LinkKeys : links[i][k] = dict_caches[i][k]
         /\ Unlinked = Unreferred
<1>1. PICK p : d = AsDict(file, p)
  BY DEF Both
<1>2. /\ TypeOK /\ size \in Nat /\ Len(caches) = size /\ Len(links) = size
      /\ \A i \in 1..size : Stored(i)
      /\ \A i \in 1..size : \A k \in LinkKeys : Right(i, k)
      /\ \A j \in 1..size : linkcounter[j] = 0 <=>
           \A i \in 1..size : \A k \in LinkKeys : ~Names(i, k, j)
  BY FileShape DEF Both, FileInv, Reading, LinkingFile, Result
<1>3. /\ D!TypeOK /\ Len(dict_caches) = Len(d) /\ setters = 3 * Len(d)
      /\ dict_first_level \in Unreferred
      /\ DOMAIN d = 1..Len(d) /\ Len(d) \in Nat
  BY DictShape DEF Both, DictInv, Started, D!Connected
<1>4. d # <<>>
  BY <1>3 DEF Unreferred
<1>5. /\ DOMAIN d = 1..size
      /\ \A i \in 1..size : \A k \in Keys : d[i][k] = Values(file, i)[k]
      /\ \A i, j \in 1..size : Values(file, i)["name"] = Values(file, j)["name"] => i = j
  BY <1>1, <1>4, RecordValues DEF Both
<1>6. Len(d) = size
  BY <1>2, <1>3, <1>5
<1>7. ASSUME NEW i \in 1..size
      PROVE  /\ caches[i]["name"] = d[i].name /\ d[i].name # 0
             /\ \A k \in LinkKeys : caches[i][k] = d[i][k] /\ d[i][k] \in Nat
  <2>1. \A k \in Keys \ {"subblock_size"} : caches[i][k] = d[i][k]
    BY <1>2, <1>5 DEF Stored
  <2>2. d[i].name # 0 /\ \A k \in D!Keywords : d[i][k] \in Nat
    BY <1>3, <1>5, DictShape
  <2> QED
    BY <2>1, <2>2 DEF Keys, Required, LinkKeys, D!Keywords
<1>8. \A i, j \in 1..size : \A k \in LinkKeys :
        Names(i, k, j) <=> d[i][k] # 0 /\ d[j].name = d[i][k]
  BY <1>7 DEF Names
<1>9. ASSUME NEW i \in 1..size, NEW k \in LinkKeys
      PROVE  links[i][k] = dict_caches[i][k]
  <2>1. k \in D!Keywords
    BY DEF D!Keywords, LinkKeys
  <2>2. PassedSetter(i, k)
    BY <1>2, <1>3, <1>6 DEF PassedSetter, Place
  <2>3. D!Accepted(i, k) /\ Leads(i, k, dict_caches[i][k])
    BY <1>3, <1>6, <2>1, <2>2 DEF Both, DictInv, Linking
  <2>4. Right(i, k)
    BY <1>2
  <2>5. \A j, l \in 1..size : d[j].name = d[l].name => j = l
    BY <1>5, <1>7 DEF Keys, Required
  <2>6. CASE d[i][k] = 0
    BY <1>8, <2>3, <2>4, <2>6 DEF Leads, Right
  <2>7. CASE d[i][k] # 0
    <3>1. dict_caches[i][k] \in 1..size /\ d[dict_caches[i][k]].name = d[i][k]
      BY <1>5, <2>3, <2>7 DEF Leads
    <3>2. Names(i, k, dict_caches[i][k])
      BY <1>8, <2>7, <3>1
    <3>3. links[i][k] \in 1..size /\ Names(i, k, links[i][k])
      BY <2>4, <3>1, <3>2 DEF Right
    <3>4. d[links[i][k]].name = d[i][k]
      BY <1>8, <3>3
    <3> QED
      BY <2>5, <3>1, <3>3, <3>4
  <2> QED
    BY <2>6, <2>7
<1>10. Unlinked = Unreferred
  <2>1. ASSUME NEW j \in 1..size
        PROVE  linkcounter[j] = 0 <=> d[j].name \notin referred_caches
    <3>1. linkcounter[j] = 0 <=> \A i \in 1..size : \A k \in LinkKeys : d[i][k] # d[j].name
      <4>1. d[j].name # 0
        BY <1>7
      <4>2. \A i \in 1..size : \A k \in LinkKeys : Names(i, k, j) <=> d[i][k] = d[j].name
        BY <1>8, <4>1
      <4>3. linkcounter[j] = 0 <=> \A i \in 1..size : \A k \in LinkKeys : ~Names(i, k, j)
        BY <1>2
      <4> QED
        BY <4>2, <4>3
    <3>2. \A x : x \in referred_caches <=>
                   \E i \in 1..size : \E k \in LinkKeys : x = d[i][k]
      BY <1>3, <1>6 DEF Both, DictInv, Collected, D!Keywords, LinkKeys
    <3> QED
      BY <3>1, <3>2
  <2> QED
    BY <1>5, <2>1 DEF Unlinked, Unreferred
<1> QED
  BY <1>2, <1>5, <1>9, <1>10

LEMMA BothAgree == Both => ReadersAgree
<1> SUFFICES ASSUME Both, pc = "returned", dict_pc = "returned"
             PROVE  /\ first_level = dict_first_level
                    /\ \A i \in 1..size : \A k \in LinkKeys : links[i][k] = dict_caches[i][k]
  BY DEF ReadersAgree
<1>1. first_level \in Unlinked /\ Cardinality(Unlinked) = 1
  BY DEF Both, FileInv, Result
<1>2. dict_first_level \in Unlinked
  BY SameLinks DEF Both, DictInv, Started
<1>3. IsFiniteSet(Unlinked)
  <2>1. size \in Nat /\ Unlinked \in SUBSET (1..size)
    BY SameLinks DEF Unlinked
  <2>2. IsFiniteSet(1..size)
    BY <2>1, FS_Interval
  <2> QED
    BY <2>1, <2>2, FS_Subset
<1>4. PICK x : Unlinked = {x}
  BY <1>1, <1>3, FS_Singleton
<1> QED
  BY <1>1, <1>2, <1>4, SameLinks

\* A hierarchy that both readers accept is the same hierarchy: every cache has
\* the same links and both start it at the same cache (backend.c:1361-1433,
\* cache.py:69-83).
THEOREM ReadersSame ==
  (\A f \in Files : Enough(f)) => (ReadersSpec => []ReadersAgree)
<1> SUFFICES ASSUME \A f \in Files : Enough(f)
             PROVE  ReadersSpec => []ReadersAgree
  OBVIOUS
<1>1. ReadersInit => Both
  BY FileInitially, DictInitially DEF ReadersInit, Both
<1>2. Both /\ [ReadFile \/ ReadDict]_ReadersVars => Both'
  <2> SUFFICES ASSUME Both, [ReadFile \/ ReadDict]_ReadersVars PROVE Both'
    OBVIOUS
  <2>1. [Next]_vars /\ [D!Next]_(D!vars)
    BY DEF ReadFile, ReadDict, ReadersVars, dictVars, D!vars
  <2>2. FileInv' /\ DictInv'
    BY <2>1, FileSteps, DictSteps DEF Both
  <2>3. file' = file
    BY <2>1 DEF Next, Step, vars, ReadSize, ReadLine, EndOfFile, ReadToken, ComplainAboutToken,
       EndOfLine, LinkCache, FindFirst
  <2>4. d' = d
    BY <2>1 DEF D!Next, D!vars, D!CreateCache, D!Connect, D!FindFirstLevel, D!FollowLoads,
       D!FollowStores
  <2> QED
    BY <2>2, <2>3, <2>4 DEF Both
<1> QED
  BY <1>1, <1>2, BothAgree, PTL DEF ReadersSpec
=============================================================================
