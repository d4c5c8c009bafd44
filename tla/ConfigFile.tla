------------------------------ MODULE ConfigFile ------------------------------
(***************************************************************************)
(* get_cacheSim_from_file of cachesim/backend.c: the caches of the C API   *)
(* are read from a file, a line for each, then linked by name, and the one *)
(* no other cache refers to is returned as the first level.                *)
(*                                                                         *)
(* Names and numbers are naturals, 0 is what calloc and memset leave       *)
(* behind: a missing name, a number not given, a NULL link.                *)
(***************************************************************************)
EXTENDS Integers, Sequences, FiniteSets

CONSTANTS
  Files,    \* the files that may be given: [size, lines]
  Numbers   \* what a key may be given as its value

LinkKeys == {"load_from", "store_to", "victims_to"}
Required == {"name", "sets", "ways", "cl_size"}
Keys     == LinkKeys \cup Required \cup {"subblock_size"}

\* A token is a key with its value, NoValue if '=' or the value is missing.
\* Keys outside Keys are those the linking does not depend on and unknown
\* ones.  A line without tokens is empty or a comment; one of commas only, at
\* which the code exits, is left out.
NoValue == -1
Token == [key : Keys \cup {"other"}, value : Numbers \cup {NoValue}]
File  == [size : Int, lines : Seq(Seq(Token))]

ASSUME FilesAssumption ==
  /\ Numbers \subseteq Nat
  /\ Files \subseteq File

VARIABLES
  pc,           \* where get_cacheSim_from_file stands
  file,         \* the file it reads
  line,         \* number of lines read after the first
  token,        \* number of tokens of the current line read
  caches,       \* cacheSim and the link name buffers, up to counter
  links,        \* the link fields of the caches, as indices
  linkcounter,  \* how many links lead to each cache
  first_level   \* the result

vars == <<pc, file, line, token, caches, links, linkcounter, first_level>>

size == file.size
Zeroed == [k \in Keys |-> 0]

\* The cache being read is the last of caches; counter is the number of those
\* before it while a line is read.
Current == caches[Len(caches)]
Final   == {"returned", "exit", "undefined"}

Init ==
  /\ pc = "size"
  /\ file \in Files
  /\ line = 0 /\ token = 0
  /\ caches = <<>>
  /\ links = <<>> /\ linkcounter = <<>>
  /\ first_level = 0

ReadSize ==
  /\ pc = "size"
  /\ pc' = IF size < 1 THEN "exit" ELSE "line"
  /\ UNCHANGED <<file, line, token, caches, links, linkcounter, first_level>>

\* A further line is read while there are caches to come.
ReadLine ==
  /\ pc = "line" /\ line < Len(file.lines) /\ Len(caches) # size
  /\ line' = line + 1
  /\ IF file.lines[line + 1] = <<>>
     THEN UNCHANGED <<pc, caches>>
     ELSE pc' = "token" /\ caches' = Append(caches, Zeroed)
  /\ UNCHANGED <<file, token, links, linkcounter, first_level>>

\* With fewer caches than announced the linking loop follows pointers that no
\* one has set.
EndOfFile ==
  /\ pc = "line" /\ (line = Len(file.lines) \/ Len(caches) = size)
  /\ IF Len(caches) < size
     THEN pc' = "undefined" /\ UNCHANGED <<links, linkcounter>>
     ELSE /\ pc' = "link"
          /\ links' = <<>>
          /\ linkcounter' = [j \in 1..size |-> 0]
  /\ UNCHANGED <<file, line, token, caches, first_level>>

Tokens == file.lines[line]

\* mutant: an unknown key is not passed
ReadToken_OtherStays ==
  LET t == Tokens[token + 1] IN
  /\ pc = "token" /\ token < Len(Tokens) /\ t.value # NoValue
  /\ t.key \in Keys
  /\ token'  = token + 1
  /\ caches' = [caches EXCEPT ![Len(caches)][t.key] = t.value]
  /\ UNCHANGED <<pc, file, line, links, linkcounter, first_level>>

ReadToken ==
  LET t == Tokens[token + 1] IN
  /\ pc = "token" /\ token < Len(Tokens) /\ t.value # NoValue
  /\ token'  = token + 1
  /\ caches' = IF t.key \in Keys
               THEN [caches EXCEPT ![Len(caches)][t.key] = t.value] ELSE caches
  /\ UNCHANGED <<pc, file, line, links, linkcounter, first_level>>

\* `continue` goes back to a loop that tests the token it has already tested:
\* nothing changes but the log.
ComplainAboutToken ==
  /\ pc = "token" /\ token < Len(Tokens) /\ Tokens[token + 1].value = NoValue
  /\ UNCHANGED vars

IsPowerOfTwo(n) == n > 0 /\ \E k \in 0..n : 2^k = n

Sane(k) ==
  /\ \A r \in Required : k[r] # 0
  /\ IsPowerOfTwo(k["cl_size"])
  /\ k["subblock_size"] # 0 => k["cl_size"] % k["subblock_size"] = 0

EndOfLine ==
  /\ pc = "token" /\ token = Len(Tokens)
  /\ IF ~Sane(Current)
     THEN pc' = "exit" /\ UNCHANGED caches
     ELSE /\ pc' = "line"
          /\ caches' = [caches EXCEPT ![Len(caches)]["subblock_size"] =
                          IF @ = 0 THEN Current["cl_size"] ELSE @]
  /\ token' = 0
  /\ UNCHANGED <<file, line, links, linkcounter, first_level>>

Named(name) == {j \in 1..size : name # 0 /\ caches[j]["name"] = name}

\* mutant: the position in the file is taken for the name
Linked_ByPosition(name) == name

\* The inner loop runs to its end, so the last cache of that name is linked.
Linked(name) ==
  IF Named(name) = {} THEN 0
  ELSE CHOOSE j \in Named(name) : \A i \in Named(name) : i <= j

\* mutant: victim caches are not counted as linked
Counted_NoVictims(k) ==
  [j \in 1..size |-> linkcounter[j]
     + Cardinality({l \in LinkKeys \ {"victims_to"} : j \in Named(k[l])})]

Counted(k) ==
  [j \in 1..size |-> linkcounter[j] + Cardinality({l \in LinkKeys : j \in Named(k[l])})]

LinkCache ==
  LET k == caches[Len(links) + 1] IN
  /\ pc = "link" /\ Len(links) < size
  /\ links' = Append(links, [l \in LinkKeys |-> Linked(k[l])])
  /\ linkcounter' = Counted(k)
  /\ UNCHANGED <<pc, file, line, token, caches, first_level>>

\* mutant: the first unlinked cache is taken, however many there are
FindFirst_AnyUnlinked ==
  LET unlinked == {j \in 1..size : linkcounter[j] = 0} IN
  /\ pc = "link" /\ Len(links) = size
  /\ IF unlinked = {}
     THEN pc' = "exit" /\ UNCHANGED first_level
     ELSE pc' = "returned" /\ first_level' = CHOOSE j \in unlinked : \A i \in unlinked : j <= i
  /\ UNCHANGED <<file, line, token, caches, links, linkcounter>>

\* Exactly one cache may be without a link that leads to it.
FindFirst ==
  LET unlinked == {j \in 1..size : linkcounter[j] = 0} IN
  /\ pc = "link" /\ Len(links) = size
  /\ IF Cardinality(unlinked) # 1
     THEN pc' = "exit" /\ UNCHANGED first_level
     ELSE pc' = "returned" /\ first_level' \in unlinked
  /\ UNCHANGED <<file, line, token, caches, links, linkcounter>>

Step == \/ ReadSize \/ ReadLine \/ EndOfFile \/ ReadToken \/ ComplainAboutToken
        \/ EndOfLine \/ LinkCache \/ FindFirst

Next == Step

Spec == Init /\ [][Next]_vars

\* The function runs until it returns or exits.
FairSpec == Spec /\ WF_vars(Step)

-----------------------------------------------------------------------------
\* How many of the first n lines describe a cache, the i-th that does, and the
\* value the last token of a line gives to a key.
Written(f, n) == Cardinality({p \in 1..n : f.lines[p] # <<>>})
LineOf(f, i)  ==
  f.lines[CHOOSE p \in DOMAIN f.lines : f.lines[p] # <<>> /\ Written(f, p) = i]
Given(l, k) ==
  LET at == {i \in DOMAIN l : l[i].key = k} IN
  IF at = {} THEN 0 ELSE l[CHOOSE i \in at : \A j \in at : j <= i].value

Values(f, i) == [k \in Keys |-> Given(LineOf(f, i), k)]

Described ==
  [i \in 1..(IF size < 1 THEN 0 ELSE size) |->
     LET v == Values(file, i) IN
     [name |-> v["name"], ok |-> Sane(v), load_from |-> v["load_from"],
      store_to |-> v["store_to"], victims_to |-> v["victims_to"]]]

Outcome ==
  CASE pc = "returned" -> [verdict |-> pc, first |-> first_level, links |-> links]
    [] pc = "exit"     -> [verdict |-> "rejected"]
    [] OTHER           -> [verdict |-> IF pc = "undefined" THEN pc ELSE "pending"]

Faultless(f) ==
  \A i \in DOMAIN f.lines : \A j \in DOMAIN f.lines[i] : f.lines[i][j].value # NoValue

W == INSTANCE Wiring WITH described <- Described, outcome <- Outcome

\* Every variable has its type, and what is being read exists.
TypeOK ==
  /\ pc \in Final \cup {"size", "line", "token", "link"}
  /\ file \in File
  /\ line \in 0..Len(file.lines)
  /\ token \in 0..(IF line = 0 THEN 0 ELSE Len(Tokens))
  /\ caches \in Seq([Keys -> Nat])
  /\ links \in Seq([LinkKeys -> 0..Len(caches)])
  /\ linkcounter \in Seq(Nat)
  /\ first_level \in 0..Len(caches)
  /\ pc \notin {"size", "exit"} => Len(caches) <= size
  /\ pc = "token" => caches # <<>> /\ line > 0

\* The parser, token by token and line by line, comes to the verdict and the
\* links that the description as a whole calls for (backend.c:1128-1433).
ImplementsWiring == W!Spec

\* Every set of caches has one whose links lead out of it.
Acyclic ==
  \A S \in (SUBSET (1..size)) \ {{}} :
    \E i \in S : \A k \in LinkKeys : links[i][k] \notin S

\* "cache that is not first level has no connection! exiting!"
\* (backend.c:1401): all caches of a hierarchy that is returned can be
\* reached from its first level.  The code counts names, so this takes caches
\* with different names whose links do not come back.
Connected ==
  pc = "returned" /\ (\A i \in 1..size : Named(caches[i]["name"]) = {i}) /\ Acyclic =>
    \A S \in SUBSET (1..size) :
      /\ first_level \in S
      /\ \A i \in S : \A k \in LinkKeys : links[i][k] \in S \cup {0}
      => S = 1..size

\* If no token is faulty the function returns or exits.
Finishes == (pc = "size" /\ Faultless(file)) ~> pc \in Final

\* It does so always: a faulty token is reported (backend.c:1197, 1204), as an
\* unknown key is (backend.c:1271), and the reading goes on.
FinishesAlways == <>(pc \in Final)
=============================================================================
