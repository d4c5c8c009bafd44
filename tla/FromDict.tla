------------------------------- MODULE FromDict -------------------------------
(***************************************************************************)
(* CacheSimulator.from_dict of cachesim/cache.py: all named caches are     *)
(* created, then connected by their setters, and the one no other refers   *)
(* to becomes the first level.  A failed assertion or an unknown name      *)
(* raises an exception and leaves no hierarchy.                            *)
(***************************************************************************)
EXTENDS Naturals, Sequences, FiniteSets

None     == 0   \* a link that is None or not in the configuration
Keywords == {"load_from", "store_to", "victims_to"}

\* A dictionary is the sequence of its items, each with its key as name.
\* Names are positive numbers; sets, ways and cl_size not given are 0, as is a
\* subblock_size of None.
Policies == {"FIFO", "LRU", "MRU", "RR", "unsupported"}
Conf ==
  [name : Nat \ {0}, sets : Nat, ways : Nat, cl_size : Nat, subblock_size : Nat,
   replacement_policy : Policies,
   write_back : BOOLEAN, write_allocate : BOOLEAN, write_combining : BOOLEAN,
   load_from : Nat, store_to : Nat, victims_to : Nat]

\* Any dictionary of that kind may be given.
WellFormed(m) ==
  m \in Seq(Conf) /\ \A i, j \in DOMAIN m : m[i].name = m[j].name => i = j

VARIABLES
  pc,                \* where from_dict stands
  d,                 \* its argument
  caches,            \* the link attributes of the caches created so far
  referred_caches,   \* the names seen as links
  setters,           \* number of setters passed in the second pass
  first_level,
  c,                 \* the cache a loop towards the last level stands at
  last_level_load,
  last_level_store

vars == <<pc, d, caches, referred_caches, setters, first_level, c,
          last_level_load, last_level_store>>

Final == {"returned", "raised"}

Init ==
  /\ pc = "caches"
  /\ WellFormed(d)
  /\ caches = <<>> /\ referred_caches = {}
  /\ setters = 0
  /\ first_level = None /\ c = None
  /\ last_level_load = None /\ last_level_store = None

is_power2(n) == \E k \in 0..n : 2^k = n

\* The required arguments of Cache.__init__, and those of its assertions that
\* do not depend on the links, which are None at that time.
Constructible(conf) ==
  /\ conf.sets # 0 /\ conf.ways # 0
  /\ is_power2(conf.cl_size)
  /\ conf.replacement_policy # "unsupported"
  /\ conf.write_allocate => conf.write_back
  /\ conf.write_combining => conf.write_back /\ ~conf.write_allocate
  /\ conf.subblock_size # 0 => conf.cl_size % conf.subblock_size = 0

Unlinked == [k \in Keywords |-> None]

\* mutant: victim caches are not collected, as the comment on the first level
\* (cache.py:78) has it
CreateCache_NoVictims ==
  LET conf == d[Len(caches) + 1] IN
  /\ pc = "caches" /\ Len(caches) < Len(d)
  /\ IF Constructible(conf)
     THEN /\ caches' = Append(caches, Unlinked)
          /\ referred_caches' = referred_caches \cup {conf.load_from, conf.store_to}
          /\ UNCHANGED pc
     ELSE pc' = "raised" /\ UNCHANGED <<caches, referred_caches>>
  /\ UNCHANGED <<d, setters, first_level, c, last_level_load, last_level_store>>

CreateCache ==
  LET conf == d[Len(caches) + 1] IN
  /\ pc = "caches" /\ Len(caches) < Len(d)
  /\ IF Constructible(conf)
     THEN /\ caches' = Append(caches, Unlinked)
          /\ referred_caches' = referred_caches \cup {conf[k] : k \in Keywords}
          /\ UNCHANGED pc
     ELSE pc' = "raised" /\ UNCHANGED <<caches, referred_caches>>
  /\ UNCHANGED <<d, setters, first_level, c, last_level_load, last_level_store>>

-----------------------------------------------------------------------------
(* The second pass: set_store_to, set_load_from and set_victims_to of every *)
(* cache in turn.                                                           *)

\* mutant: counted from one after the cache itself
Index_Next(name) == (CHOOSE j \in DOMAIN d : d[j].name = name) + 1

Index(name) == CHOOSE j \in DOMAIN d : d[j].name = name

\* What the setter of link k of a cache of width own accepts as a target.
Fits(k, own, target) ==
  IF k = "victims_to" THEN target = own ELSE target <= own

Accepted(i, k) ==
  \/ d[i][k] = None
  \/ \E j \in DOMAIN d : d[j].name = d[i][k] /\ Fits(k, d[i].cl_size, d[j].cl_size)

\* The cache whose setter is called next, and for which link.
Owner   == setters \div 3 + 1
Keyword == <<"store_to", "load_from", "victims_to">>[(setters % 3) + 1]
Connected == Len(caches) = Len(d) /\ setters = 3 * Len(d)

\* mutant: the name is kept instead of the cache it stands for
Connect_Name ==
  /\ pc = "caches" /\ Len(caches) = Len(d) /\ ~Connected
  /\ IF Accepted(Owner, Keyword)
     THEN /\ caches'  = [caches EXCEPT ![Owner][Keyword] = d[Owner][Keyword]]
          /\ setters' = setters + 1
          /\ UNCHANGED pc
     ELSE pc' = "raised" /\ UNCHANGED <<caches, setters>>
  /\ UNCHANGED <<d, referred_caches, first_level, c, last_level_load, last_level_store>>

Connect ==
  /\ pc = "caches" /\ Len(caches) = Len(d) /\ ~Connected
  /\ IF Accepted(Owner, Keyword)
     THEN /\ caches'  = IF d[Owner][Keyword] = None THEN caches
                       ELSE [caches EXCEPT ![Owner][Keyword] = Index(d[Owner][Keyword])]
          /\ setters' = setters + 1
          /\ UNCHANGED pc
     ELSE pc' = "raised" /\ UNCHANGED <<caches, setters>>
  /\ UNCHANGED <<d, referred_caches, first_level, c, last_level_load, last_level_store>>

FindFirstLevel ==
  LET unreferred == {i \in DOMAIN d : d[i].name \notin referred_caches} IN
  /\ pc = "caches" /\ Connected
  /\ IF Cardinality(unreferred) = 1
     THEN /\ first_level' \in unreferred
          /\ c'  = first_level'
          /\ pc' = "last_level_load"
     ELSE pc' = "raised" /\ UNCHANGED <<first_level, c>>
  /\ UNCHANGED <<d, caches, referred_caches, setters, last_level_load, last_level_store>>

-----------------------------------------------------------------------------
(* The loops towards the last levels.  MainMemory and CacheSimulator, which *)
(* are constructed after them, check what the loops have established.       *)

\* mutant: the loop variable is not advanced
FollowLoads_Stays ==
  /\ pc = "last_level_load"
  /\ IF c # None
     THEN last_level_load' = c /\ UNCHANGED <<pc, c>>
     ELSE pc' = "last_level_store" /\ c' = first_level /\ UNCHANGED last_level_load
  /\ UNCHANGED <<d, caches, referred_caches, setters, first_level, last_level_store>>

FollowLoads ==
  /\ pc = "last_level_load"
  /\ IF c # None
     THEN last_level_load' = c /\ c' = caches[c].load_from /\ UNCHANGED pc
     ELSE pc' = "last_level_store" /\ c' = first_level /\ UNCHANGED last_level_load
  /\ UNCHANGED <<d, caches, referred_caches, setters, first_level, last_level_store>>

FollowStores ==
  /\ pc = "last_level_store"
  /\ IF c # None
     THEN last_level_store' = c /\ c' = caches[c].store_to /\ UNCHANGED pc
     ELSE pc' = "returned" /\ UNCHANGED <<c, last_level_store>>
  /\ UNCHANGED <<d, caches, referred_caches, setters, first_level, last_level_load>>

Next == CreateCache \/ Connect \/ FindFirstLevel \/ FollowLoads \/ FollowStores

Spec == Init /\ [][Next]_vars

\* The interpreter runs the function on.
FairSpec == Spec /\ WF_vars(Next)

-----------------------------------------------------------------------------
\* Every variable has its type, and a cache is only linked to one that exists.
TypeOK ==
  /\ pc \in Final \cup {"caches", "last_level_load", "last_level_store"}
  /\ WellFormed(d)
  /\ Len(caches) <= Len(d)
  /\ caches \in Seq([Keywords -> {None} \cup DOMAIN d])
  /\ referred_caches \subseteq Nat
  /\ setters \in 0 .. 3 * Len(d)
  /\ {first_level, c, last_level_load, last_level_store} \subseteq {None} \cup DOMAIN d

Described ==
  [i \in DOMAIN d |->
     [name |-> d[i].name,
      ok   |-> Constructible(d[i]) /\ \A k \in Keywords : Accepted(i, k),
      load_from |-> d[i].load_from, store_to |-> d[i].store_to,
      victims_to |-> d[i].victims_to]]

Outcome ==
  CASE pc = "returned" -> [verdict |-> pc, first |-> first_level, links |-> caches]
    [] pc = "raised"   -> [verdict |-> "rejected"]
    [] OTHER           -> [verdict |-> "pending"]

W == INSTANCE Wiring WITH described <- Described, outcome <- Outcome

\* Cache by cache and setter by setter, from_dict comes to the verdict and the
\* links that the dictionary as a whole calls for (cache.py:52-81).
ImplementsWiring == W!Spec

\* No set of caches of the dictionary links only within itself.
Acyclic ==
  \A S \in (SUBSET DOMAIN d) \ {{}} :
    \E i \in S : \A k \in Keywords : d[i][k] \notin {d[j].name : j \in S}

\* The loops towards main memory end if the links of the dictionary do
\* (cache.py:84-93); nothing in from_dict looks for links that come back.
Finishes == (pc = "caches" /\ Acyclic) ~> pc \in Final
=============================================================================
