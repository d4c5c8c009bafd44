-------------------------------- MODULE Requests --------------------------------
(***************************************************************************)
(* What a user calls: load, store and loadstore of CacheSimulator, which   *)
(* hand one address or a list of them to the Python binding (iterload,     *)
(* iterstore and loadstore of cachesim/backend.c).  The binding goes       *)
(* through the list and calls Cache__load or Cache__store for each         *)
(* address, so an error in the middle finds the work before it done.       *)
(***************************************************************************)
EXTENDS Hierarchy, SequencesExt

CONSTANTS
  Requests,  \* the lists that may be requested
  Stray      \* stands for address -1

\* load and iterload are a single item without stores, store and iterstore one
\* without loads, a None address no item at all.  An item of loadstore may be
\* no pair, or its loads no sequence (valid = "none"), or its stores ("loads").
\* An element that is not a number is converted to -1; the model takes the
\* range Stray for it, whose line no other element touches.  An iterator may raise
\* an exception after the elements it has given: that of the loads or the stores
\* if it is in breaks, that of the list itself in place of an item (valid = "none").
\* Iterators are such as end without touching an exception that is set already,
\* as those of Python's own sequences do.
Item ==
  [loads : Seq(Ranges), stores : Seq(Ranges),
   valid : {"all", "loads", "none"}, breaks : SUBSET {"loads", "stores"}]

ASSUME RequestsAssumption ==
  /\ Requests \subseteq Seq(Item)
  /\ Stray \in Ranges

VARIABLES
  at,       \* where the binding stands, "none" between requests
  items,    \* what is left of the request, the current item first
  failed,   \* an exception is set
  outcome,  \* of the last request
  asked,    \* history: the accesses the list asks for
  done,     \* history: those that were made
  faulty,   \* history: something is wrong with the list
  trouble   \* history: some request raised an exception

requestVars == <<at, items, failed, outcome, asked, done, faulty, trouble>>

Accesses(r) ==
  FlattenSeq([i \in DOMAIN r |->
    [j \in DOMAIN r[i].loads |-> <<"load", r[i].loads[j]>>] \o
    [j \in DOMAIN r[i].stores |-> <<"store", r[i].stores[j]>>]])

NoStray(s) == \A j \in DOMAIN s : s[j] # Stray

\* Nothing is wrong with an item: it is a pair of sequences of addresses.
Faultless(item) ==
  /\ item.valid = "all" /\ item.breaks = {}
  /\ NoStray(item.loads) /\ NoStray(item.stores)

RequestsInit ==
  /\ Init
  /\ at = "none" /\ items = <<>>
  /\ failed = FALSE /\ trouble = FALSE
  /\ outcome = "none"
  /\ asked = <<>> /\ done = <<>> /\ faulty = FALSE

Request(r) ==
  /\ Idle /\ at = "none"
  /\ calls + Len(Accesses(r)) <= MaxCalls
  /\ at' = "item"
  /\ items' = r /\ asked' = Accesses(r) /\ done' = <<>>
  /\ faulty' = \E i \in DOMAIN r : ~Faultless(r[i])
  /\ outcome' = "none"
  /\ UNCHANGED <<vars, failed, trouble>>

Current == items[1]

Raise ==
  /\ at' = "none"
  /\ outcome' = "raised" /\ trouble' = TRUE
  /\ failed' = FALSE /\ items' = <<>>

\* The binding runs on when the access it called has returned.
At(place) == Idle /\ at = place

NextItem ==
  /\ At("item") /\ items # <<>>
  /\ \/ Current.valid = "none" /\ Raise
     \/ Current.valid # "none" /\ at' = "loads" /\ UNCHANGED <<items, failed, outcome, trouble>>
  /\ UNCHANGED <<vars, asked, done, faulty>>

\* mutant: the exception is cleared by the next successful conversion
NextLoad_Forgets ==
  LET range == Head(Current.loads) IN
  /\ At("loads") /\ Current.loads # <<>>
  /\ Load(range)
  /\ failed' = (range = Stray)
  /\ items'  = [items EXCEPT ![1].loads = Tail(@)]
  /\ done'   = Append(done, <<"load", range>>)
  /\ UNCHANGED <<at, outcome, asked, faulty, trouble>>

\* The result of the conversion is not looked at: the exception it may set
\* stays set while the loop goes on.
NextLoad ==
  LET range == Head(Current.loads) IN
  /\ At("loads") /\ Current.loads # <<>>
  /\ Load(range)
  /\ failed' = (failed \/ range = Stray)
  /\ items'  = [items EXCEPT ![1].loads = Tail(@)]
  /\ done'   = Append(done, <<"load", range>>)
  /\ UNCHANGED <<at, outcome, asked, faulty, trouble>>

\* mutant: an iterator that raises an exception is taken for one that has ended
LoadsDone_AnyEnd ==
  /\ At("loads") /\ Current.loads = <<>>
  /\ \/ Current.valid = "loads" /\ Raise
     \/ Current.valid = "all" /\ at' = "stores" /\ UNCHANGED <<items, failed, outcome, trouble>>
  /\ UNCHANGED <<vars, asked, done, faulty>>

\* The loop ends when the iterator gives no element, for whatever reason: the
\* exception of an iterator that broke off stays set, and the stores are next.
LoadsDone ==
  /\ At("loads") /\ Current.loads = <<>>
  /\ \/ Current.valid = "loads" /\ Raise
     \/ /\ Current.valid = "all" /\ at' = "stores"
        /\ failed' = (failed \/ "loads" \in Current.breaks)
        /\ UNCHANGED <<items, outcome, trouble>>
  /\ UNCHANGED <<vars, asked, done, faulty>>

NextStore ==
  LET range == Head(Current.stores) IN
  /\ At("stores") /\ Current.stores # <<>>
  /\ Store(range)
  /\ failed' = (failed \/ range = Stray)
  /\ items'  = [items EXCEPT ![1].stores = Tail(@)]
  /\ done'   = Append(done, <<"store", range>>)
  /\ UNCHANGED <<at, outcome, asked, faulty, trouble>>

\* mutant: the stores of an item are left when the first one is made
StoresDone_Early ==
  /\ At("stores")
  /\ at' = "item" /\ items' = Tail(items)
  /\ UNCHANGED <<vars, failed, outcome, asked, done, faulty, trouble>>

\* mutant: the loop over the items is not gone back to
StoresDone_Stays ==
  /\ At("stores") /\ Current.stores = <<>>
  /\ items' = Tail(items)
  /\ UNCHANGED <<vars, at, failed, outcome, asked, done, faulty, trouble>>

\* mutant: the same item is taken again
StoresDone_Again ==
  /\ At("stores") /\ Current.stores = <<>>
  /\ at' = "item"
  /\ UNCHANGED <<vars, items, failed, outcome, asked, done, faulty, trouble>>

StoresDone ==
  /\ At("stores") /\ Current.stores = <<>>
  /\ at' = "item" /\ items' = Tail(items)
  /\ failed' = (failed \/ "stores" \in Current.breaks)
  /\ UNCHANGED <<vars, outcome, asked, done, faulty, trouble>>

\* A result that is returned while an exception is set is an error as well.
Return ==
  /\ At("item") /\ items = <<>>
  /\ \/ failed /\ Raise
     \/ ~failed /\ at' = "none" /\ outcome' = "returned" /\ UNCHANGED <<items, failed, trouble>>
  /\ UNCHANGED <<vars, asked, done, faulty>>

RequestStep == NextItem \/ NextLoad \/ LoadsDone \/ NextStore \/ StoresDone \/ Return

RequestsNext ==
  \/ \E r \in Requests : Request(r)
  \/ RequestStep
  \/ \E job \in Jobs : at = "none" /\ StartWalk(job) /\ UNCHANGED requestVars
  \/ Step /\ UNCHANGED requestVars

RequestsSpec == RequestsInit /\ [][RequestsNext]_<<vars, requestVars>>

\* A call runs to its end, and then the loop that made it goes on.
RequestsFairSpec ==
  RequestsSpec /\ WF_<<vars, requestVars>>(RequestStep \/ (Step /\ UNCHANGED requestVars))

-----------------------------------------------------------------------------
\* Every variable has its type.
RequestsTypeOK ==
  /\ at \in {"none", "item", "loads", "stores"}
  /\ items \in Seq(Item)
  /\ {failed, faulty, trouble} \subseteq BOOLEAN
  /\ outcome \in {"none", "returned", "raised"}
  /\ {asked, done} \subseteq Seq({"load", "store"} \X Ranges)
  /\ at \in {"loads", "stores"} => items # <<>>

\* "Load and store address in order given." (cache.py:151), the loads of an
\* item before its stores: what has been accessed so far is the beginning of
\* what the list asks for, and all of it if no exception is raised.
AppliedInOrder ==
  /\ IsPrefix(done, asked)
  /\ outcome = "returned" => done = asked

\* An address that could not be converted leaves its trace in the caches, but
\* never without an exception: a user that has seen none can trust the numbers.
StrayOnlyAfterError ==
  (\E c \in Levels : Location(c, ClId(c, Stray.addr)) # -1) => failed \/ trouble

\* A request ends in an exception if and only if something is wrong with its list,
\* wherever that is and whatever is accessed after it: an element that is no
\* number, an iterator that breaks off, an item that is no pair (backend.c:683-763).
ErrorsSurface == outcome # "none" => (outcome = "raised" <=> faulty)

\* Whatever the list holds, the request comes to its end.
RequestsReturn == at # "none" ~> at = "none"
=============================================================================
