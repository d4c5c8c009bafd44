-------------------------------- MODULE Wiring --------------------------------
(***************************************************************************)
(* What reading a description of a hierarchy promises, whichever way it is *)
(* described: the caches are linked by name and the only cache that no     *)
(* other refers to becomes the first level, or the description is turned   *)
(* down.  If several caches have a name, any of them may be linked by it.  *)
(***************************************************************************)
EXTENDS Naturals, Sequences, FiniteSets

VARIABLES
  described,  \* sequence of [name, ok, load_from, store_to, victims_to]
  outcome     \* Pending, Rejected, or the first level and the links

LinkKeys == {"load_from", "store_to", "victims_to"}

Pending  == [verdict |-> "pending"]
Rejected == [verdict |-> "rejected"]

Called(d, name) == {j \in DOMAIN d : d[j].name = name}

\* What a link by that name may lead to, 0 for no cache.
Targets(d, name) == IF Called(d, name) = {} THEN {0} ELSE Called(d, name)

LinksOf(d) ==
  {links \in [DOMAIN d -> [LinkKeys -> DOMAIN d \cup {0}]] :
     \A i \in DOMAIN d : \A k \in LinkKeys : links[i][k] \in Targets(d, d[i][k])}

Roots(d) ==
  {j \in DOMAIN d : \A i \in DOMAIN d : \A k \in LinkKeys : d[i][k] # d[j].name}

Acceptable(d) == Cardinality(Roots(d)) = 1 /\ \A i \in DOMAIN d : d[i].ok

Init == outcome = Pending

Accept ==
  /\ outcome = Pending /\ Acceptable(described)
  /\ outcome' \in [verdict : {"returned"}, first : Roots(described), links : LinksOf(described)]
  /\ UNCHANGED described

Reject ==
  /\ outcome = Pending /\ ~Acceptable(described)
  /\ outcome' = Rejected
  /\ UNCHANGED described

Next == Accept \/ Reject

Spec == Init /\ [][Next]_<<described, outcome>>
=============================================================================
