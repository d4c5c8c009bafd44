------------------------------- MODULE MCRequests -------------------------------
(***************************************************************************)
(* Lists for TLC: of zero to two items and up to three addresses, with an  *)
(* address that can not be converted, a faulty item or an iterator that    *)
(* breaks off at every place.                                              *)
(***************************************************************************)
EXTENDS Requests, MCHierarchy

R0      == [addr |-> 0, length |-> 2]
R2      == [addr |-> 2, length |-> 2]
RStray  == [addr |-> 4, length |-> 2]

Pair(loads, stores) == [loads |-> loads, stores |-> stores, valid |-> "all", breaks |-> {}]
Faulty(item, upTo)  == [item EXCEPT !.valid = upTo]
Broken(item, part)  == [item EXCEPT !.breaks = {part}]

\* load and store of one address or a list, and None.
Plain == {<<>>} \cup {<<Pair(l, <<>>)>> : l \in {<<R0>>, <<R2>>, <<R0, R2>>, <<RStray, R0>>}}
                \cup {<<Pair(<<>>, s)>> : s \in {<<R0>>, <<R2>>, <<R2, RStray>>}}
                \cup {<<Broken(Pair(<<R0>>, <<>>), "loads")>>}

\* loadstore.
Mixed == {<<Pair(<<R0>>, <<R2>>), Pair(<<>>, <<R0>>)>>,
          <<Pair(<<R2>>, <<R2>>), Faulty(Pair(<<>>, <<>>), "none")>>,
          <<Faulty(Pair(<<R0>>, <<>>), "loads"), Pair(<<>>, <<R2>>)>>,
          <<Pair(<<RStray>>, <<R0>>), Faulty(Pair(<<R2>>, <<>>), "loads")>>,
          <<Broken(Pair(<<>>, <<R2>>), "loads"), Broken(Pair(<<R2>>, <<R0>>), "stores")>>}

SmallRequests == Plain \cup Mixed
=============================================================================
