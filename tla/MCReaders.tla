----------------------------- MODULE MCReaders -----------------------------
(***************************************************************************)
(* Descriptions of hierarchies for TLC: one to three caches named 1, 2 and *)
(* 3, linked in every way that leads from smaller to greater names, and    *)
(* in ways that come back; lines of several widths; and files with the     *)
(* mistakes the parser looks for.                                          *)
(***************************************************************************)
EXTENDS Readers

T(k, v) == [key |-> k, value |-> v]

Basic(n) == <<T("name", n), T("sets", 2), T("ways", 1), T("cl_size", 2)>>

LinkTokens(l) ==
  LET Opt(k) == IF l[k] = 0 THEN <<>> ELSE <<T(k, l[k])>>
  IN  Opt("load_from") \o Opt("store_to") \o Opt("victims_to")

Uniform(S)  == {[k \in LinkKeys |-> n] : n \in S}
Wirings(S)  == [LinkKeys -> S \cup {0}]
CacheLine(n, l) == Basic(n) \o LinkTokens(l)

\* Three levels linked towards greater names, written down in two orders,
\* with an empty line, and once with a line more than announced.
Upwards ==
  {[size |-> 3, lines |-> <<CacheLine(1, l), <<>>, CacheLine(2, m), CacheLine(3, z)>>] :
     l \in Wirings({2, 3}), m \in Wirings({3}), z \in Wirings({})}
Shuffled ==
  {[f EXCEPT !.lines = <<<<>>, @[4], @[1], @[3], Basic(4)>>] : f \in Upwards}

\* Lines that are not sane, keys given twice, unknown keys, 0 to 2 levels.
Odd ==
  {[size |-> n, lines |-> <<CacheLine(1, [k \in LinkKeys |-> 2]) \o t, u \o Basic(2)>>] :
     n \in 0..2,
     t \in {<<>>, <<T("name", 3)>>, <<T("cl_size", 3)>>, <<T("subblock_size", 4)>>,
            <<T("other", 1)>>, <<T("load_from", 1), T("load_from", 2)>>},
     u \in {<<>>, <<T("sets", 0)>>, <<T("other", 2), T("name", 1)>>}}
  \cup {[size |-> 2, lines |-> <<<<T("name", 1), T("sets", 0)>>, Basic(2)>>]}

\* Two levels with lines of the same and of different widths.
Widths ==
  {[size |-> 2, lines |-> <<CacheLine(1, l) \o <<T("cl_size", a)>>,
                            Basic(2) \o <<T("cl_size", b)>>>>] :
     l \in Wirings({2}), a, b \in {1, 2, 4}}

\* Links among the second and third level that come back, also along
\* victims_to only or without a link from the first level, and links to caches
\* that do not exist.
Cyclic ==
  {[size |-> 3, lines |-> <<CacheLine(1, l), CacheLine(2, m), CacheLine(3, z)>>] :
     l \in Uniform({0, 2}) \cup {[k \in LinkKeys |-> IF k = "store_to" THEN 3 ELSE 2]},
     m \in Wirings({3}), z \in Wirings({2})}
Dangling ==
  {[size |-> 2, lines |-> <<CacheLine(1, l), CacheLine(2, m)>>] :
     l \in Wirings({2, 4}), m \in Wirings({4})}

\* Two caches of one name.
Twins ==
  {[size |-> 3, lines |-> <<CacheLine(1, l), CacheLine(2, m), CacheLine(n, z)>>] :
     l \in Wirings({2}), m \in Uniform({0, 1}), n \in {1, 2}, z \in Uniform({0, 2})}

Policy(policy, back, allocate, combining) ==
  [replacement_policy |-> policy, write_back |-> back,
   write_allocate |-> allocate, write_combining |-> combining]

\* The default policies of Cache.__init__, and for some files also choices it
\* turns down.
Default == Policy("LRU", TRUE, TRUE, FALSE)
Strange == {Policy("unsupported", TRUE, TRUE, FALSE), Policy("LRU", FALSE, TRUE, FALSE),
            Policy("LRU", TRUE, FALSE, TRUE), Policy("FIFO", TRUE, TRUE, TRUE)}

\* A token without a value: the line ends in a comma.
CommaFiles == {[size |-> 1, lines |-> <<Append(Basic(1), T("other", NoValue))>>]}

AllFiles == Upwards \cup Shuffled \cup Odd \cup Widths \cup Cyclic \cup Dangling \cup Twins \cup CommaFiles

SomePolicies  == [f \in File |-> {Default} \cup (IF f \in Widths \ Odd THEN Strange ELSE {})]
DefaultWidths == [f \in Widths |-> {Default}]
DefaultComma  == [f \in CommaFiles |-> {Default}]
=============================================================================
