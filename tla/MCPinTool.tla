------------------------------ MODULE MCPinTool ------------------------------
(***************************************************************************)
(* All programs whose main function has so many free places before its     *)
(* end, followed by a function and by the two functions of pinMarker.h.    *)
(***************************************************************************)
EXTENDS PinTool

I(kind)        == [kind |-> kind, target |-> 0]
To(kind, addr) == [kind |-> kind, target |-> addr]

\* The code behind a main function of n places and its exit.
Function(n)    == n + 2
StartMarker(n) == n + 4
StopMarker(n)  == n + 6
Behind         == <<I("exit"), I("update"), I("ret"), I("write"), I("ret"), I("write"), I("ret")>>

Choices(n) ==
  {I("read"), I("write"), I("compare"), I("gather"), To("call", Function(n)),
   To("call", StartMarker(n)), To("call", StopMarker(n)), To("jump", 1), To("jump", 2), To("jump", n)}

Make(body, n, second) ==
  [code |-> body \o Behind, start |-> StartMarker(n), stop |-> StopMarker(n),
   markers |-> StartMarker(n) .. StopMarker(n) + 1,
   entries |-> [t \in Threads |-> IF t = 1 THEN 1 ELSE second]]

Single(n) == {Make(b, n, 0) : b \in [1..n -> Choices(n)]}

\* The second thread runs the main function too, or only the other function.
Both(n) ==
  {Make(b, n, s) : b \in [1..n -> Choices(n) \ {I("compare"), I("gather"), To("jump", n)}],
                   s \in {1, Function(n)}}

Unmarked(n) == {[p EXCEPT !.stop = 0] : p \in {Make(b, n, 0) : b \in [1..n -> {I("read")}]}}

SmallPrograms == Single(4) \cup Both(3) \cup Unmarked(1)
=============================================================================
