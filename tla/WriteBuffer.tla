------------------------------ MODULE WriteBuffer ------------------------------
(***************************************************************************)
(* What a hierarchy of caches promises for stores: it is a buffer in front *)
(* of main memory.  Bytes enter it when they are stored, a cache may round *)
(* them up to whole lines, and they leave it with an access to memory.     *)
(***************************************************************************)
EXTENDS Naturals

VARIABLES
  owed,     \* bytes stored that memory has not received
  pending,  \* bytes in the buffer
  received  \* number of stores memory has received

Init == owed = {} /\ pending = {} /\ received = 0

\* Bytes are stored, or other bytes of their lines become pending with them.
Buffer ==
  /\ owed \subseteq owed' /\ owed' \subseteq owed \cup pending'
  /\ pending \subseteq pending'
  /\ UNCHANGED received

\* Memory receives a store.  No byte leaves the buffer that is still owed; a line
\* that takes the place of the one written back may enter it.
Receive ==
  /\ received' = received + 1
  /\ owed' \subseteq owed
  /\ (pending \ pending') \cap owed' = {}

\* The user asks for everything to be forgotten; after that the buffer empties
\* by itself.
Discard == owed' = {} /\ UNCHANGED <<pending, received>>
Forget  == owed = {} /\ pending' \subseteq pending /\ UNCHANGED <<owed, received>>

\* Counting starts again.
Reset == received' = 0 /\ UNCHANGED <<owed, pending>>

Next == Buffer \/ Receive \/ Discard \/ Forget \/ Reset

Spec == Init /\ [][Next]_<<owed, pending, received>>
=============================================================================
