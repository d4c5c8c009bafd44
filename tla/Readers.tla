-------------------------------- MODULE Readers --------------------------------
(***************************************************************************)
(* The two ways to describe a hierarchy, side by side: the same caches     *)
(* once in a cache definition file, read by the C API, and once in a       *)
(* dictionary for from_dict.  The two functions share nothing and are      *)
(* called one after the other.                                             *)
(***************************************************************************)
EXTENDS ConfigFile, Functions

CONSTANT PolicyChoices  \* [file -> the policies its dictionary may give to the caches]

\* The definition file f as a dictionary, its caches in the same order.  The
\* policies are keys of the file that its reader does not check.  A dictionary
\* has each name once, so only such files can be written as one; for others the
\* dictionary is empty.
Records(f) ==
  LET n == Written(f, Len(f.lines)) IN
  [i \in 1..(IF f.size < n THEN f.size ELSE n) |-> Values(f, i)]

WithPolicies(v, policies) ==
  [k \in Keys \cup DOMAIN policies |-> IF k \in Keys THEN v[k] ELSE policies[k]]

AsDict(f, policies) ==
  LET m == Records(f)
      n == [i \in DOMAIN m |-> m[i].name]
  IN  IF Faultless(f) /\ IsInjective(n) /\ 0 \notin Range(n)
      THEN [i \in DOMAIN m |-> WithPolicies(m[i], policies)] ELSE <<>>

VARIABLES dict_pc, d, dict_caches, referred_caches, setters, dict_first_level,
          c, last_level_load, last_level_store

dictVars == <<dict_pc, d, dict_caches, referred_caches, setters, dict_first_level,
              c, last_level_load, last_level_store>>

D == INSTANCE FromDict WITH
       pc <- dict_pc, caches <- dict_caches, first_level <- dict_first_level

ReadersInit ==
  /\ Init
  /\ \E p \in PolicyChoices[file] : d = AsDict(file, p)
  /\ D!Init

ReadFile == Next /\ UNCHANGED dictVars

ReadDict == pc \in Final /\ D!Next /\ UNCHANGED vars

ReadersVars == <<vars, dictVars>>

\* Each function runs until it returns, raises or exits.
ReadersSpec ==
  /\ ReadersInit /\ [][ReadFile \/ ReadDict]_ReadersVars
  /\ WF_ReadersVars(ReadFile) /\ WF_ReadersVars(ReadDict)

-----------------------------------------------------------------------------
\* The dictionary's side: types, the promise of Wiring, and termination for
\* links that do not come back to where they started (cache.py:48-98).
DictTypeOK           == D!TypeOK
DictImplementsWiring == D!ImplementsWiring
DictFinishes         == (pc \in Final /\ D!Acyclic) ~> dict_pc \in D!Final

\* A hierarchy that both accept is the same hierarchy: the caches the file
\* links by searching all names (backend.c:1361-1388) are those the setters
\* connect (cache.py:69-75), and both start it at the same cache.
ReadersAgree ==
  pc = "returned" /\ dict_pc = "returned" =>
    /\ first_level = dict_first_level
    /\ \A i \in 1..size : \A k \in LinkKeys : links[i][k] = dict_caches[i][k]

\* "cl_size may only increase towards main memory." (cache.py:298, 300, 348,
\* 357): no cache of a hierarchy that from_dict returns refers to a narrower
\* one.
LineSizesIncrease ==
  dict_pc = "returned" =>
    \A i \in DOMAIN d : \A k \in {"load_from", "store_to"} :
      dict_caches[i][k] # 0 => d[i].cl_size <= d[dict_caches[i][k]].cl_size
=============================================================================
