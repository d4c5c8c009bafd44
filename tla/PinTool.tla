-------------------------------- MODULE PinTool --------------------------------
(***************************************************************************)
(* The Pin tool of pintool/cachesim_itf.cpp: the memory accesses of a      *)
(* marked region of a program are sent to the cache simulator.  By default *)
(* the instructions with an address between the two marker calls are       *)
(* instrumented; with -follow_calls all instructions are, and a flag that  *)
(* the marker calls switch tells whether to count.                         *)
(*                                                                         *)
(* The instrumented program and Pin are external: a program is a sequence  *)
(* of instructions, and Pin runs the inserted calls before the instruction *)
(* they belong to, in the order of their insertion.  The simulator is seen *)
(* through the access counters of its first level.                         *)
(***************************************************************************)
EXTENDS Integers, Sequences, FiniteSets

CONSTANTS
  Programs,  \* the programs that may be instrumented
  Threads,   \* the threads of the program, 1 is the main thread
  MaxSteps   \* bound on the number of instructions executed

\* What an instruction does: memory operands are read or written, by a call
\* and a return on the stack; a compare reads two operands, a gather a number of
\* elements, here two.
Kinds ==
  {"plain", "read", "write", "update", "compare", "gather", "call", "ret", "jump", "exit"}

\* start and stop are the addresses of the functions of pinMarker.h, 0 if the
\* symbol is missing, markers those of their bodies; entries are the addresses
\* the threads start at, 0 if there is no such thread.
Program ==
  [code : Seq([kind : Kinds, target : Nat]), start : Nat, stop : Nat,
   markers : SUBSET Nat, entries : [Threads -> Nat]]

ASSUME PinAssumption ==
  /\ 1 \in Threads
  /\ Programs \subseteq Program
  /\ \A p \in Programs : \A t \in Threads : p.entries[t] \in {0} \cup DOMAIN p.code
  /\ MaxSteps \in Nat

\* Control does not run out of the code.
Complete(p) ==
  \A a \in DOMAIN p.code :
    /\ p.code[a].kind \in {"call", "jump"} => p.code[a].target \in DOMAIN p.code
    /\ p.code[a].kind \notin {"ret", "exit"} => a + 1 \in DOMAIN p.code

\* The functions of pinMarker.h write a variable and return.
MarkersReturn(p) ==
  /\ p.start # 0 => p.start \in p.markers
  /\ \A a \in p.markers \cap DOMAIN p.code :
       \/ p.code[a].kind = "ret"
       \/ p.code[a].kind \in {"plain", "read", "write", "update"} /\ a + 1 \in p.markers

ASSUME CodeAssumption == \A p \in Programs : Complete(p) /\ MarkersReturn(p)

VARIABLES
  pc,        \* of the tool: loading, running, exit (on an error), fini
  program,
  follow,    \* KnobFollowCalls
  startIns,  \* address of the call to the start function
  stopIns,   \* address of the call to the stop function
  active,    \* _pinMarker_active, the copy of the tool
  at,        \* [thread -> address of its instruction, 0 when it has ended]
  stage,     \* [thread -> what comes next before that instruction is executed]
  returns,   \* [thread -> its return addresses, the latest last]
  seen,      \* [thread -> the value of the counter it is about to increment]
  LOAD,      \* firstLevel->LOAD.count
  STORE,     \* firstLevel->STORE.count
  inside,    \* history: [thread -> its flow is inside the marked region]
  marked,    \* history: accesses of flows inside the region
  between,   \* history: those that are not made by the markers themselves
  steps      \* number of instructions executed

flowVars  == <<at, stage, returns>>
countVars == <<seen, LOAD, STORE>>
history   == <<inside, marked, between, steps>>
toolVars  == <<program, follow, startIns, stopIns>>
vars == <<pc, toolVars, active, flowVars, countVars, history>>

code == program.code

\* The accesses the instruction at address a makes, whatever the tool does.
Reads(a) ==
  CASE code[a].kind \in {"read", "update", "ret"} -> 1
    [] code[a].kind \in {"compare", "gather"} -> 2
    [] OTHER -> 0

Writes(a) == IF code[a].kind \in {"write", "update", "call"} THEN 1 ELSE 0

\* What Pin tells of it: a gather is no standard memory operation.
IsMemoryRead(a)    == Reads(a) > 0
IsMemoryWrite(a)   == Writes(a) > 0
IsStandardMemop(a) == code[a].kind # "gather"

\* Direct control flow to the function at address f.
CallsTo(f) == {a \in DOMAIN code : code[a].kind \in {"call", "jump"} /\ code[a].target = f}

StartCalls == CallsTo(program.start)
StopCalls  == CallsTo(program.stop)

NoAccesses == [reads |-> 0, writes |-> 0]

Init ==
  /\ pc = "loading"
  /\ program \in Programs
  /\ follow \in BOOLEAN
  /\ startIns = 0 /\ stopIns = 0
  /\ active = FALSE
  /\ at = program.entries
  /\ stage = [t \in Threads |-> "marker"]
  /\ returns = [t \in Threads |-> <<>>]
  /\ seen = [t \in Threads |-> 0]
  /\ LOAD = 0 /\ STORE = 0
  /\ inside = [t \in Threads |-> at[t] \in StartCalls \ StopCalls]
  /\ marked = NoAccesses /\ between = NoAccesses
  /\ steps = 0

-----------------------------------------------------------------------------
(* Pin's callbacks before the program runs. *)

OneRegion == Cardinality(StartCalls) = 1 /\ Cardinality(StopCalls) = 1

\* The markers are looked up among the symbols, and their calls are counted.
\* The address of a call is kept only if calls are not followed.
ImageLoad ==
  /\ pc = "loading"
  /\ IF program.start # 0 /\ program.stop # 0 /\ OneRegion
     THEN pc' = "running" ELSE pc' = "exit"
  /\ IF pc' = "running" /\ ~follow
     THEN startIns' \in StartCalls /\ stopIns' \in StopCalls
     ELSE UNCHANGED <<startIns, stopIns>>
  /\ UNCHANGED <<program, follow, active, flowVars, countVars, history>>

\* mutant: the call to the start function is taken for a part of the region
Instrumented_FromCall(a) == follow \/ (startIns <= a /\ a < stopIns)

\* What Instruction decides for the instruction at address a: whether it inserts
\* calls, and which.  It is one call for all reads of an instruction.
Instrumented(a) == follow \/ (startIns < a /\ a < stopIns)

ReadCall(a)  == IsMemoryRead(a) /\ IsStandardMemop(a)
WriteCall(a) == IsMemoryWrite(a)

-----------------------------------------------------------------------------
(* The calls that are inserted before an instruction, stage by stage. *)

Ready(t, s) == pc = "running" /\ at[t] # 0 /\ stage[t] = s

Enter(t, s) == stage' = [stage EXCEPT ![t] = s]

\* mutant: the stop function is not looked for
Marker_NoStop(t) ==
  /\ Ready(t, "marker")
  /\ active' = IF follow /\ at[t] \in StartCalls THEN TRUE ELSE active
  /\ Enter(t, "read")
  /\ UNCHANGED <<pc, toolVars, at, returns, countVars, history>>

\* activate and deactivate, inserted when the image is loaded and thus first.
Marker(t) ==
  /\ Ready(t, "marker")
  /\ active' = IF follow THEN at[t] \notin StopCalls /\ (at[t] \in StartCalls \/ active)
                         ELSE active
  /\ Enter(t, "read")
  /\ UNCHANGED <<pc, toolVars, at, returns, countVars, history>>

\* mutant: the call is inserted whatever the flag
Counts_NoCheck(t) == Instrumented(at[t])

\* An access is counted if its instruction is instrumented and, in the calls
\* with a check, if the flag is set at this moment.
Counts(t) == Instrumented(at[t]) /\ (follow => active)

\* MemRead or MemRead_check up to the load of the counter in Cache__load, or
\* no call at all.
MemRead(t) ==
  /\ Ready(t, "read")
  /\ IF ReadCall(at[t]) /\ Counts(t)
     THEN Enter(t, "reading") /\ seen' = [seen EXCEPT ![t] = LOAD]
     ELSE Enter(t, "write") /\ UNCHANGED seen
  /\ UNCHANGED <<pc, toolVars, active, at, returns, LOAD, STORE, history>>

\* mutant: the counter is taken down
MemReadDone_Down(t) ==
  /\ Ready(t, "reading")
  /\ LOAD' = seen[t] - 1
  /\ Enter(t, "write")
  /\ UNCHANGED <<pc, toolVars, active, at, returns, seen, STORE, history>>

MemReadDone(t) ==
  /\ Ready(t, "reading")
  /\ LOAD' = seen[t] + 1
  /\ Enter(t, "write")
  /\ UNCHANGED <<pc, toolVars, active, at, returns, seen, STORE, history>>

MemWrite(t) ==
  /\ Ready(t, "write")
  /\ IF WriteCall(at[t]) /\ Counts(t)
     THEN Enter(t, "writing") /\ seen' = [seen EXCEPT ![t] = STORE]
     ELSE Enter(t, "execute") /\ UNCHANGED seen
  /\ UNCHANGED <<pc, toolVars, active, at, returns, LOAD, STORE, history>>

MemWriteDone(t) ==
  /\ Ready(t, "writing")
  /\ STORE' = seen[t] + 1
  /\ Enter(t, "execute")
  /\ UNCHANGED <<pc, toolVars, active, at, returns, seen, LOAD, history>>

-----------------------------------------------------------------------------
(* The program itself. *)

\* Where the flow of thread t may go from its instruction.
Flows(t) ==
  LET a == at[t]
      r == returns[t]
  IN  CASE code[a].kind = "call" -> {[at |-> code[a].target, returns |-> Append(r, a + 1)]}
        [] code[a].kind = "ret"  ->
             {IF r = <<>> THEN [at |-> 0, returns |-> r]
              ELSE [at |-> r[Len(r)], returns |-> SubSeq(r, 1, Len(r) - 1)]}
        [] code[a].kind = "jump" -> {[at |-> b, returns |-> r] : b \in {code[a].target, a + 1}}
        [] code[a].kind = "exit" -> {[at |-> 0, returns |-> r]}
        [] OTHER -> {[at |-> a + 1, returns |-> r]}

Plus(n, a) == [reads |-> n.reads + Reads(a), writes |-> n.writes + Writes(a)]

Execute(t) ==
  /\ Ready(t, "execute") /\ steps < MaxSteps
  /\ \E f \in Flows(t) :
       /\ at'      = [at EXCEPT ![t] = f.at]
       /\ returns' = [returns EXCEPT ![t] = f.returns]
       /\ inside'  = [inside EXCEPT ![t] = \/ f.at \in StartCalls \ StopCalls
                                           \/ f.at \notin StopCalls /\ @]
  /\ Enter(t, "marker")
  /\ marked'  = IF inside[t] THEN Plus(marked, at[t]) ELSE marked
  /\ between' = IF inside[t] /\ at[t] \notin program.markers \cup StartCalls
                THEN Plus(between, at[t]) ELSE between
  /\ steps' = steps + 1
  /\ UNCHANGED <<pc, toolVars, active, countVars>>

\* The main thread has ended; what the others do is not waited for.
Fini ==
  /\ pc = "running" /\ at[1] = 0
  /\ pc' = "fini"
  /\ UNCHANGED <<toolVars, active, flowVars, countVars, history>>

Callback(t) == Marker(t) \/ MemRead(t) \/ MemReadDone(t) \/ MemWrite(t) \/ MemWriteDone(t)

Next == ImageLoad \/ Fini \/ \E t \in Threads : Callback(t) \/ Execute(t)

Spec == Init /\ [][Next]_vars

-----------------------------------------------------------------------------
Stages == {"marker", "read", "reading", "write", "writing", "execute"}

\* Every variable has its type.
TypeOK ==
  /\ pc \in {"loading", "running", "exit", "fini"}
  /\ program \in Program
  /\ {follow, active} \subseteq BOOLEAN
  /\ {startIns, stopIns} \subseteq {0} \cup DOMAIN code
  /\ at \in [Threads -> {0} \cup DOMAIN code]
  /\ stage \in [Threads -> Stages]
  /\ returns \in [Threads -> Seq(DOMAIN code)]
  /\ seen \in [Threads -> Nat]
  /\ LOAD \in Nat /\ STORE \in Nat
  /\ inside \in [Threads -> BOOLEAN]
  /\ {marked, between} \subseteq [reads : Nat, writes : Nat]
  /\ steps \in 0..MaxSteps

Alone == \A t \in Threads \ {1} : program.entries[t] = 0

\* Nothing has been done yet for the instruction of thread t.
AtRest(t) == stage[t] = "marker"

\* No instruction reads more than one operand of memory, or gathers.
SingleReads == \A a \in DOMAIN code : code[a].kind \notin {"compare", "gather"}

\* "only instructions happening when the program flow is inside the marked
\* region are counted" (pintool/README.md:51): with -follow_calls the counters
\* of a program of one thread have all writes its flow makes from the call to
\* the start function to the call to the stop function, wherever it goes, and
\* nothing but reads it makes there; all of them if its instructions read one
\* operand at most (the tool leaves out gathers and second operands).
FollowCountsMarked ==
  pc \in {"running", "fini"} /\ follow /\ Alone /\ AtRest(1) =>
    /\ STORE = marked.writes /\ LOAD <= marked.reads
    /\ SingleReads => LOAD = marked.reads

\* The addresses between the marker calls are entered through the start call
\* and left through the stop call only.
Closed ==
  LET Region == {a \in DOMAIN code : startIns < a /\ a < stopIns}
      Leads(a) == IF code[a].kind \in {"call", "jump"} THEN {code[a].target} ELSE {}
  IN  /\ startIns < stopIns
      /\ code[startIns].kind = "call" /\ code[stopIns].kind = "call"
      /\ \A a \in Region : /\ code[a].kind \notin {"call", "ret", "exit"}
                           /\ Leads(a) \subseteq Region \cup {stopIns}
      /\ \A a \in DOMAIN code \ Region : Leads(a) \cap Region = {}
      /\ program.entries[1] \notin Region
      /\ program.markers \cap Region = {}

\* By default the tool goes by addresses (cachesim_itf.cpp:182).  If the region
\* is closed it counts all writes between the two calls, in the order of the
\* flow and not of the addresses, however often it is entered, and nothing but
\* reads made there; all of them if instructions read one operand at most.
DefaultCountsBetween ==
  pc \in {"running", "fini"} /\ ~follow /\ Alone /\ AtRest(1) /\ Closed =>
    /\ STORE = between.writes /\ LOAD <= between.reads
    /\ SingleReads => LOAD = between.reads

\* The flag is shared by all threads (cachesim_itf.cpp:31-41), and its check and
\* the access are two steps.  Still, it is set only while some thread is inside
\* the region or on its way out of it.
FlagFollowsFlow ==
  follow /\ active =>
    \E t \in Threads : inside[t] \/ (at[t] \in StopCalls /\ AtRest(t))
=============================================================================
