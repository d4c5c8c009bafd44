------------------------------ MODULE PinToolProofs ------------------------------
(***************************************************************************)
(* What the Pin tool counts in its two modes, and when its flag is set,    *)
(* for every program and any number of instructions.                       *)
(***************************************************************************)
EXTENDS PinTool, FiniteSetTheorems, TLAPS

\* A thread that stands at the call to the start function is inside the region,
\* one that stands at the call to the stop function is not.
FlowOK ==
  /\ inside \in [Threads -> BOOLEAN]
  /\ stage \in [Threads -> Stages]
  /\ at = [t \in Threads |-> at[t]]
  /\ \A t \in Threads : /\ at[t] \in StartCalls \ StopCalls => inside[t]
                        /\ at[t] \in StopCalls => ~inside[t]

LEMMA FlowOKInit == Init => FlowOK
<1> SUFFICES ASSUME Init PROVE FlowOK
  OBVIOUS
<1>1. program \in Program
  BY PinAssumption DEF Init
<1>2. at \in [Threads -> Nat]
  BY <1>1 DEF Init, Program
<1>3. inside = [t \in Threads |-> at[t] \in StartCalls \ StopCalls]
  BY DEF Init
<1>4. inside \in [Threads -> BOOLEAN] /\ stage \in [Threads -> Stages]
  BY <1>3 DEF Init, Stages
<1>5. \A t \in Threads : inside[t] = (at[t] \in StartCalls \ StopCalls)
  BY <1>3
<1> QED
  BY <1>2, <1>4, <1>5 DEF FlowOK

\* The callbacks leave the flow of the program alone.
LEMMA CallbackKeepsFlow ==
  ASSUME FlowOK, NEW t \in Threads, Callback(t)
  PROVE  FlowOK' /\ UNCHANGED <<pc, program, follow, at, inside, marked>>
<1>1. UNCHANGED <<pc, program, follow, at, inside, marked>>
  BY DEF Callback, Marker, MemRead, MemReadDone, MemWrite, MemWriteDone,
         toolVars, history
<1>2. stage' \in [Threads -> Stages]
  BY DEF Callback, Marker, MemRead, MemReadDone, MemWrite, MemWriteDone,
         Enter, FlowOK, Stages
<1> QED
  BY <1>1, <1>2 DEF FlowOK, StartCalls, StopCalls, CallsTo, code

LEMMA ExecuteKeepsFlow ==
  ASSUME FlowOK, NEW t \in Threads, Execute(t)
  PROVE  FlowOK'
<1>1. PICK f \in Flows(t) :
        /\ at' = [at EXCEPT ![t] = f.at]
        /\ inside' = [inside EXCEPT ![t] = \/ f.at \in StartCalls \ StopCalls
                                           \/ f.at \notin StopCalls /\ @]
  BY DEF Execute
<1>2. UNCHANGED program /\ stage' = [stage EXCEPT ![t] = "marker"]
  BY DEF Execute, toolVars, Enter
<1>3. StartCalls' = StartCalls /\ StopCalls' = StopCalls
  BY <1>2 DEF StartCalls, StopCalls, CallsTo, code
<1>4. stage' \in [Threads -> Stages] /\ inside' \in [Threads -> BOOLEAN]
  BY <1>1, <1>2 DEF FlowOK, Stages
<1>5. at' = [u \in Threads |-> at'[u]]
  BY <1>1 DEF FlowOK
<1>6. ASSUME NEW u \in Threads
      PROVE  /\ at'[u] \in StartCalls \ StopCalls => inside'[u]
             /\ at'[u] \in StopCalls => ~inside'[u]
  BY <1>1 DEF FlowOK
<1> QED
  BY <1>3, <1>4, <1>5, <1>6 DEF FlowOK

LEMMA FlowOKNext == FlowOK /\ [Next]_vars => FlowOK'
<1> SUFFICES ASSUME FlowOK, [Next]_vars PROVE FlowOK'
  OBVIOUS
<1>1. CASE ImageLoad \/ Fini
  BY <1>1 DEF ImageLoad, Fini, FlowOK, flowVars, history, toolVars,
              StartCalls, StopCalls, CallsTo, code
<1>2. ASSUME NEW t \in Threads, Callback(t) PROVE FlowOK'
  BY <1>2, CallbackKeepsFlow
<1>3. ASSUME NEW t \in Threads, Execute(t) PROVE FlowOK'
  BY <1>3, ExecuteKeepsFlow
<1>4. CASE UNCHANGED vars
  BY <1>4 DEF vars, FlowOK, flowVars, history, toolVars,
              StartCalls, StopCalls, CallsTo, code
<1> QED
  BY <1>1, <1>2, <1>3, <1>4 DEF Next

-----------------------------------------------------------------------------
(* The flag. *)

LEMMA FlagCallback ==
  ASSUME FlowOK, FlagFollowsFlow, NEW t \in Threads, Callback(t)
  PROVE  FlagFollowsFlow'
<1> SUFFICES ASSUME follow', active'
             PROVE  \E u \in Threads : inside'[u] \/ (at'[u] \in StopCalls' /\ stage'[u] = "marker")
  BY DEF FlagFollowsFlow, AtRest
<1>1. UNCHANGED <<program, follow, at, inside>>
  BY CallbackKeepsFlow
<1>2. StartCalls' = StartCalls /\ StopCalls' = StopCalls
  BY <1>1 DEF StartCalls, StopCalls, CallsTo, code
<1>3. CASE Marker(t)
  <2>1. CASE at[t] \in StopCalls
    BY <1>1, <1>3, <2>1 DEF Marker
  <2>2. CASE at[t] \in StartCalls \ StopCalls
    BY <1>1, <2>2 DEF FlowOK
  <2>3. CASE at[t] \notin StartCalls \cup StopCalls
    <3>1. active' = active /\ stage' = [stage EXCEPT ![t] = "read"]
      BY <1>3, <2>3 DEF Marker, Enter
    <3>2. PICK u \in Threads : inside[u] \/ (at[u] \in StopCalls /\ stage[u] = "marker")
      BY <1>1, <3>1 DEF FlagFollowsFlow, AtRest
    <3> QED
      BY <1>1, <1>2, <2>3, <3>1, <3>2 DEF FlowOK
  <2> QED
    BY <2>1, <2>2, <2>3
<1>4. CASE ~Marker(t)
  <2>1. active' = active /\ stage[t] # "marker"
    BY <1>4 DEF Callback, MemRead, MemReadDone, MemWrite, MemWriteDone, Ready
  <2>2. \E s \in Stages : stage' = [stage EXCEPT ![t] = s]
    BY <1>4 DEF Callback, MemRead, MemReadDone, MemWrite, MemWriteDone, Enter, Stages
  <2>3. PICK u \in Threads : inside[u] \/ (at[u] \in StopCalls /\ stage[u] = "marker")
    BY <1>1, <2>1 DEF FlagFollowsFlow, AtRest
  <2> QED
    BY <1>1, <1>2, <2>1, <2>2, <2>3 DEF FlowOK
<1> QED
  BY <1>3, <1>4

LEMMA FlagExecute ==
  ASSUME FlowOK, FlagFollowsFlow, NEW t \in Threads, Execute(t)
  PROVE  FlagFollowsFlow'
<1> SUFFICES ASSUME follow', active'
             PROVE  \E u \in Threads : inside'[u] \/ (at'[u] \in StopCalls' /\ stage'[u] = "marker")
  BY DEF FlagFollowsFlow, AtRest
<1>1. PICK f \in Flows(t) :
        /\ at' = [at EXCEPT ![t] = f.at]
        /\ inside' = [inside EXCEPT ![t] = \/ f.at \in StartCalls \ StopCalls
                                           \/ f.at \notin StopCalls /\ @]
  BY DEF Execute
<1>2. /\ UNCHANGED <<program, follow, active>>
      /\ stage[t] = "execute" /\ stage' = [stage EXCEPT ![t] = "marker"]
  BY DEF Execute, toolVars, Enter, Ready
<1>3. StopCalls' = StopCalls
  BY <1>2 DEF StopCalls, CallsTo, code
<1>4. PICK u \in Threads : inside[u] \/ (at[u] \in StopCalls /\ stage[u] = "marker")
  BY <1>2 DEF FlagFollowsFlow, AtRest
<1>5. CASE u = t
  <2>1. inside[t]
    BY <1>2, <1>4, <1>5
  <2>2. inside'[t] \/ at'[t] \in StopCalls
    BY <1>1, <2>1 DEF FlowOK
  <2> QED
    BY <1>2, <1>3, <2>2 DEF FlowOK
<1>6. CASE u # t
  BY <1>1, <1>2, <1>3, <1>4, <1>6 DEF FlowOK
<1> QED
  BY <1>5, <1>6

\* With -follow_calls, whatever the program does between the markers and with
\* however many threads: while the flag is set some thread is in the region or
\* about to clear the flag (cachesim_itf.cpp:35-41).
THEOREM FlagNeverStale == Spec => []FlagFollowsFlow
<1>1. Init => FlagFollowsFlow
  BY DEF Init, FlagFollowsFlow
<1>2. FlowOK /\ FlagFollowsFlow /\ [Next]_vars => FlagFollowsFlow'
  <2> SUFFICES ASSUME FlowOK, FlagFollowsFlow, [Next]_vars PROVE FlagFollowsFlow'
    OBVIOUS
  <2>1. CASE ImageLoad \/ Fini \/ UNCHANGED vars
    BY <2>1 DEF ImageLoad, Fini, vars, FlagFollowsFlow, flowVars, history, toolVars,
                StopCalls, CallsTo, code, AtRest
  <2> QED
    BY <2>1, FlagCallback, FlagExecute DEF Next
<1> QED
  BY <1>1, <1>2, FlowOKInit, FlowOKNext, PTL DEF Spec

-----------------------------------------------------------------------------
(* What an instruction does and what is inserted before it. *)

\* An instruction makes at least the accesses the tool inserts calls for, and
\* no others if it reads one operand at most.
LEMMA CallsPerAccess ==
  ASSUME NEW a
  PROVE  /\ Reads(a) \in 0..2 /\ (ReadCall(a) => Reads(a) >= 1)
         /\ Writes(a) = IF WriteCall(a) THEN 1 ELSE 0
         /\ SingleReads /\ a \in DOMAIN code => Reads(a) = IF ReadCall(a) THEN 1 ELSE 0
<1>1. Reads(a) \in 0..2
  BY DEF Reads
<1>2. ReadCall(a) => Reads(a) >= 1
  BY <1>1 DEF ReadCall, IsMemoryRead
<1>3. Writes(a) = IF WriteCall(a) THEN 1 ELSE 0
  BY DEF Writes, WriteCall, IsMemoryWrite
<1>4. ASSUME SingleReads, a \in DOMAIN code
      PROVE  Reads(a) = IF ReadCall(a) THEN 1 ELSE 0
  <2>1. code[a].kind \notin {"compare", "gather"}
    BY <1>4 DEF SingleReads
  <2>2. Reads(a) = IF code[a].kind \in {"read", "update", "ret"} THEN 1 ELSE 0
    BY <2>1 DEF Reads
  <2>3. ReadCall(a) <=> Reads(a) = 1
    BY <2>1, <2>2 DEF ReadCall, IsMemoryRead, IsStandardMemop
  <2> QED
    BY <2>2, <2>3
<1> QED
  BY <1>1, <1>2, <1>3, <1>4

-----------------------------------------------------------------------------
(* The types, for code that control does not run out of. *)

\* Where an instruction leads, by its kind.
LEMMA FlowsByKind ==
  ASSUME NEW t \in Threads, NEW f \in Flows(t)
  PROVE  LET a    == at[t]
             r    == returns[t]
             kind == code[a].kind
         IN  \/ kind = "call" /\ f = [at |-> code[a].target, returns |-> Append(r, a + 1)]
             \/ kind = "ret" /\ f = IF r = <<>> THEN [at |-> 0, returns |-> r]
                  ELSE [at |-> r[Len(r)], returns |-> SubSeq(r, 1, Len(r) - 1)]
             \/ kind = "jump" /\ f \in {[at |-> b, returns |-> r] : b \in {code[a].target, a + 1}}
             \/ kind = "exit" /\ f = [at |-> 0, returns |-> r]
             \/ kind \notin {"call", "ret", "jump", "exit"} /\ f = [at |-> a + 1, returns |-> r]
<1>1. CASE code[at[t]].kind = "call"
  BY <1>1, Zenon DEF Flows
<1>2. CASE code[at[t]].kind = "ret"
  BY <1>2, Zenon DEF Flows
<1>3. CASE code[at[t]].kind = "jump"
  BY <1>3, Zenon DEF Flows
<1>4. CASE code[at[t]].kind = "exit"
  BY <1>4, Zenon DEF Flows
<1>5. CASE code[at[t]].kind \notin {"call", "ret", "jump", "exit"}
  BY <1>5, Zenon DEF Flows
<1> QED
  BY <1>1, <1>2, <1>3, <1>4, <1>5

\* The program never changes, so what is assumed of its code stays.
CodeOK == program \in Program /\ Complete(program) /\ MarkersReturn(program)

PinInv == TypeOK /\ CodeOK

LEMMA FlowsTyped ==
  ASSUME TypeOK, CodeOK, NEW t \in Threads, at[t] # 0, NEW f \in Flows(t)
  PROVE  f.at \in {0} \cup DOMAIN code /\ f.returns \in Seq(DOMAIN code)
<1>1. /\ at[t] \in DOMAIN code /\ returns[t] \in Seq(DOMAIN code)
      /\ DOMAIN code \subseteq Nat
  BY DEF TypeOK, CodeOK, Program, code
<1>2. /\ code[at[t]].kind \in {"call", "jump"} => code[at[t]].target \in DOMAIN code
      /\ code[at[t]].kind \notin {"ret", "exit"} => at[t] + 1 \in DOMAIN code
  BY <1>1 DEF CodeOK, Complete, code
<1> DEFINE D == DOMAIN code
           r == returns[t]
<1>3. CASE code[at[t]].kind = "call"
  <2>1. f = [at |-> code[at[t]].target, returns |-> Append(r, at[t] + 1)]
    BY <1>3, FlowsByKind
  <2>2. at[t] + 1 \in D /\ code[at[t]].target \in D
    BY <1>2, <1>3
  <2> HIDE DEF D
  <2> QED
    BY <1>1, <2>1, <2>2 DEF D
<1>4. CASE code[at[t]].kind = "ret"
  <2>1. f = IF r = <<>> THEN [at |-> 0, returns |-> r]
            ELSE [at |-> r[Len(r)], returns |-> SubSeq(r, 1, Len(r) - 1)]
    BY <1>4, FlowsByKind
  <2>2. r \in Seq(D)
    BY <1>1
  <2> HIDE DEF D, r
  <2>3. CASE r = <<>>
    BY <2>1, <2>2, <2>3 DEF D
  <2>4. CASE r # <<>>
    <3>1. r[Len(r)] \in D /\ SubSeq(r, 1, Len(r) - 1) \in Seq(D)
      BY <2>2, <2>4
    <3> QED
      BY <2>1, <2>4, <3>1 DEF D
  <2> QED
    BY <2>3, <2>4
<1>5. CASE code[at[t]].kind \notin {"call", "ret"}
  <2>1. f.returns = r /\ f.at \in {0} \cup D
    BY <1>2, <1>5, FlowsByKind
  <2> QED
    BY <1>1, <2>1
<1> QED
  BY <1>3, <1>4, <1>5

LEMMA PinInit == Init => PinInv
<1> SUFFICES ASSUME Init PROVE PinInv
  OBVIOUS
<1>1. CodeOK
  BY PinAssumption, CodeAssumption DEF Init, CodeOK
<1>2. at \in [Threads -> {0} \cup DOMAIN code]
  <2>1. program.entries \in [Threads -> Nat]
    BY <1>1 DEF CodeOK, Program
  <2>2. \A t \in Threads : program.entries[t] \in {0} \cup DOMAIN code
    BY PinAssumption DEF Init, code
  <2> QED
    BY <2>1, <2>2 DEF Init
<1>3. inside \in [Threads -> BOOLEAN]
  BY FlowOKInit DEF FlowOK
<1>4. {marked, between} \subseteq [reads : Nat, writes : Nat]
  BY DEF Init, NoAccesses
<1>5. steps \in 0..MaxSteps
  BY PinAssumption DEF Init
<1>6. /\ stage \in [Threads -> Stages] /\ seen \in [Threads -> Nat]
      /\ returns \in [Threads -> Seq(DOMAIN code)]
  BY DEF Init, Stages
<1>7. {follow, active} \subseteq BOOLEAN /\ {startIns, stopIns} \subseteq {0} \cup DOMAIN code
      /\ pc = "loading" /\ LOAD \in Nat /\ STORE \in Nat
  BY DEF Init
<1> QED
  BY <1>1, <1>2, <1>3, <1>4, <1>5, <1>6, <1>7 DEF PinInv, TypeOK, CodeOK

LEMMA PinCallback ==
  ASSUME PinInv, NEW t \in Threads, Callback(t)
  PROVE  PinInv'
<1>1. UNCHANGED <<pc, toolVars, at, returns, history>>
  BY DEF Callback, Marker, MemRead, MemReadDone, MemWrite, MemWriteDone
<1>2. CodeOK' /\ UNCHANGED code
  BY <1>1 DEF PinInv, CodeOK, toolVars, code
<1>3. stage' \in [Threads -> Stages]
  BY DEF Callback, Marker, MemRead, MemReadDone, MemWrite, MemWriteDone,
         Enter, PinInv, TypeOK, Stages
<1>4. active' \in BOOLEAN
  BY DEF Callback, Marker, MemRead, MemReadDone, MemWrite, MemWriteDone, PinInv, TypeOK
<1>5. seen' \in [Threads -> Nat] /\ LOAD' \in Nat /\ STORE' \in Nat
  BY DEF Callback, Marker, MemRead, MemReadDone, MemWrite, MemWriteDone, countVars, PinInv, TypeOK
<1> QED
  BY <1>1, <1>2, <1>3, <1>4, <1>5 DEF PinInv, TypeOK, toolVars, history

LEMMA PinExecute ==
  ASSUME PinInv, NEW t \in Threads, Execute(t)
  PROVE  PinInv'
<1>1. PICK f \in Flows(t) :
        /\ at' = [at EXCEPT ![t] = f.at]
        /\ returns' = [returns EXCEPT ![t] = f.returns]
        /\ inside' = [inside EXCEPT ![t] = \/ f.at \in StartCalls \ StopCalls
                                           \/ f.at \notin StopCalls /\ @]
  BY DEF Execute
<1>2. UNCHANGED <<pc, toolVars, active, countVars>> /\ stage' = [stage EXCEPT ![t] = "marker"]
  BY DEF Execute, Enter
<1>3. CodeOK' /\ UNCHANGED code
  BY <1>2 DEF PinInv, CodeOK, toolVars, code
<1>4. f.at \in {0} \cup DOMAIN code /\ f.returns \in Seq(DOMAIN code)
  BY FlowsTyped DEF Execute, Ready, PinInv
<1>5. at' \in [Threads -> {0} \cup DOMAIN code] /\ returns' \in [Threads -> Seq(DOMAIN code)]
  BY <1>1, <1>4 DEF PinInv, TypeOK
<1>6. inside' \in [Threads -> BOOLEAN] /\ stage' \in [Threads -> Stages]
  BY <1>1, <1>2 DEF PinInv, TypeOK, Stages
<1>7. {marked, between}' \subseteq [reads : Nat, writes : Nat]
  <2>1. \A n \in [reads : Nat, writes : Nat] : Plus(n, at[t]) \in [reads : Nat, writes : Nat]
    BY CallsPerAccess DEF Plus
  <2> QED
    BY <2>1 DEF Execute, PinInv, TypeOK
<1>8. steps' \in 0..MaxSteps
  BY PinAssumption DEF Execute, PinInv, TypeOK
<1> QED
  BY <1>2, <1>3, <1>5, <1>6, <1>7, <1>8 DEF PinInv, TypeOK, toolVars, countVars

LEMMA PinNext == PinInv /\ [Next]_vars => PinInv'
<1> SUFFICES ASSUME PinInv, [Next]_vars PROVE PinInv'
  OBVIOUS
<1>1. CASE ImageLoad
  <2>1. UNCHANGED <<program, follow, active, flowVars, countVars, history>> /\ UNCHANGED code
    BY <1>1 DEF ImageLoad, code
  <2>2. pc' \in {"running", "exit"}
    BY <1>1 DEF ImageLoad
  <2>3. {startIns', stopIns'} \subseteq {0} \cup DOMAIN code
    BY <1>1 DEF ImageLoad, StartCalls, StopCalls, CallsTo, PinInv, TypeOK
  <2> QED
    BY <2>1, <2>2, <2>3 DEF PinInv, TypeOK, CodeOK, flowVars, countVars, history
<1>2. CASE Fini \/ UNCHANGED vars
  <2>1. UNCHANGED <<toolVars, active, flowVars, countVars, history>> /\ UNCHANGED code
    BY <1>2 DEF Fini, vars, toolVars, code
  <2>2. pc' \in {"loading", "running", "exit", "fini"}
    BY <1>2 DEF Fini, vars, PinInv, TypeOK
  <2> QED
    BY <2>1, <2>2 DEF PinInv, TypeOK, CodeOK, toolVars, flowVars, countVars, history
<1> QED
  BY <1>1, <1>2, PinCallback, PinExecute DEF Next

\* Whatever the program calls and jumps to, and with any number of threads, the
\* tool and its program stay within their types (cachesim_itf.cpp:75-216).
THEOREM PinTyped == Spec => []TypeOK
<1>1. PinInv => TypeOK
  BY DEF PinInv
<1> QED
  BY <1>1, PinInit, PinNext, PTL DEF Spec

-----------------------------------------------------------------------------
(* The counters of a program of one thread. *)

\* The accesses of the current instruction that have been counted already.
ReadCounted  == IF stage[1] \in {"write", "writing", "execute"} /\ inside[1] /\ ReadCall(at[1])
                THEN 1 ELSE 0
WriteCounted == IF stage[1] = "execute" /\ inside[1] /\ WriteCall(at[1]) THEN 1 ELSE 0

\* The flag agrees with the flow, except at a marker call that has not been
\* looked at, and the counters are ahead of the executed instructions by what
\* was counted for the current one.
CountsOK ==
  /\ seen = [t \in Threads |-> seen[t]]
  /\ \A t \in Threads \ {1} : at[t] = 0
  /\ active = inside[1] \/ (stage[1] = "marker" /\ at[1] \in StartCalls \cup StopCalls)
  /\ stage[1] = "reading" => inside[1] /\ ReadCall(at[1]) /\ seen[1] = LOAD
  /\ stage[1] = "writing" => inside[1] /\ WriteCall(at[1]) /\ seen[1] = STORE
  /\ marked \in [reads : Nat, writes : Nat]
  /\ LOAD <= marked.reads + ReadCounted
  /\ SingleReads => LOAD = marked.reads + ReadCounted
  /\ STORE = marked.writes + WriteCounted

\* follow and program never change.
FollowInv == follow /\ Alone => CountsOK

LEMMA CountsInit == Init => FollowInv
<1> SUFFICES ASSUME Init, follow, Alone PROVE CountsOK
  BY DEF FollowInv
<1>1. stage[1] = "marker" /\ at = program.entries
  BY PinAssumption DEF Init
<1>2. inside[1] = (at[1] \in StartCalls \ StopCalls) /\ active = FALSE
  BY PinAssumption DEF Init
<1>3. marked \in [reads : Nat, writes : Nat] /\ marked.reads = 0 /\ marked.writes = 0
  BY DEF Init, NoAccesses
<1>4. LOAD = 0 /\ STORE = 0
  BY DEF Init
<1>5. active = inside[1] \/ at[1] \in StartCalls
  <2>1. CASE at[1] \in StartCalls
    BY <2>1
  <2>2. CASE at[1] \notin StartCalls
    <3>1. ~inside[1] /\ inside[1] \in BOOLEAN
      BY <1>2, <2>2, FlowOKInit, PinAssumption DEF FlowOK
    <3> QED
      BY <1>2, <3>1
  <2> QED
    BY <2>1, <2>2
<1>6. seen = [t \in Threads |-> seen[t]]
  BY DEF Init
<1>7. ReadCounted = 0 /\ WriteCounted = 0
  BY <1>1 DEF ReadCounted, WriteCounted
<1>8. \A t \in Threads \ {1} : at[t] = 0
  BY <1>1 DEF Alone
<1> QED
  BY <1>1, <1>3, <1>4, <1>5, <1>6, <1>7, <1>8 DEF CountsOK

LEMMA CountsCallback ==
  ASSUME PinInv, FlowOK, CountsOK, follow, NEW t \in Threads, Callback(t)
  PROVE  CountsOK'
<1>1. t = 1
  BY DEF CountsOK, Callback, Marker, MemRead, MemReadDone, MemWrite, MemWriteDone, Ready
<1>2. UNCHANGED <<program, at, inside, marked>>
  BY CallbackKeepsFlow
<1>3. /\ StartCalls' = StartCalls /\ StopCalls' = StopCalls
      /\ ReadCall(at[1])' = ReadCall(at[1]) /\ WriteCall(at[1])' = WriteCall(at[1])
      /\ SingleReads' = SingleReads
  BY <1>2 DEF StartCalls, StopCalls, CallsTo, ReadCall, WriteCall, IsMemoryRead,
              IsMemoryWrite, IsStandardMemop, Reads, Writes, SingleReads, code
<1>4. \A s \in Stages : Enter(1, s) => stage'[1] = s
  BY PinAssumption DEF Enter, FlowOK
<1>5. seen' = [u \in Threads |-> seen'[u]]
  BY DEF CountsOK, Callback, Marker, MemRead, MemReadDone, MemWrite, MemWriteDone, countVars
<1>6. CASE Marker(1)
  <2>1. stage[1] = "marker" /\ stage'[1] = "read" /\ UNCHANGED <<LOAD, STORE>>
    BY <1>4, <1>6 DEF Marker, Ready, countVars, Stages
  <2>2. active' = (at[1] \notin StopCalls /\ (at[1] \in StartCalls \/ active))
    BY <1>6 DEF Marker
  <2>3. active' = inside[1]
    BY <2>2, PinAssumption DEF CountsOK, FlowOK
  <2> QED
    BY <1>2, <1>3, <1>5, <2>1, <2>3 DEF CountsOK, ReadCounted, WriteCounted
<1>7. CASE MemRead(1)
  <2>1. stage[1] = "read" /\ UNCHANGED <<active, LOAD, STORE>>
    BY <1>7 DEF MemRead, Ready
  <2>2. active = inside[1]
    BY <2>1 DEF CountsOK
  <2>3. Counts(1) = inside[1]
    BY <2>2, PinAssumption DEF Counts, Instrumented, FlowOK
  <2>4. CASE ReadCall(at[1]) /\ inside[1]
    <3>1. stage'[1] = "reading" /\ seen'[1] = LOAD
      BY <1>4, <1>7, <2>3, <2>4, PinAssumption DEF MemRead, Stages, CountsOK
    <3> QED
      BY <1>2, <1>3, <1>5, <2>1, <2>2, <2>4, <3>1 DEF CountsOK, ReadCounted, WriteCounted
  <2>5. CASE ~(ReadCall(at[1]) /\ inside[1])
    <3>1. stage'[1] = "write"
      BY <1>4, <1>7, <2>3, <2>5 DEF MemRead, Stages
    <3> QED
      BY <1>2, <1>3, <1>5, <2>1, <2>2, <2>5, <3>1 DEF CountsOK, ReadCounted, WriteCounted
  <2> QED
    BY <2>4, <2>5
<1>8. CASE MemReadDone(1)
  <2>1. /\ stage[1] = "reading" /\ stage'[1] = "write"
        /\ LOAD' = seen[1] + 1 /\ UNCHANGED <<active, STORE>> /\ LOAD \in Nat
    BY <1>4, <1>8 DEF MemReadDone, Ready, Stages, PinInv, TypeOK
  <2> QED
    BY <1>2, <1>3, <1>5, <2>1 DEF CountsOK, ReadCounted, WriteCounted
<1>9. CASE MemWrite(1)
  <2>1. stage[1] = "write" /\ UNCHANGED <<active, LOAD, STORE>>
    BY <1>9 DEF MemWrite, Ready
  <2>2. active = inside[1]
    BY <2>1 DEF CountsOK
  <2>3. Counts(1) = inside[1]
    BY <2>2, PinAssumption DEF Counts, Instrumented, FlowOK
  <2>4. CASE WriteCall(at[1]) /\ inside[1]
    <3>1. stage'[1] = "writing" /\ seen'[1] = STORE
      BY <1>4, <1>9, <2>3, <2>4, PinAssumption DEF MemWrite, Stages, CountsOK
    <3> QED
      BY <1>2, <1>3, <1>5, <2>1, <2>2, <2>4, <3>1 DEF CountsOK, ReadCounted, WriteCounted
  <2>5. CASE ~(WriteCall(at[1]) /\ inside[1])
    <3>1. stage'[1] = "execute"
      BY <1>4, <1>9, <2>3, <2>5 DEF MemWrite, Stages
    <3> QED
      BY <1>2, <1>3, <1>5, <2>1, <2>2, <2>5, <3>1 DEF CountsOK, ReadCounted, WriteCounted
  <2> QED
    BY <2>4, <2>5
<1>10. CASE MemWriteDone(1)
  <2>1. /\ stage[1] = "writing" /\ stage'[1] = "execute"
        /\ STORE' = seen[1] + 1 /\ UNCHANGED <<active, LOAD>>
    BY <1>4, <1>10 DEF MemWriteDone, Ready, Stages
  <2> QED
    BY <1>2, <1>3, <1>5, <2>1 DEF CountsOK, ReadCounted, WriteCounted
<1> QED
  BY <1>1, <1>6, <1>7, <1>8, <1>9, <1>10 DEF Callback

LEMMA CountsExecute ==
  ASSUME PinInv, FlowOK, FlowOK', CountsOK, NEW t \in Threads, Execute(t)
  PROVE  CountsOK'
<1>1. t = 1 /\ stage[1] = "execute"
  BY DEF CountsOK, Execute, Ready
<1>2. PICK f \in Flows(1) :
        /\ at' = [at EXCEPT ![1] = f.at]
        /\ inside' = [inside EXCEPT ![1] = \/ f.at \in StartCalls \ StopCalls
                                           \/ f.at \notin StopCalls /\ @]
  BY <1>1 DEF Execute
<1>3. /\ UNCHANGED <<program, active, seen, LOAD, STORE>>
      /\ stage' = [stage EXCEPT ![1] = "marker"]
      /\ marked' = IF inside[1] THEN Plus(marked, at[1]) ELSE marked
  BY <1>1 DEF Execute, toolVars, Enter, countVars
<1>4. StartCalls' = StartCalls /\ StopCalls' = StopCalls
  BY <1>3 DEF StartCalls, StopCalls, CallsTo, code
<1>5. stage'[1] = "marker" /\ at'[1] = f.at
  BY <1>2, <1>3, PinAssumption DEF FlowOK
<1>6. inside'[1] = (f.at \in StartCalls \ StopCalls \/ (f.at \notin StopCalls /\ inside[1]))
  BY <1>2, PinAssumption DEF FlowOK
<1>7. \A u \in Threads \ {1} : at'[u] = 0
  BY <1>2 DEF CountsOK, FlowOK
<1>8. active' = inside'[1] \/ at'[1] \in StartCalls' \cup StopCalls'
  BY <1>1, <1>3, <1>4, <1>5, <1>6, PinAssumption DEF CountsOK, FlowOK
<1>9. /\ marked' \in [reads : Nat, writes : Nat]
      /\ LOAD <= marked'.reads /\ marked'.writes = STORE
      /\ SingleReads => LOAD = marked'.reads
  <2>1. at[1] \in DOMAIN code /\ LOAD \in Nat /\ STORE \in Nat
    BY <1>1, PinAssumption DEF PinInv, TypeOK, Execute, Ready
  <2>2. CASE inside[1]
    <3>1. marked'.reads = marked.reads + Reads(at[1]) /\ marked'.writes = marked.writes + Writes(at[1])
      BY <1>3, <2>2 DEF Plus
    <3>2. marked' \in [reads : Nat, writes : Nat]
      BY <1>3, <2>2, CallsPerAccess DEF Plus, CountsOK
    <3> QED
      BY <1>1, <2>1, <2>2, <3>1, <3>2, CallsPerAccess DEF CountsOK, ReadCounted, WriteCounted
  <2>3. CASE ~inside[1]
    BY <1>1, <1>3, <2>3 DEF CountsOK, ReadCounted, WriteCounted
  <2> QED
    BY <2>2, <2>3
<1>10. SingleReads' = SingleReads
  BY <1>3 DEF SingleReads, code
<1>11. ReadCounted' = 0 /\ WriteCounted' = 0 /\ LOAD \in Nat /\ STORE \in Nat
  BY <1>5 DEF ReadCounted, WriteCounted, PinInv, TypeOK
<1> QED
  BY <1>3, <1>5, <1>7, <1>8, <1>9, <1>10, <1>11 DEF CountsOK

LEMMA CountsNext == PinInv /\ FlowOK /\ FollowInv /\ [Next]_vars => FollowInv'
<1> SUFFICES ASSUME PinInv, FlowOK, FollowInv, [Next]_vars, follow', Alone' PROVE CountsOK'
  BY DEF FollowInv
<1>1. UNCHANGED <<follow, program>>
  BY CallbackKeepsFlow DEF Next, ImageLoad, Fini, Execute, vars, toolVars
<1>2. follow /\ CountsOK
  BY <1>1 DEF FollowInv, Alone
<1>3. CASE ImageLoad \/ Fini \/ UNCHANGED vars
  <2>1. UNCHANGED <<program, active, at, stage, inside, seen, LOAD, STORE, marked>>
    BY <1>1, <1>3 DEF ImageLoad, Fini, vars, toolVars, flowVars, countVars, history
  <2> QED
    BY <1>2, <2>1 DEF CountsOK, ReadCounted, WriteCounted, ReadCall, WriteCall, IsMemoryRead,
                      IsMemoryWrite, IsStandardMemop, Reads, Writes, SingleReads, StartCalls,
                      StopCalls, CallsTo, code
<1> QED
  BY <1>2, <1>3, CountsCallback, CountsExecute, FlowOKNext DEF Next

\* "only instructions happening when the program flow is inside the marked
\* region are counted" (pintool/README.md:51), for every program of one thread
\* and -follow_calls (cachesim_itf.cpp:31-41, 123-142): all writes, no read of
\* another place, and all reads if instructions read one operand at most.
THEOREM FollowCountsRegion == Spec => []FollowCountsMarked
<1>1. PinInv /\ FollowInv => FollowCountsMarked
  BY DEF FollowInv, FollowCountsMarked, CountsOK, AtRest, ReadCounted, WriteCounted, PinInv, TypeOK
<1> QED
  BY <1>1, PinInit, PinNext, CountsInit, CountsNext, FlowOKInit, FlowOKNext, PTL DEF Spec

-----------------------------------------------------------------------------
(* The region as an interval of addresses. *)

Region == {a \in DOMAIN code : startIns < a /\ a < stopIns}

\* Once the image is loaded, the markers are called from one place each.
Known == program.start # 0 /\ StartCalls = {startIns} /\ StopCalls = {stopIns}

\* In a closed region the addresses and the flow agree: the flow is inside at
\* the addresses of the region, at the start call and in the function that it
\* calls, from where it returns into the region.  No other return leads there.
RegionOK ==
  /\ at[1] \in Region => inside[1]
  /\ inside[1] => \/ at[1] \in Region \cup {startIns}
                  \/ /\ at[1] \in program.markers /\ returns[1] # <<>>
                     /\ returns[1][Len(returns[1])] = startIns + 1
  /\ \A i \in 1..Len(returns[1]) : returns[1][i] \in Region =>
       i = Len(returns[1]) /\ inside[1] /\ at[1] \in program.markers

\* The counters are ahead of the executed instructions by what was counted for
\* the current one.
RegionRead  == IF stage[1] \in {"write", "writing", "execute"} /\ at[1] \in Region /\ ReadCall(at[1])
               THEN 1 ELSE 0
RegionWrite == IF stage[1] = "execute" /\ at[1] \in Region /\ WriteCall(at[1]) THEN 1 ELSE 0

RegionCounted ==
  /\ stage[1] = "reading" => at[1] \in Region /\ ReadCall(at[1]) /\ seen[1] = LOAD
  /\ stage[1] = "writing" => at[1] \in Region /\ WriteCall(at[1]) /\ seen[1] = STORE
  /\ LOAD <= between.reads + RegionRead
  /\ SingleReads => LOAD = between.reads + RegionRead
  /\ STORE = between.writes + RegionWrite

\* Before the image is loaded nothing has been done.
Untouched ==
  /\ at = program.entries /\ stage[1] = "marker" /\ returns[1] = <<>>
  /\ inside[1] => at[1] \in StartCalls
  /\ LOAD = 0 /\ STORE = 0 /\ between = NoAccesses

OthersEnded == \A t \in Threads \ {1} : at[t] = 0

DefaultInv ==
  /\ pc = "loading" => Untouched
  /\ Alone => OthersEnded
  /\ pc \in {"running", "fini"} /\ ~follow =>
       Known /\ (Alone /\ Closed => RegionOK /\ RegionCounted)

\* What a closed region is, in terms of the set of its addresses.
LEMMA ClosedRegion ==
  ASSUME PinInv, Known, Closed
  PROVE  /\ startIns < stopIns /\ startIns \in DOMAIN code /\ stopIns \in DOMAIN code
         /\ code[startIns].kind = "call" /\ code[startIns].target = program.start
         /\ code[stopIns].kind = "call"
         /\ DOMAIN code \subseteq Nat \ {0} /\ startIns + 1 \in DOMAIN code
         /\ Region \subseteq DOMAIN code
         /\ \A a \in Region : /\ code[a].kind \notin {"call", "ret", "exit"}
                              /\ code[a].kind = "jump" => code[a].target \in Region \cup {stopIns}
         /\ \A a \in DOMAIN code \ Region :
              code[a].kind \in {"call", "jump"} => code[a].target \notin Region
         /\ program.entries[1] \notin Region
         /\ program.markers \cap Region = {}
<1>1. startIns \in DOMAIN code /\ stopIns \in DOMAIN code /\ code[startIns].target = program.start
  BY DEF Known, StartCalls, StopCalls, CallsTo
<1>2. code \in Seq([kind : Kinds, target : Nat]) /\ DOMAIN code = 1..Len(code) /\ Len(code) \in Nat
  BY DEF PinInv, CodeOK, Program, code
<1>3. startIns < stopIns /\ code[startIns].kind = "call" /\ code[stopIns].kind = "call"
  BY DEF Closed
<1>4. ASSUME NEW a \in Region
      PROVE  /\ code[a].kind \notin {"call", "ret", "exit"}
             /\ code[a].kind = "jump" => code[a].target \in Region \cup {stopIns}
  BY DEF Closed, Region
<1>5. ASSUME NEW a \in DOMAIN code \ Region, code[a].kind \in {"call", "jump"}
      PROVE  code[a].target \notin Region
  BY <1>5 DEF Closed, Region
<1>6. program.entries[1] \notin Region /\ program.markers \cap Region = {}
  BY DEF Closed, Region
<1>7. startIns + 1 \in DOMAIN code
  BY <1>1, <1>2, <1>3
<1> QED
  BY <1>1, <1>2, <1>3, <1>4, <1>5, <1>6, <1>7 DEF Region

\* The functions of pinMarker.h do not call each other.
LEMMA MarkerCode ==
  ASSUME PinInv, Known, Closed
  PROVE  /\ program.start \in program.markers
         /\ startIns \notin program.markers /\ stopIns \notin program.markers
         /\ \A a \in program.markers \cap DOMAIN code :
              \/ code[a].kind = "ret"
              \/ /\ code[a].kind \notin {"call", "ret", "jump", "exit"}
                 /\ a + 1 \in program.markers
<1>1. /\ program.start \in program.markers
      /\ \A a \in program.markers \cap DOMAIN code :
           \/ code[a].kind = "ret"
           \/ code[a].kind \in {"plain", "read", "write", "update"} /\ a + 1 \in program.markers
  BY DEF PinInv, CodeOK, MarkersReturn, Known, code
<1>2. code[startIns].kind = "call" /\ code[stopIns].kind = "call"
      /\ startIns \in DOMAIN code /\ stopIns \in DOMAIN code
  BY ClosedRegion
<1> QED
  BY <1>1, <1>2

\* An instruction of the region leads to the region or to the stop call.
LEMMA StaysInRegion ==
  ASSUME PinInv, Known, Closed, at[1] \in Region, NEW f \in Flows(1)
  PROVE  f.at \in Region \cup {stopIns} /\ f.returns = returns[1]
<1>1. 1 \in Threads /\ at[1] \in DOMAIN code /\ at[1] \in Nat /\ startIns \in Nat /\ stopIns \in Nat
  BY ClosedRegion, PinAssumption
<1>2. code[at[1]].kind \notin {"call", "ret", "exit"}
  BY ClosedRegion
<1>3. f.returns = returns[1] /\ f.at \in {code[at[1]].target, at[1] + 1}
      /\ (code[at[1]].kind # "jump" => f.at = at[1] + 1)
  BY <1>1, <1>2, FlowsByKind
<1>4. at[1] + 1 \in Region \cup {stopIns}
  <2>1. at[1] + 1 \in DOMAIN code
    BY <1>1, <1>2, FlowsTyped DEF PinInv, CodeOK, Complete, code
  <2> QED
    BY <1>1, <2>1 DEF Region
<1>5. code[at[1]].kind = "jump" => code[at[1]].target \in Region \cup {stopIns}
  BY ClosedRegion
<1> QED
  BY <1>3, <1>4, <1>5

\* Nothing outside leads into the region but the start call, through the return
\* from the function it calls.
LEMMA StaysOutside ==
  ASSUME PinInv, Known, Closed, at[1] \in DOMAIN code \ Region, at[1] # startIns,
         \A i \in 1..Len(returns[1]) : returns[1][i] \notin Region, NEW f \in Flows(1)
  PROVE  f.at \notin Region /\ \A i \in 1..Len(f.returns) : f.returns[i] \notin Region
<1>1. /\ 1 \in Threads /\ at[1] \in Nat \ {0} /\ startIns \in Nat /\ stopIns \in Nat
      /\ returns[1] \in Seq(DOMAIN code)
  BY ClosedRegion, PinAssumption DEF PinInv, TypeOK
<1>2. at[1] + 1 \notin Region /\ 0 \notin Region
  BY <1>1, ClosedRegion DEF Region
<1> DEFINE a == at[1]
           r == returns[1]
<1>3. CASE code[a].kind = "call"
  <2>1. f = [at |-> code[a].target, returns |-> Append(r, a + 1)]
    BY <1>1, <1>3, FlowsByKind
  <2>2. code[a].target \notin Region
    BY <1>3, ClosedRegion
  <2>3. r \in Seq(DOMAIN code) /\ a + 1 \notin Region /\ \A i \in 1..Len(r) : r[i] \notin Region
    BY <1>1, <1>2
  <2> HIDE DEF a, r
  <2> QED
    BY <2>1, <2>2, <2>3
<1>4. CASE code[a].kind = "ret"
  <2>1. f = IF r = <<>> THEN [at |-> 0, returns |-> r]
            ELSE [at |-> r[Len(r)], returns |-> SubSeq(r, 1, Len(r) - 1)]
    BY <1>1, <1>4, FlowsByKind
  <2>2. r \in Seq(DOMAIN code) /\ \A i \in 1..Len(r) : r[i] \notin Region
    BY <1>1
  <2> HIDE DEF r
  <2> QED
    BY <1>2, <2>1, <2>2
<1>5. CASE code[a].kind \notin {"call", "ret"}
  <2>1. f.returns = r /\ f.at \in {0, code[a].target, a + 1}
        /\ (code[a].kind # "jump" => f.at \in {0, a + 1})
    BY <1>1, <1>5, FlowsByKind
  <2>2. code[a].kind = "jump" => code[a].target \notin Region
    BY ClosedRegion
  <2> QED
    BY <1>2, <2>1, <2>2
<1> QED
  BY <1>3, <1>4, <1>5

\* The start call enters the function of the marker, with its return address.
LEMMA EntersMarker ==
  ASSUME PinInv, Known, Closed, at[1] = startIns, NEW f \in Flows(1)
  PROVE  /\ f.at \in program.markers /\ f.at \notin Region \cup {startIns, stopIns}
         /\ f.returns = Append(returns[1], startIns + 1)
<1>1. 1 \in Threads /\ startIns \in DOMAIN code \ Region /\ code[startIns].kind = "call"
      /\ code[startIns].target = program.start
  BY ClosedRegion, PinAssumption DEF Region
<1>2. f = [at |-> program.start, returns |-> Append(returns[1], startIns + 1)]
  BY <1>1, FlowsByKind
<1>3. program.start \in program.markers
      /\ program.start \notin Region \cup {startIns, stopIns}
  BY MarkerCode, ClosedRegion
<1> QED
  BY <1>2, <1>3

\* The function of the marker goes on, or returns behind the call.
LEMMA LeavesMarker ==
  ASSUME PinInv, Known, Closed, at[1] \in program.markers, at[1] # 0, NEW f \in Flows(1),
         returns[1] # <<>>, returns[1][Len(returns[1])] = startIns + 1
  PROVE  \/ /\ f.at \in program.markers /\ f.at \notin Region \cup {startIns, stopIns}
            /\ f.returns = returns[1]
         \/ /\ f.at \in Region \cup {stopIns}
            /\ f.returns = SubSeq(returns[1], 1, Len(returns[1]) - 1)
<1>1. 1 \in Threads /\ at[1] \in program.markers \cap DOMAIN code
  BY PinAssumption DEF PinInv, TypeOK
<1>2. CASE code[at[1]].kind = "ret"
  <2>1. f = [at |-> startIns + 1, returns |-> SubSeq(returns[1], 1, Len(returns[1]) - 1)]
    BY <1>1, <1>2, FlowsByKind
  <2>2. startIns + 1 \in Region \cup {stopIns}
    BY ClosedRegion DEF Region
  <2> QED
    BY <2>1, <2>2
<1>3. CASE code[at[1]].kind # "ret"
  <2>1. code[at[1]].kind \notin {"call", "ret", "jump", "exit"} /\ at[1] + 1 \in program.markers
    BY <1>1, <1>3, MarkerCode
  <2>2. f = [at |-> at[1] + 1, returns |-> returns[1]]
    BY <1>1, <2>1, FlowsByKind
  <2>3. at[1] + 1 \notin Region \cup {startIns, stopIns}
    BY <2>1, MarkerCode, ClosedRegion
  <2> QED
    BY <2>1, <2>2, <2>3
<1> QED
  BY <1>2, <1>3

LEMMA RegionExecute ==
  ASSUME PinInv, FlowOK, Known, Closed, RegionOK, at[1] # 0, NEW f \in Flows(1),
         at'[1] = f.at, returns'[1] = f.returns,
         inside'[1] = (f.at = startIns \/ (f.at # stopIns /\ inside[1])),
         UNCHANGED <<program, startIns, stopIns>>
  PROVE  RegionOK'
<1>1. /\ 1 \in Threads /\ returns[1] \in Seq(DOMAIN code) /\ at[1] \in DOMAIN code
      /\ inside[1] \in BOOLEAN
  BY PinAssumption DEF PinInv, TypeOK
<1>2. Region' = Region
  BY DEF Region, code
<1>3. startIns # stopIns /\ startIns \notin Region /\ stopIns \notin Region
      /\ program.markers \cap Region = {} /\ startIns \notin program.markers
  BY ClosedRegion, MarkerCode DEF Region
<1> SUFFICES
      /\ f.at \in Region => inside'[1]
      /\ inside'[1] => \/ f.at \in Region \cup {startIns}
                       \/ /\ f.at \in program.markers /\ f.returns # <<>>
                          /\ f.returns[Len(f.returns)] = startIns + 1
      /\ \A i \in 1..Len(f.returns) : f.returns[i] \in Region =>
           i = Len(f.returns) /\ inside'[1] /\ f.at \in program.markers
  BY <1>2 DEF RegionOK
<1> DEFINE r == returns[1]
<1>4. CASE at[1] \in Region
  <2>1. f.at \in Region \cup {stopIns} /\ f.returns = r
    BY <1>4, StaysInRegion
  <2>2. inside[1] /\ \A i \in 1..Len(r) : r[i] \notin Region
    BY <1>3, <1>4 DEF RegionOK
  <2> QED
    BY <1>3, <2>1, <2>2
<1>5. CASE at[1] = startIns
  <2>1. /\ f.at \in program.markers /\ f.at \notin Region \cup {startIns, stopIns}
        /\ f.returns = Append(r, startIns + 1)
    BY <1>5, EntersMarker
  <2>2. inside[1]
    BY <1>1, <1>3, <1>5 DEF FlowOK, Known
  <2>3. \A i \in 1..Len(r) : r[i] \notin Region
    BY <1>3, <1>5 DEF RegionOK
  <2>4. r \in Seq(DOMAIN code)
    BY <1>1
  <2> HIDE DEF r
  <2>5. f.returns # <<>> /\ f.returns[Len(f.returns)] = startIns + 1
        /\ \A i \in 1..Len(f.returns) : f.returns[i] \in Region => i = Len(f.returns)
    BY <2>1, <2>3, <2>4
  <2> QED
    BY <2>1, <2>2, <2>5
<1>6. CASE at[1] \notin Region /\ at[1] # startIns /\ inside[1]
  <2>1. at[1] \in program.markers /\ r # <<>> /\ r[Len(r)] = startIns + 1
    BY <1>6 DEF RegionOK
  <2>2. \A i \in 1..Len(r) : r[i] \in Region => i = Len(r)
    BY DEF RegionOK
  <2>3. CASE f.returns = r /\ f.at \in program.markers /\ f.at \notin Region \cup {startIns, stopIns}
    BY <1>6, <2>1, <2>2, <2>3
  <2>4. CASE f.at \in Region \cup {stopIns} /\ f.returns = SubSeq(r, 1, Len(r) - 1)
    <3>1. r \in Seq(DOMAIN code)
      BY <1>1
    <3> HIDE DEF r
    <3>2. \A i \in 1..Len(f.returns) : f.returns[i] \notin Region
      BY <2>1, <2>2, <2>4, <3>1
    <3> QED
      BY <1>3, <1>6, <2>4, <3>2
  <2> QED
    BY <2>1, <2>3, <2>4, LeavesMarker
<1>7. CASE at[1] \notin Region /\ at[1] # startIns /\ ~inside[1]
  <2>1. \A i \in 1..Len(r) : r[i] \notin Region
    BY <1>7 DEF RegionOK
  <2>2. f.at \notin Region /\ \A i \in 1..Len(f.returns) : f.returns[i] \notin Region
    BY <1>1, <1>7, <2>1, StaysOutside
  <2> QED
    BY <1>7, <2>2
<1> QED
  BY <1>1, <1>4, <1>5, <1>6, <1>7

LEMMA RegionCallback ==
  ASSUME PinInv, FlowOK, Known, Closed, RegionOK, RegionCounted, ~follow, OthersEnded,
         NEW t \in Threads, Callback(t)
  PROVE  RegionOK' /\ RegionCounted' /\ OthersEnded'
<1>1. t = 1 /\ 1 \in Threads
  BY PinAssumption DEF OthersEnded, Callback, Marker, MemRead, MemReadDone, MemWrite, MemWriteDone, Ready
<1>2. UNCHANGED <<toolVars, at, returns, history>>
  BY DEF Callback, Marker, MemRead, MemReadDone, MemWrite, MemWriteDone
<1>3. /\ UNCHANGED code /\ Region' = Region /\ UNCHANGED <<inside, between>>
      /\ ReadCall(at[1])' = ReadCall(at[1]) /\ WriteCall(at[1])' = WriteCall(at[1])
      /\ SingleReads' = SingleReads
  BY <1>2 DEF toolVars, history, Region, code, ReadCall, WriteCall, IsMemoryRead,
              IsMemoryWrite, IsStandardMemop, Reads, Writes, SingleReads
<1>4. RegionOK' /\ OthersEnded'
  BY <1>2, <1>3 DEF RegionOK, OthersEnded, toolVars
<1>5. \A s \in Stages : Enter(1, s) => stage'[1] = s
  BY <1>1 DEF Enter, FlowOK
<1>6. at[1] \in DOMAIN code => (Counts(1) <=> at[1] \in Region)
  BY DEF Counts, Instrumented, Region
<1>7. Ready(1, stage[1]) => at[1] \in DOMAIN code
  BY <1>1 DEF Ready, PinInv, TypeOK
<1>8. CASE Marker(1)
  <2>1. stage[1] = "marker" /\ stage'[1] = "read" /\ UNCHANGED <<LOAD, STORE>>
    BY <1>5, <1>8 DEF Marker, Ready, countVars, Stages
  <2> QED
    BY <1>2, <1>3, <1>4, <2>1 DEF RegionCounted, RegionRead, RegionWrite
<1>9. CASE MemRead(1)
  <2>1. stage[1] = "read" /\ at[1] \in DOMAIN code /\ UNCHANGED <<LOAD, STORE>>
    BY <1>7, <1>9 DEF MemRead, Ready
  <2>2. CASE ReadCall(at[1]) /\ at[1] \in Region
    <3>1. stage'[1] = "reading" /\ seen'[1] = LOAD
      BY <1>1, <1>5, <1>6, <1>9, <2>1, <2>2 DEF MemRead, Stages, PinInv, TypeOK
    <3> QED
      BY <1>2, <1>3, <1>4, <2>1, <2>2, <3>1 DEF RegionCounted, RegionRead, RegionWrite
  <2>3. CASE ~(ReadCall(at[1]) /\ at[1] \in Region)
    <3>1. stage'[1] = "write"
      BY <1>5, <1>6, <1>9, <2>1, <2>3 DEF MemRead, Stages
    <3> QED
      BY <1>2, <1>3, <1>4, <2>1, <2>3, <3>1 DEF RegionCounted, RegionRead, RegionWrite
  <2> QED
    BY <2>2, <2>3
<1>10. CASE MemReadDone(1)
  <2>1. stage[1] = "reading" /\ stage'[1] = "write" /\ LOAD' = seen[1] + 1 /\ UNCHANGED STORE
    BY <1>5, <1>10 DEF MemReadDone, Ready, Stages
  <2> QED
    BY <1>2, <1>3, <1>4, <2>1 DEF RegionCounted, RegionRead, RegionWrite, PinInv, TypeOK
<1>11. CASE MemWrite(1)
  <2>1. stage[1] = "write" /\ at[1] \in DOMAIN code /\ UNCHANGED <<LOAD, STORE>>
    BY <1>7, <1>11 DEF MemWrite, Ready
  <2>2. CASE WriteCall(at[1]) /\ at[1] \in Region
    <3>1. stage'[1] = "writing" /\ seen'[1] = STORE
      BY <1>1, <1>5, <1>6, <1>11, <2>1, <2>2 DEF MemWrite, Stages, PinInv, TypeOK
    <3> QED
      BY <1>2, <1>3, <1>4, <2>1, <2>2, <3>1 DEF RegionCounted, RegionRead, RegionWrite
  <2>3. CASE ~(WriteCall(at[1]) /\ at[1] \in Region)
    <3>1. stage'[1] = "execute"
      BY <1>5, <1>6, <1>11, <2>1, <2>3 DEF MemWrite, Stages
    <3> QED
      BY <1>2, <1>3, <1>4, <2>1, <2>3, <3>1 DEF RegionCounted, RegionRead, RegionWrite
  <2> QED
    BY <2>2, <2>3
<1>12. CASE MemWriteDone(1)
  <2>1. stage[1] = "writing" /\ stage'[1] = "execute" /\ STORE' = seen[1] + 1 /\ UNCHANGED LOAD
    BY <1>5, <1>12 DEF MemWriteDone, Ready, Stages
  <2> QED
    BY <1>2, <1>3, <1>4, <2>1 DEF RegionCounted, RegionRead, RegionWrite, PinInv, TypeOK
<1> QED
  BY <1>1, <1>8, <1>9, <1>10, <1>11, <1>12 DEF Callback

\* What the flow counts between the calls is what the addresses tell.
LEMMA BetweenIsRegion ==
  ASSUME PinInv, Known, Closed, RegionOK, at[1] # 0
  PROVE  inside[1] /\ at[1] \notin program.markers \cup StartCalls <=> at[1] \in Region
<1>1. startIns \notin Region /\ program.markers \cap Region = {} /\ StartCalls = {startIns}
  BY ClosedRegion DEF Region, Known
<1> QED
  BY <1>1 DEF RegionOK

LEMMA DefaultExecute ==
  ASSUME PinInv, FlowOK, Known, Closed, RegionOK, RegionCounted, OthersEnded,
         NEW t \in Threads, Execute(t)
  PROVE  RegionOK' /\ RegionCounted' /\ OthersEnded'
<1>1. t = 1 /\ 1 \in Threads /\ stage[1] = "execute" /\ at[1] # 0
  BY PinAssumption DEF OthersEnded, Execute, Ready
<1>2. PICK f \in Flows(1) :
        /\ at' = [at EXCEPT ![1] = f.at]
        /\ returns' = [returns EXCEPT ![1] = f.returns]
        /\ inside' = [inside EXCEPT ![1] = \/ f.at \in StartCalls \ StopCalls
                                           \/ f.at \notin StopCalls /\ @]
  BY <1>1 DEF Execute
<1>3. /\ UNCHANGED <<program, startIns, stopIns, LOAD, STORE>>
      /\ stage' = [stage EXCEPT ![1] = "marker"]
  BY <1>1 DEF Execute, Enter, toolVars, countVars
<1>4. /\ at'[1] = f.at /\ returns'[1] = f.returns /\ stage'[1] = "marker"
      /\ inside'[1] = (f.at \in StartCalls \ StopCalls \/ (f.at \notin StopCalls /\ inside[1]))
  BY <1>1, <1>2, <1>3 DEF PinInv, TypeOK
<1>5. StartCalls = {startIns} /\ StopCalls = {stopIns} /\ startIns # stopIns
  BY ClosedRegion DEF Known
<1>6. inside'[1] = (f.at = startIns \/ (f.at # stopIns /\ inside[1]))
  BY <1>4, <1>5
<1>7. RegionOK'
  BY <1>1, <1>3, <1>4, <1>6, RegionExecute
<1>8. OthersEnded'
  BY <1>2 DEF OthersEnded, PinInv, TypeOK
<1>9. between' = IF at[1] \in Region THEN Plus(between, at[1]) ELSE between
  BY <1>1, BetweenIsRegion DEF Execute
<1>10. /\ LOAD <= between'.reads /\ STORE = between'.writes
       /\ SingleReads => LOAD = between'.reads
  <2>1. between \in [reads : Nat, writes : Nat] /\ at[1] \in DOMAIN code /\ LOAD \in Nat
    BY <1>1 DEF PinInv, TypeOK
  <2>2. CASE at[1] \in Region
    <3>1. /\ between'.reads = between.reads + Reads(at[1])
          /\ between'.writes = between.writes + Writes(at[1])
      BY <1>9, <2>2 DEF Plus
    <3> QED
      BY <1>1, <2>1, <2>2, <3>1, CallsPerAccess DEF RegionCounted, RegionRead, RegionWrite
  <2>3. CASE at[1] \notin Region
    BY <1>1, <1>9, <2>1, <2>3 DEF RegionCounted, RegionRead, RegionWrite
  <2> QED
    BY <2>2, <2>3
<1>11. /\ RegionRead' = 0 /\ RegionWrite' = 0 /\ LOAD \in Nat /\ STORE \in Nat
       /\ between' \in [reads : Nat, writes : Nat]
  <2>1. between' \in [reads : Nat, writes : Nat]
    BY PinNext, <1>1 DEF PinInv, TypeOK, Next
  <2> QED
    BY <1>4, <2>1 DEF RegionRead, RegionWrite, PinInv, TypeOK
<1>12. SingleReads' = SingleReads
  BY <1>3 DEF SingleReads, code
<1> QED
  BY <1>3, <1>4, <1>7, <1>8, <1>10, <1>11, <1>12 DEF RegionCounted

\* Once the image is loaded the program stands at its entry, outside the region.
LEMMA DefaultLoad ==
  ASSUME PinInv, FlowOK, Untouched, ImageLoad, pc' = "running", ~follow
  PROVE  Known' /\ (Closed' => RegionOK' /\ RegionCounted')
<1>1. /\ UNCHANGED <<program, follow, active, flowVars, countVars, history>> /\ UNCHANGED code
      /\ program.start # 0 /\ OneRegion
      /\ startIns' \in StartCalls /\ stopIns' \in StopCalls
  BY DEF ImageLoad, code
<1>2. UNCHANGED <<at, stage, returns, inside, LOAD, STORE, between, seen>>
  BY <1>1 DEF flowVars, countVars, history
<1>3. StartCalls' = StartCalls /\ StopCalls' = StopCalls
  BY <1>1 DEF StartCalls, StopCalls, CallsTo
<1>4. StartCalls = {startIns'} /\ StopCalls = {stopIns'}
  <2>1. \A b : IsFiniteSet(CallsTo(b))
    <3>1. DOMAIN code = 1..Len(code) /\ Len(code) \in Nat
      BY DEF PinInv, CodeOK, Program, code
    <3>2. \A b : CallsTo(b) \subseteq 1..Len(code)
      BY <3>1 DEF CallsTo
    <3>3. IsFiniteSet(1..Len(code))
      BY <3>1, FS_Interval
    <3> QED
      BY <3>2, <3>3, FS_Subset
  <2>2. IsFiniteSet(StartCalls) /\ IsFiniteSet(StopCalls)
    BY <2>1 DEF StartCalls, StopCalls
  <2>3. Cardinality(StartCalls) = 1 /\ Cardinality(StopCalls) = 1
    BY <1>1 DEF OneRegion
  <2> QED
    BY <1>1, <2>2, <2>3, FS_Singleton
<1>5. Known'
  BY <1>1, <1>3, <1>4 DEF Known
<1>6. ASSUME Closed' PROVE RegionOK' /\ RegionCounted'
  <2>1. at'[1] \notin Region'
    <3>1. at'[1] = program.entries[1] /\ UNCHANGED program
      BY <1>1, <1>2 DEF Untouched
    <3>2. program.entries[1] \notin Region'
      BY <1>1, <1>6 DEF Closed, Region
    <3> QED
      BY <3>1, <3>2
  <2>2. inside'[1] => at'[1] = startIns'
    BY <1>2, <1>4 DEF Untouched
  <2>3. RegionOK'
    BY <1>2, <2>1, <2>2 DEF RegionOK, Untouched
  <2>4. RegionCounted'
    BY <1>2 DEF RegionCounted, RegionRead, RegionWrite, Untouched, NoAccesses
  <2> QED
    BY <2>3, <2>4
<1> QED
  BY <1>5, <1>6

LEMMA DefaultNext == PinInv /\ FlowOK /\ DefaultInv /\ [Next]_vars => DefaultInv'
<1> SUFFICES ASSUME PinInv, FlowOK, DefaultInv, [Next]_vars PROVE DefaultInv'
  OBVIOUS
<1>1. UNCHANGED <<follow, program>>
  BY CallbackKeepsFlow DEF Next, ImageLoad, Fini, Execute, vars, toolVars
<1>2. Alone' = Alone
  BY <1>1 DEF Alone
<1>3. CASE ImageLoad
  <2>1. pc' \in {"running", "exit"} /\ Untouched /\ UNCHANGED at
    BY <1>3 DEF ImageLoad, DefaultInv, flowVars
  <2>2. OthersEnded' = OthersEnded
    BY <2>1 DEF OthersEnded
  <2> QED
    BY <1>1, <1>2, <1>3, <2>1, <2>2, DefaultLoad DEF DefaultInv
<1>4. CASE Fini \/ UNCHANGED vars
  <2>1. /\ UNCHANGED <<program, startIns, stopIns, flowVars, countVars, history>>
        /\ UNCHANGED <<code, at, stage, returns, inside, seen, LOAD, STORE, between>>
        /\ pc' = pc \/ (pc = "running" /\ pc' = "fini")
    BY <1>4 DEF Fini, vars, toolVars, flowVars, countVars, history, code
  <2>2. Untouched' = Untouched /\ OthersEnded' = OthersEnded
    BY <2>1 DEF Untouched, OthersEnded, StartCalls, CallsTo
  <2>3. Known' = Known /\ Closed' = Closed
    BY <2>1 DEF Known, Closed, StartCalls, StopCalls, CallsTo, code
  <2>4. /\ Region' = Region /\ SingleReads' = SingleReads
        /\ ReadCall(at[1])' = ReadCall(at[1]) /\ WriteCall(at[1])' = WriteCall(at[1])
    BY <2>1 DEF Region, SingleReads, ReadCall, WriteCall, IsMemoryRead, IsMemoryWrite,
                IsStandardMemop, Reads, Writes
  <2>5. RegionOK' = RegionOK /\ RegionCounted' = RegionCounted
    BY <2>1, <2>4 DEF RegionOK, RegionCounted, RegionRead, RegionWrite
  <2> QED
    BY <1>1, <1>2, <2>1, <2>2, <2>3, <2>5 DEF DefaultInv
<1>5. ASSUME NEW t \in Threads, Callback(t) \/ Execute(t)
      PROVE  DefaultInv'
  <2>1. pc = "running" /\ pc' = pc /\ UNCHANGED <<startIns, stopIns>>
    BY <1>5 DEF Callback, Marker, MemRead, MemReadDone, MemWrite, MemWriteDone, Execute, Ready, toolVars
  <2>2. Known' = Known /\ Closed' = Closed
    BY <1>1, <2>1 DEF Known, Closed, StartCalls, StopCalls, CallsTo, code
  <2>3. OthersEnded => OthersEnded'
    <3>1. CASE Callback(t)
      BY <3>1, CallbackKeepsFlow DEF OthersEnded
    <3>2. CASE Execute(t)
      BY <3>2 DEF OthersEnded, Execute, Ready, PinInv, TypeOK
    <3> QED
      BY <1>5, <3>1, <3>2
  <2>4. ASSUME ~follow, Alone, Closed PROVE RegionOK' /\ RegionCounted'
    BY <1>5, <2>1, <2>4, RegionCallback, DefaultExecute DEF DefaultInv
  <2> QED
    BY <1>1, <1>2, <2>1, <2>2, <2>3, <2>4 DEF DefaultInv
<1> QED
  BY <1>3, <1>4, <1>5 DEF Next

LEMMA DefaultInit == Init => DefaultInv
<1> SUFFICES ASSUME Init PROVE DefaultInv
  OBVIOUS
<1>1. pc = "loading" /\ at = program.entries
  BY DEF Init
<1>2. Untouched
  BY <1>1, PinAssumption DEF Init, Untouched
<1>3. Alone => OthersEnded
  BY <1>1 DEF Alone, OthersEnded
<1> QED
  BY <1>1, <1>2, <1>3 DEF DefaultInv

\* Without -follow_calls the tool goes by addresses (cachesim_itf.cpp:182).  For
\* every program of one thread whose region is closed, of any length, these are
\* all writes of its flow between the two calls, however often it comes by, and no
\* read of another place; all reads if instructions read one operand at most.
THEOREM DefaultCountsRegion == Spec => []DefaultCountsBetween
<1>1. PinInv /\ DefaultInv => DefaultCountsBetween
  <2> SUFFICES ASSUME PinInv, DefaultInv, pc \in {"running", "fini"}, ~follow, Alone,
                      AtRest(1), Closed
               PROVE  /\ STORE = between.writes /\ LOAD <= between.reads
                      /\ SingleReads => LOAD = between.reads
    BY DEF DefaultCountsBetween
  <2>1. RegionCounted /\ stage[1] = "marker"
    BY DEF DefaultInv, AtRest
  <2> QED
    BY <2>1 DEF RegionCounted, RegionRead, RegionWrite, PinInv, TypeOK
<1> QED
  BY <1>1, PinInit, PinNext, FlowOKInit, FlowOKNext, DefaultInit, DefaultNext, PTL DEF Spec

=============================================================================
