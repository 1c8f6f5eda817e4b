---------------------------- MODULE ContextProofs ----------------------------
(***************************************************************************)
(* What a context promises to those that call it: its engine, for any      *)
(* threads, addresses, analyzers, bounds and requests; its plugins, for    *)
(* any files, libraries and entries.                                       *)
(***************************************************************************)
EXTENDS Engine, Session, FiniteSetTheorems, TLAPS

General == INSTANCE Lemmas

-----------------------------------------------------------------------------
(* The engine. *)

(* Where a drain, a cfgStep or a locked enqueue goes on; nowhere else is    *)
(* there anything to return to.                                             *)
ReturnsWhere(t) ==
  /\ InDrain(t) => back[t] \in {"out", "merge", "analyze", "again", "graph"}
  /\ pc[t] \in {"bounds", "build"} => back[t] \in {"loop", "advance"}
  /\ pc[t] = "enqueue" => back[t] \in {"out", "graph"}
  /\ ~InDrain(t) /\ pc[t] \notin {"bounds", "build", "enqueue"} => back[t] = "out"

(* Only threads that drain the queue hold the Algorithm's lock, one at a    *)
(* time; nobody is inside execute() before there is an engine.              *)
LocksControl ==
  /\ \A t, u \in Threads : HoldsAlgorithm(t) /\ HoldsAlgorithm(u) => t = u
  /\ \A t \in Threads : Inside(t) => step # "None"

(* One thread runs the steps, and what it knows of the step at the end.     *)
AloneControl ==
  ~met => /\ \A t, u \in Threads : Inside(t) /\ Inside(u) => t = u
          /\ \A t \in Threads : pc[t] = "ending" => step = "Done"

(* The flag is as the engine set it, or a WeakScope will set it so again.   *)
FlagControl ==
  mode # "crossed" =>
    /\ (\A t \in Threads : pc[t] # "scope") => weak = (mode = "guess")
    /\ \A t \in Threads : pc[t] = "scope" => /\ saved[t] = (mode = "guess")
                                             /\ weak = (step # "None")

(* algorithmStep sets the flag, analyzeStep and cfgStep clear it.           *)
ModeControl ==
  ~met => \A t \in Threads :
    /\ InDrain(t) /\ back[t] = "merge" => mode # "fact"
    /\ pc[t] \in {"bounds", "build", "count", "analyze", "again", "remerge",
                 "remerged"} => mode # "guess"
    /\ InDrain(t) /\ back[t] \in {"analyze", "again"} => mode # "guess"

(* While no other thread interferes: the step is the Algorithm's through    *)
(* algorithmStep, and from cfgStep on, until something is decoded or found, *)
(* each function has its graph or is going to get it.                       *)
GraphControl ==
  \A t \in Threads : t \notin touched =>
    /\ pc[t] \in {"turn", "merge", "merged"} => step = "Algorithm"
    /\ InDrain(t) /\ back[t] = "merge" => step = "Algorithm"
    /\ pc[t] = "build" => functions \subseteq graphs \cup todo[t]
    /\ pc[t] = "loop" /\ step \in {"Analyze", "Done"} => functions \subseteq graphs
    /\ pc[t] \in {"advance", "count", "ending", "finish"} => functions \subseteq graphs

EngineInv ==
  /\ TypeOK /\ \A t \in Threads : ReturnsWhere(t)
  /\ LocksControl /\ AloneControl /\ BusyWhileWorking
  /\ FlagControl /\ ModeControl /\ GraphControl

LEMMA NextStepValue ==
  /\ NextStep("Stop") = "Algorithm" /\ NextStep("Algorithm") = "CFG"
  /\ NextStep("CFG") = "Analyze" /\ NextStep("Analyze") = "Done"
  /\ NextStep("Done") = "Done"
BY DEF NextStep

LEMMA CountType ==
  ASSUME NEW F, F \subseteq Addr PROVE Cardinality(F) \in Nat
BY AddrAssumption, FS_Subset, FS_CardinalityType

LEMMA InitEngine == Init => EngineInv
<1> SUFFICES ASSUME Init PROVE EngineInv
  OBVIOUS
<1> USE AddrAssumption, AnalyzersAssumption, BoundsAssumption
<1>1. TypeOK
  <2>1. done \in [1 .. Count -> 0 .. 2] /\ decoded \in [Addr -> 0 .. MaxDecodes]
    BY DEF Init
  <2>2. current \in [Threads -> 1 .. Count + 1] /\ oldfc \in [Threads -> Nat]
    BY DEF Init
  <2>3. asked \in 0 .. MaxRequests
    BY DEF Init
  <2>. QED BY <2>1, <2>2, <2>3 DEF Init, TypeOK, Steps, Places, WaysBack
<1>2. \A t \in Threads : pc[t] = "out" /\ ~InDrain(t) /\ ~Inside(t) /\ back[t] = "out"
  BY DEF Init, InDrain, Inside
<1>3. \A t \in Threads : ReturnsWhere(t)
  BY <1>2 DEF ReturnsWhere
<1>4. LocksControl /\ AloneControl /\ BusyWhileWorking
  BY <1>2 DEF Init, LocksControl, AloneControl, BusyWhileWorking, HoldsAlgorithm
<1>5. FlagControl /\ ModeControl /\ GraphControl
  BY <1>2 DEF Init, FlagControl, ModeControl, GraphControl
<1>. QED BY <1>1, <1>3, <1>4, <1>5 DEF EngineInv

(* A step of one thread moves that thread alone.                            *)
LEMMA OneThreadMoves ==
  ASSUME EngineInv, NEW t \in Threads, Continue(t) \/ Call(t), NEW u \in Threads, u # t
  PROVE  pc'[u] = pc[u] /\ back'[u] = back[u] /\ saved'[u] = saved[u]
<1> USE DEF EngineInv, TypeOK, Goto, Leave, Enter, local, engine, tally
<1>1. CASE Call(t)
  BY <1>1 DEF Call, Start, Ignite, Ask, DisassembleBlock, Enqueue, SetFunction, DisassembleAt,
              CheckLocation, CreateFunction, Request
<1>2. CASE \/ StopStep(t) \/ AlgorithmStep(t) \/ TakeTurn(t) \/ Lock(t) \/ Decode(t)
           \/ ScopeEnd(t) \/ DrainEnd(t) \/ MergeCode(t) \/ AlgorithmEnd(t)
  BY <1>2 DEF StopStep, AlgorithmStep, TakeTurn, Lock, Decode, ScopeEnd, DrainEnd, MergeCode,
              AlgorithmEnd
<1>3. CASE \/ CfgStep(t) \/ DropGraphs(t) \/ GenerateCfg(t) \/ CfgEnd(t) \/ Advance(t)
           \/ AnalyzeStep(t) \/ CountFunctions(t) \/ SkipAnalyzer(t) \/ Analyzer(t)
  BY <1>3 DEF CfgStep, DropGraphs, GenerateCfg, CfgEnd, Advance, AnalyzeStep, CountFunctions,
              SkipAnalyzer, Analyzer
<1>4. CASE \/ FirstPassEnd(t) \/ AnalyzeRepeat(t) \/ PassEnd(t) \/ LoopEnd(t)
           \/ ExecuteEnd(t) \/ Finish(t) \/ EnqueueLocked(t) \/ FunctionCfg(t)
  BY <1>4 DEF FirstPassEnd, AnalyzeRepeat, PassEnd, LoopEnd, ExecuteEnd, Finish, EnqueueLocked,
              FunctionCfg
<1>. QED BY <1>1, <1>2, <1>3, <1>4 DEF Continue

(* Which steps change what.                                                 *)
LEMMA Frames ==
  ASSUME NEW t \in Threads, Continue(t) \/ Call(t)
  PROVE  /\ Analyzer(t) \/ UNCHANGED done
         /\ Decode(t) \/ UNCHANGED decoded
         /\ Decode(t) \/ ScopeEnd(t) \/ UNCHANGED saved
         /\ CountFunctions(t) \/ AnalyzeRepeat(t) \/ PassEnd(t) \/ UNCHANGED oldfc
         /\ \/ SkipAnalyzer(t) \/ Analyzer(t) \/ FirstPassEnd(t) \/ PassEnd(t)
            \/ UNCHANGED current
         /\ MergeCode(t) \/ UNCHANGED merged
         /\ \/ DropGraphs(t) \/ GenerateCfg(t) \/ (\E a \in Addr : InsertFunction(t, a))
            \/ UNCHANGED todo
         /\ \/ Decode(t) \/ Analyzer(t) \/ (\E a \in Addr : InsertFunction(t, a))
            \/ UNCHANGED functions
         /\ \/ TakeTurn(t) \/ CfgStep(t) \/ AnalyzeStep(t) \/ Decode(t) \/ ScopeEnd(t)
            \/ UNCHANGED weak
         /\ TakeTurn(t) \/ CfgStep(t) \/ AnalyzeStep(t) \/ UNCHANGED mode
         /\ TakeTurn(t) \/ Finish(t) \/ UNCHANGED busy
         /\ \/ Start(t) \/ Ignite(t) \/ StopStep(t) \/ AlgorithmEnd(t) \/ CfgEnd(t)
            \/ Advance(t) \/ AnalyzeRepeat(t) \/ ExecuteEnd(t) \/ UNCHANGED step
         /\ Start(t) \/ Ignite(t) \/ UNCHANGED met
         /\ \/ Decode(t) \/ Analyzer(t) \/ DisassembleBlock(t) \/ EnqueueLocked(t)
            \/ (\E a \in Addr : CheckLocation(t, a) \/ CreateFunction(t, a))
            \/ UNCHANGED given
         /\ \/ Decode(t) \/ DropGraphs(t) \/ GenerateCfg(t) \/ FunctionCfg(t)
            \/ UNCHANGED graphs
         /\ (asked < MaxRequests /\ asked' = asked + 1) \/ UNCHANGED asked
         /\ ignored' = TRUE \/ Waiting \/ UNCHANGED ignored
<1>1. Analyzer(t) \/ UNCHANGED done
  BY DEF Continue, Call, Start, Ignite, Ask, DisassembleBlock, Enqueue, SetFunction,
         DisassembleAt, CheckLocation, CreateFunction, InsertFunction, Request,
         StopStep, AlgorithmStep, TakeTurn, Lock, Decode, ScopeEnd, DrainEnd,
         MergeCode, AlgorithmEnd, CfgStep, DropGraphs, GenerateCfg, CfgEnd, Advance,
         AnalyzeStep, CountFunctions, SkipAnalyzer, FirstPassEnd, AnalyzeRepeat,
         PassEnd, LoopEnd, ExecuteEnd, Finish, EnqueueLocked, FunctionCfg, Leave,
         local, engine, tally, flag, program
<1>2. Decode(t) \/ UNCHANGED decoded
  BY DEF Continue, Call, Start, Ignite, Ask, DisassembleBlock, Enqueue, SetFunction,
         DisassembleAt, CheckLocation, CreateFunction, InsertFunction, Request,
         StopStep, AlgorithmStep, TakeTurn, Lock, ScopeEnd, DrainEnd, MergeCode,
         AlgorithmEnd, CfgStep, DropGraphs, GenerateCfg, CfgEnd, Advance, AnalyzeStep,
         CountFunctions, SkipAnalyzer, Analyzer, FirstPassEnd, AnalyzeRepeat, PassEnd,
         LoopEnd, ExecuteEnd, Finish, EnqueueLocked, FunctionCfg, Leave, local, engine,
         tally, flag, program
<1>3. Decode(t) \/ ScopeEnd(t) \/ UNCHANGED saved
  BY DEF Continue, Call, Start, Ignite, Ask, DisassembleBlock, Enqueue, SetFunction,
         DisassembleAt, CheckLocation, CreateFunction, InsertFunction, Request,
         StopStep, AlgorithmStep, TakeTurn, Lock, DrainEnd, MergeCode, AlgorithmEnd,
         CfgStep, DropGraphs, GenerateCfg, CfgEnd, Advance, AnalyzeStep,
         CountFunctions, SkipAnalyzer, Analyzer, FirstPassEnd, AnalyzeRepeat, PassEnd,
         LoopEnd, ExecuteEnd, Finish, EnqueueLocked, FunctionCfg, Leave, local, engine,
         tally, flag, program
<1>4. CountFunctions(t) \/ AnalyzeRepeat(t) \/ PassEnd(t) \/ UNCHANGED oldfc
  BY DEF Continue, Call, Start, Ignite, Ask, DisassembleBlock, Enqueue, SetFunction,
         DisassembleAt, CheckLocation, CreateFunction, InsertFunction, Request,
         StopStep, AlgorithmStep, TakeTurn, Lock, Decode, ScopeEnd, DrainEnd,
         MergeCode, AlgorithmEnd, CfgStep, DropGraphs, GenerateCfg, CfgEnd, Advance,
         AnalyzeStep, SkipAnalyzer, Analyzer, FirstPassEnd, LoopEnd, ExecuteEnd,
         Finish, EnqueueLocked, FunctionCfg, Leave, local, engine, tally, flag,
         program
<1>5. SkipAnalyzer(t) \/ Analyzer(t) \/ FirstPassEnd(t) \/ PassEnd(t) \/ UNCHANGED current
  BY DEF Continue, Call, Start, Ignite, Ask, DisassembleBlock, Enqueue, SetFunction,
         DisassembleAt, CheckLocation, CreateFunction, InsertFunction, Request,
         StopStep, AlgorithmStep, TakeTurn, Lock, Decode, ScopeEnd, DrainEnd,
         MergeCode, AlgorithmEnd, CfgStep, DropGraphs, GenerateCfg, CfgEnd, Advance,
         AnalyzeStep, CountFunctions, AnalyzeRepeat, LoopEnd, ExecuteEnd, Finish,
         EnqueueLocked, FunctionCfg, Leave, local, engine, tally, flag, program
<1>6. MergeCode(t) \/ UNCHANGED merged
  BY DEF Continue, Call, Start, Ignite, Ask, DisassembleBlock, Enqueue, SetFunction,
         DisassembleAt, CheckLocation, CreateFunction, InsertFunction, Request,
         StopStep, AlgorithmStep, TakeTurn, Lock, Decode, ScopeEnd, DrainEnd,
         AlgorithmEnd, CfgStep, DropGraphs, GenerateCfg, CfgEnd, Advance, AnalyzeStep,
         CountFunctions, SkipAnalyzer, Analyzer, FirstPassEnd, AnalyzeRepeat, PassEnd,
         LoopEnd, ExecuteEnd, Finish, EnqueueLocked, FunctionCfg, Leave, local, engine,
         tally, flag, program
<1>7. \/ DropGraphs(t) \/ GenerateCfg(t) \/ (\E a \in Addr : InsertFunction(t, a))
      \/ UNCHANGED todo
  BY DEF Continue, Call, Start, Ignite, Ask, DisassembleBlock, Enqueue, SetFunction,
         DisassembleAt, CheckLocation, CreateFunction, Request, StopStep,
         AlgorithmStep, TakeTurn, Lock, Decode, ScopeEnd, DrainEnd, MergeCode,
         AlgorithmEnd, CfgStep, CfgEnd, Advance, AnalyzeStep, CountFunctions,
         SkipAnalyzer, Analyzer, FirstPassEnd, AnalyzeRepeat, PassEnd, LoopEnd,
         ExecuteEnd, Finish, EnqueueLocked, FunctionCfg, Leave, local, engine, tally,
         flag, program
<1>8. \/ Decode(t) \/ Analyzer(t) \/ (\E a \in Addr : InsertFunction(t, a))
      \/ UNCHANGED functions
  BY DEF Continue, Call, Start, Ignite, Ask, DisassembleBlock, Enqueue, SetFunction,
         DisassembleAt, CheckLocation, CreateFunction, Request, StopStep,
         AlgorithmStep, TakeTurn, Lock, ScopeEnd, DrainEnd, MergeCode, AlgorithmEnd,
         CfgStep, DropGraphs, GenerateCfg, CfgEnd, Advance, AnalyzeStep,
         CountFunctions, SkipAnalyzer, FirstPassEnd, AnalyzeRepeat, PassEnd, LoopEnd,
         ExecuteEnd, Finish, EnqueueLocked, FunctionCfg, Leave, local, engine, tally,
         flag, program
<1>9. \/ TakeTurn(t) \/ CfgStep(t) \/ AnalyzeStep(t) \/ Decode(t) \/ ScopeEnd(t)
      \/ UNCHANGED weak
  BY DEF Continue, Call, Start, Ignite, Ask, DisassembleBlock, Enqueue, SetFunction,
         DisassembleAt, CheckLocation, CreateFunction, InsertFunction, Request,
         StopStep, AlgorithmStep, Lock, DrainEnd, MergeCode, AlgorithmEnd, DropGraphs,
         GenerateCfg, CfgEnd, Advance, CountFunctions, SkipAnalyzer, Analyzer,
         FirstPassEnd, AnalyzeRepeat, PassEnd, LoopEnd, ExecuteEnd, Finish,
         EnqueueLocked, FunctionCfg, Leave, local, engine, tally, flag, program
<1>10. TakeTurn(t) \/ CfgStep(t) \/ AnalyzeStep(t) \/ UNCHANGED mode
  BY DEF Continue, Call, Start, Ignite, Ask, DisassembleBlock, Enqueue, SetFunction,
         DisassembleAt, CheckLocation, CreateFunction, InsertFunction, Request,
         StopStep, AlgorithmStep, Lock, Decode, ScopeEnd, DrainEnd, MergeCode,
         AlgorithmEnd, DropGraphs, GenerateCfg, CfgEnd, Advance, CountFunctions,
         SkipAnalyzer, Analyzer, FirstPassEnd, AnalyzeRepeat, PassEnd, LoopEnd,
         ExecuteEnd, Finish, EnqueueLocked, FunctionCfg, Leave, local, engine, tally,
         flag, program
<1>11. TakeTurn(t) \/ Finish(t) \/ UNCHANGED busy
  BY DEF Continue, Call, Start, Ignite, Ask, DisassembleBlock, Enqueue, SetFunction,
         DisassembleAt, CheckLocation, CreateFunction, InsertFunction, Request,
         StopStep, AlgorithmStep, Lock, Decode, ScopeEnd, DrainEnd, MergeCode,
         AlgorithmEnd, CfgStep, DropGraphs, GenerateCfg, CfgEnd, Advance, AnalyzeStep,
         CountFunctions, SkipAnalyzer, Analyzer, FirstPassEnd, AnalyzeRepeat, PassEnd,
         LoopEnd, ExecuteEnd, EnqueueLocked, FunctionCfg, Leave, local, engine, tally,
         flag, program
<1>12. \/ Start(t) \/ Ignite(t) \/ StopStep(t) \/ AlgorithmEnd(t) \/ CfgEnd(t)
       \/ Advance(t) \/ AnalyzeRepeat(t) \/ ExecuteEnd(t) \/ UNCHANGED step
  BY DEF Continue, Call, Ask, DisassembleBlock, Enqueue, SetFunction, DisassembleAt,
         CheckLocation, CreateFunction, InsertFunction, Request, AlgorithmStep,
         TakeTurn, Lock, Decode, ScopeEnd, DrainEnd, MergeCode, CfgStep, DropGraphs,
         GenerateCfg, AnalyzeStep, CountFunctions, SkipAnalyzer, Analyzer,
         FirstPassEnd, PassEnd, LoopEnd, Finish, EnqueueLocked, FunctionCfg, Leave,
         local, engine, tally, flag, program
<1>13. Start(t) \/ Ignite(t) \/ UNCHANGED met
  BY DEF Continue, Call, Ask, DisassembleBlock, Enqueue, SetFunction, DisassembleAt,
         CheckLocation, CreateFunction, InsertFunction, Request, StopStep,
         AlgorithmStep, TakeTurn, Lock, Decode, ScopeEnd, DrainEnd, MergeCode,
         AlgorithmEnd, CfgStep, DropGraphs, GenerateCfg, CfgEnd, Advance, AnalyzeStep,
         CountFunctions, SkipAnalyzer, Analyzer, FirstPassEnd, AnalyzeRepeat, PassEnd,
         LoopEnd, ExecuteEnd, Finish, EnqueueLocked, FunctionCfg, Leave, local, engine,
         tally, flag, program
<1>14. \/ Decode(t) \/ Analyzer(t) \/ DisassembleBlock(t) \/ EnqueueLocked(t)
       \/ (\E a \in Addr : CheckLocation(t, a) \/ CreateFunction(t, a)) \/ UNCHANGED given
  BY DEF Continue, Call, Start, Ignite, Ask, Enqueue, SetFunction, DisassembleAt,
         InsertFunction, Request, StopStep, AlgorithmStep, TakeTurn, Lock, ScopeEnd,
         DrainEnd, MergeCode, AlgorithmEnd, CfgStep, DropGraphs, GenerateCfg, CfgEnd,
         Advance, AnalyzeStep, CountFunctions, SkipAnalyzer, FirstPassEnd,
         AnalyzeRepeat, PassEnd, LoopEnd, ExecuteEnd, Finish, FunctionCfg, Leave,
         local, engine, tally, flag, program
<1>15. Decode(t) \/ DropGraphs(t) \/ GenerateCfg(t) \/ FunctionCfg(t) \/ UNCHANGED graphs
  BY DEF Continue, Call, Start, Ignite, Ask, DisassembleBlock, Enqueue, SetFunction,
         DisassembleAt, CheckLocation, CreateFunction, InsertFunction, Request,
         StopStep, AlgorithmStep, TakeTurn, Lock, ScopeEnd, DrainEnd, MergeCode,
         AlgorithmEnd, CfgStep, CfgEnd, Advance, AnalyzeStep, CountFunctions,
         SkipAnalyzer, Analyzer, FirstPassEnd, AnalyzeRepeat, PassEnd, LoopEnd,
         ExecuteEnd, Finish, EnqueueLocked, Leave, local, engine, tally, flag, program
<1>16. (asked < MaxRequests /\ asked' = asked + 1) \/ UNCHANGED asked
  BY DEF Continue, Call, Start, Ignite, Ask, DisassembleBlock, Enqueue, SetFunction,
         DisassembleAt, CheckLocation, CreateFunction, InsertFunction, Request,
         StopStep, AlgorithmStep, TakeTurn, Lock, Decode, ScopeEnd, DrainEnd,
         MergeCode, AlgorithmEnd, CfgStep, DropGraphs, GenerateCfg, CfgEnd, Advance,
         AnalyzeStep, CountFunctions, SkipAnalyzer, Analyzer, FirstPassEnd,
         AnalyzeRepeat, PassEnd, LoopEnd, ExecuteEnd, Finish, EnqueueLocked,
         FunctionCfg, Leave, local, engine, tally, flag, program
<1>17. ignored' = TRUE \/ Waiting \/ UNCHANGED ignored
  BY DEF Continue, Call, Start, Ignite, Ask, DisassembleBlock, Enqueue, SetFunction,
         DisassembleAt, CheckLocation, CreateFunction, InsertFunction, Request,
         StopStep, AlgorithmStep, TakeTurn, Lock, Decode, ScopeEnd, DrainEnd,
         MergeCode, AlgorithmEnd, CfgStep, DropGraphs, GenerateCfg, CfgEnd, Advance,
         AnalyzeStep, CountFunctions, SkipAnalyzer, Analyzer, FirstPassEnd,
         AnalyzeRepeat, PassEnd, LoopEnd, ExecuteEnd, Finish, EnqueueLocked,
         FunctionCfg, Leave, local, engine, tally, flag, program
<1>. QED BY <1>1, <1>2, <1>3, <1>4, <1>5, <1>6, <1>7, <1>8, <1>9, <1>10, <1>11, <1>12,
            <1>13, <1>14, <1>15, <1>16, <1>17

LEMMA StepTypeOK ==
  ASSUME EngineInv, NEW t \in Threads, Continue(t) \/ Call(t)
  PROVE  TypeOK'
<1> USE Frames DEF EngineInv, TypeOK
<1>1. /\ step' \in Steps \cup {"None"} /\ busy' \in BOOLEAN /\ weak' \in BOOLEAN
      /\ met' \in BOOLEAN /\ mode' \in {"guess", "fact", "crossed"}
  <2>1. step' \in Steps \cup {"None"}
    BY NextStepValue DEF Start, Ignite, StopStep, AlgorithmEnd, CfgEnd, Advance, AnalyzeRepeat,
       ExecuteEnd, Steps, LocksControl, Inside, InDrain
  <2>2. busy' \in BOOLEAN
    BY DEF TakeTurn, Finish
  <2>3. weak' \in BOOLEAN
    BY DEF TakeTurn, CfgStep, AnalyzeStep, Decode, ScopeEnd, SetWeak
  <2>4. mode' \in {"guess", "fact", "crossed"}
    BY DEF TakeTurn, CfgStep, AnalyzeStep, SetWeak
  <2>5. met' \in BOOLEAN
    BY DEF Start, Ignite, Enter
  <2>. QED BY <2>1, <2>2, <2>3, <2>4, <2>5
<1>2. functions' \subseteq Addr /\ functions \subseteq functions'
  <2>1. CASE Decode(t)
    BY <2>1 DEF Decode
  <2>2. CASE Analyzer(t)
    BY <2>2 DEF Analyzer
  <2>3. ASSUME NEW a \in Addr, InsertFunction(t, a)
        PROVE  functions' \subseteq Addr /\ functions \subseteq functions'
    BY <2>3 DEF InsertFunction
  <2>. QED BY <2>1, <2>2, <2>3
<1>3. merged' \subseteq Addr
  BY DEF MergeCode
<1>4. decoded' \in [Addr -> 0 .. MaxDecodes]
  <2>1. CASE Decode(t)
    <3>1. CASE UNCHANGED decoded
      BY <3>1
    <3>2. ASSUME NEW a \in Addr, decoded[a] < MaxDecodes, decoded' = [decoded EXCEPT ![a] = @ + 1]
          PROVE  decoded' \in [Addr -> 0 .. MaxDecodes]
      BY <3>2, BoundsAssumption
    <3>3. \/ UNCHANGED decoded
          \/ \E a \in Addr : decoded[a] < MaxDecodes /\ decoded' = [decoded EXCEPT ![a] = @ + 1]
      BY <2>1 DEF Decode, Valid
    <3>. QED BY <3>1, <3>2, <3>3
  <2>. QED BY <2>1
<1>5. saved' \in [Threads -> BOOLEAN]
  BY DEF Decode, ScopeEnd
<1>6. todo' \in [Threads -> SUBSET functions']
  <2>1. CASE DropGraphs(t)
    BY <2>1 DEF DropGraphs
  <2>2. CASE GenerateCfg(t)
    BY <2>2 DEF GenerateCfg
  <2>3. ASSUME NEW a \in Addr, InsertFunction(t, a) PROVE todo' \in [Threads -> SUBSET functions']
    <3>1. CASE UNCHANGED todo
      BY <1>2, <3>1
    <3>2. ASSUME NEW seen \in SUBSET functions',
                 todo' = [u \in Threads |-> IF pc[u] = "build" THEN seen ELSE todo[u]]
          PROVE  todo' \in [Threads -> SUBSET functions']
      BY <1>2, <3>2
    <3>. QED BY <2>3, <3>1, <3>2 DEF InsertFunction
  <2>4. CASE UNCHANGED todo
    BY <1>2, <2>4
  <2>. QED BY <2>1, <2>2, <2>3, <2>4
<1>7. done' \in [1 .. Count -> 0 .. 2]
  <2>1. CASE Analyzer(t)
    <3>1. PICK i \in 1 .. Count : done' = [done EXCEPT ![i] = IF @ < 2 THEN @ + 1 ELSE @]
      BY <2>1 DEF Analyzer
    <3>2. done[i] \in 0 .. 2
      OBVIOUS
    <3>. QED BY <3>1, <3>2
  <2>. QED BY <2>1
<1>8. current' \in [Threads -> 1 .. Count + 1]
  <2>1. CASE SkipAnalyzer(t) \/ Analyzer(t)
    <3>1. current[t] + 1 \in 1 .. Count + 1 /\ current' = [current EXCEPT ![t] = @ + 1]
      BY <2>1, AnalyzersAssumption DEF SkipAnalyzer, Analyzer
    <3>. QED BY <3>1
  <2>2. CASE current' = [current EXCEPT ![t] = 1]
    BY <2>2, AnalyzersAssumption
  <2>. QED BY <2>1, <2>2 DEF FirstPassEnd, PassEnd
<1>9. oldfc' \in [Threads -> Nat]
  <2>1. Cardinality(functions) \in Nat
    BY CountType
  <2>2. CASE CountFunctions(t)
    BY <2>1, <2>2 DEF CountFunctions
  <2>3. CASE AnalyzeRepeat(t)
    BY <2>3 DEF AnalyzeRepeat
  <2>4. CASE PassEnd(t)
    <3>1. PICK n \in Nat : oldfc' = [oldfc EXCEPT ![t] = n]
      BY <2>1, <2>4 DEF PassEnd
    <3>. QED BY <3>1
  <2>. QED BY <2>2, <2>3, <2>4
<1>10. pc' \in [Threads -> Places]
  <2>1. pc' = [pc EXCEPT ![t] = pc'[t]] /\ pc'[t] \in Places
    <3> USE DEF Goto, Leave, Enter, Places, local
    <3>0. CASE Decode(t)
      BY <3>0 DEF Decode
    <3>5. CASE DrainEnd(t) \/ CfgEnd(t)
      BY <3>5 DEF DrainEnd, CfgEnd, ReturnsWhere, InDrain
    <3>1. CASE Call(t)
      BY <3>1 DEF Call, Start, Ignite, Ask, DisassembleBlock, Enqueue, SetFunction, DisassembleAt,
                CheckLocation, CreateFunction, InsertFunction, Request
    <3>2. CASE \/ StopStep(t) \/ AlgorithmStep(t) \/ TakeTurn(t) \/ Lock(t)
             \/ ScopeEnd(t) \/ MergeCode(t) \/ AlgorithmEnd(t)
      BY <3>2 DEF StopStep, AlgorithmStep, TakeTurn, Lock, ScopeEnd, MergeCode,
                AlgorithmEnd
    <3>3. CASE \/ CfgStep(t) \/ DropGraphs(t) \/ GenerateCfg(t) \/ Advance(t)
             \/ AnalyzeStep(t) \/ CountFunctions(t) \/ SkipAnalyzer(t) \/ Analyzer(t)
      BY <3>3 DEF CfgStep, DropGraphs, GenerateCfg, Advance, AnalyzeStep, CountFunctions,
                SkipAnalyzer, Analyzer
    <3>4. CASE \/ FirstPassEnd(t) \/ AnalyzeRepeat(t) \/ PassEnd(t) \/ LoopEnd(t)
             \/ ExecuteEnd(t) \/ Finish(t) \/ EnqueueLocked(t) \/ FunctionCfg(t)
      BY <3>4 DEF FirstPassEnd, AnalyzeRepeat, PassEnd, LoopEnd, ExecuteEnd, Finish, EnqueueLocked,
                FunctionCfg
    <3>. QED BY <3>0, <3>1, <3>2, <3>3, <3>4, <3>5 DEF Continue
  <2>. QED BY <2>1
<1>11. back' \in [Threads -> WaysBack]
  <2>1. back' = [back EXCEPT ![t] = back'[t]] /\ back'[t] \in WaysBack
    <3> USE DEF WaysBack, local
    <3>1. CASE Call(t)
      BY <3>1 DEF Call, Start, Ignite, Ask, DisassembleBlock, Enqueue, SetFunction, DisassembleAt,
                CheckLocation, CreateFunction, InsertFunction, Request
    <3>2. CASE \/ StopStep(t) \/ AlgorithmStep(t) \/ TakeTurn(t) \/ Lock(t) \/ Decode(t)
             \/ ScopeEnd(t) \/ DrainEnd(t) \/ MergeCode(t) \/ AlgorithmEnd(t)
      BY <3>2 DEF StopStep, AlgorithmStep, TakeTurn, Lock, Decode, ScopeEnd, DrainEnd, MergeCode,
                AlgorithmEnd
    <3>3. CASE \/ CfgStep(t) \/ DropGraphs(t) \/ GenerateCfg(t) \/ CfgEnd(t) \/ Advance(t)
             \/ AnalyzeStep(t) \/ CountFunctions(t) \/ SkipAnalyzer(t) \/ Analyzer(t)
      BY <3>3 DEF CfgStep, DropGraphs, GenerateCfg, CfgEnd, Advance, AnalyzeStep, CountFunctions,
                SkipAnalyzer, Analyzer
    <3>4. CASE \/ FirstPassEnd(t) \/ AnalyzeRepeat(t) \/ PassEnd(t) \/ LoopEnd(t)
             \/ ExecuteEnd(t) \/ Finish(t) \/ EnqueueLocked(t) \/ FunctionCfg(t)
      BY <3>4 DEF FirstPassEnd, AnalyzeRepeat, PassEnd, LoopEnd, ExecuteEnd, Finish, EnqueueLocked,
                FunctionCfg
    <3>. QED BY <3>1, <3>2, <3>3, <3>4 DEF Continue
  <2>. QED BY <2>1
<1>12. pending' \subseteq Addr
  <2> USE DEF Valid, program
  <2>1. CASE Call(t)
    BY <2>1 DEF Call, Start, Ignite, Ask, DisassembleBlock, Enqueue, SetFunction, DisassembleAt,
                CheckLocation, CreateFunction, InsertFunction, Request
  <2>2. CASE \/ StopStep(t) \/ AlgorithmStep(t) \/ TakeTurn(t) \/ Lock(t) \/ Decode(t)
             \/ ScopeEnd(t) \/ DrainEnd(t) \/ MergeCode(t) \/ AlgorithmEnd(t)
    BY <2>2 DEF StopStep, AlgorithmStep, TakeTurn, Lock, Decode, ScopeEnd, DrainEnd, MergeCode,
                AlgorithmEnd
  <2>3. CASE \/ CfgStep(t) \/ DropGraphs(t) \/ GenerateCfg(t) \/ CfgEnd(t) \/ Advance(t)
             \/ AnalyzeStep(t) \/ CountFunctions(t) \/ SkipAnalyzer(t) \/ Analyzer(t)
    BY <2>3 DEF CfgStep, DropGraphs, GenerateCfg, CfgEnd, Advance, AnalyzeStep, CountFunctions,
                SkipAnalyzer, Analyzer
  <2>4. CASE \/ FirstPassEnd(t) \/ AnalyzeRepeat(t) \/ PassEnd(t) \/ LoopEnd(t)
             \/ ExecuteEnd(t) \/ Finish(t) \/ EnqueueLocked(t) \/ FunctionCfg(t)
    BY <2>4 DEF FirstPassEnd, AnalyzeRepeat, PassEnd, LoopEnd, ExecuteEnd, Finish, EnqueueLocked,
                FunctionCfg
  <2>. QED BY <2>1, <2>2, <2>3, <2>4 DEF Continue
<1>13. given' \in [Threads -> SUBSET Addr]
  <2>1. CASE Decode(t)
    BY <2>1 DEF Decode
  <2>4. CASE Analyzer(t)
    BY <2>4 DEF Analyzer, local
  <2>2. CASE DisassembleBlock(t) \/ EnqueueLocked(t)
    BY <2>2 DEF DisassembleBlock, EnqueueLocked
  <2>3. ASSUME NEW a \in Addr, CheckLocation(t, a) \/ CreateFunction(t, a)
        PROVE  given' \in [Threads -> SUBSET Addr]
    <3>1. given' = [given EXCEPT ![t] = {a}]
      BY <2>3 DEF CheckLocation, CreateFunction
    <3>. QED BY <3>1
  <2>. QED BY <2>1, <2>2, <2>3, <2>4
<1>14. graphs' \subseteq functions'
  <2>1. CASE Decode(t)
    BY <1>2, <2>1 DEF Decode
  <2>2. CASE DropGraphs(t) \/ GenerateCfg(t) \/ FunctionCfg(t)
    BY <2>2 DEF DropGraphs, GenerateCfg, FunctionCfg
  <2>. QED BY <1>2, <2>1, <2>2
<1>15. touched' \subseteq Threads
  <2> USE DEF Disturb, Leave
  <2>1. CASE Call(t)
    BY <2>1 DEF Call, Start, Ignite, Ask, DisassembleBlock, Enqueue, SetFunction, DisassembleAt,
                CheckLocation, CreateFunction, InsertFunction, Request
  <2>2. CASE \/ StopStep(t) \/ AlgorithmStep(t) \/ TakeTurn(t) \/ Lock(t) \/ Decode(t)
             \/ ScopeEnd(t) \/ DrainEnd(t) \/ MergeCode(t) \/ AlgorithmEnd(t)
    BY <2>2 DEF StopStep, AlgorithmStep, TakeTurn, Lock, Decode, ScopeEnd, DrainEnd, MergeCode,
                AlgorithmEnd
  <2>3. CASE \/ CfgStep(t) \/ DropGraphs(t) \/ GenerateCfg(t) \/ CfgEnd(t) \/ Advance(t)
             \/ AnalyzeStep(t) \/ CountFunctions(t) \/ SkipAnalyzer(t) \/ Analyzer(t)
    BY <2>3 DEF CfgStep, DropGraphs, GenerateCfg, CfgEnd, Advance, AnalyzeStep, CountFunctions,
                SkipAnalyzer, Analyzer
  <2>4. CASE \/ FirstPassEnd(t) \/ AnalyzeRepeat(t) \/ PassEnd(t) \/ LoopEnd(t)
             \/ ExecuteEnd(t) \/ Finish(t) \/ EnqueueLocked(t) \/ FunctionCfg(t)
    BY <2>4 DEF FirstPassEnd, AnalyzeRepeat, PassEnd, LoopEnd, ExecuteEnd, Finish, EnqueueLocked,
                FunctionCfg
  <2>. QED BY <2>1, <2>2, <2>3, <2>4 DEF Continue
<1>16. asked' \in 0 .. MaxRequests /\ ignored' \in BOOLEAN
  <2>1. asked' \in 0 .. MaxRequests
    <3>1. asked \in Nat /\ asked <= MaxRequests /\ MaxRequests \in Nat
      BY BoundsAssumption
    <3>2. asked' = asked \/ (asked < MaxRequests /\ asked' = asked + 1)
      OBVIOUS
    <3> HIDE Frames DEF EngineInv, TypeOK
    <3>. QED BY <3>1, <3>2
  <2>2. ignored' \in BOOLEAN
    BY DEF Waiting
  <2>. QED BY <2>1, <2>2
<1>. QED BY <1>1, <1>2, <1>3, <1>4, <1>5, <1>6, <1>7, <1>8, <1>9, <1>10, <1>11, <1>12,
            <1>13, <1>14, <1>15, <1>16

LEMMA StepReturns ==
  ASSUME EngineInv, NEW t \in Threads, Continue(t) \/ Call(t)
  PROVE  \A u \in Threads : ReturnsWhere(u)'
<1>1. ASSUME NEW u \in Threads, u # t PROVE ReturnsWhere(u)'
  BY <1>1, OneThreadMoves DEF EngineInv, ReturnsWhere, InDrain
<1>2. ReturnsWhere(t)'
  <2> USE DEF EngineInv, TypeOK, ReturnsWhere, InDrain, Goto, Leave, Enter, local, engine, tally
  <2>1. CASE Call(t)
    BY <2>1 DEF Call, Start, Ignite, Ask, DisassembleBlock, Enqueue, SetFunction, DisassembleAt,
                CheckLocation, CreateFunction, Request
  <2>2. CASE \/ StopStep(t) \/ AlgorithmStep(t) \/ TakeTurn(t) \/ Lock(t) \/ Decode(t)
             \/ ScopeEnd(t) \/ DrainEnd(t) \/ MergeCode(t) \/ AlgorithmEnd(t)
    BY <2>2 DEF StopStep, AlgorithmStep, TakeTurn, Lock, Decode, ScopeEnd, DrainEnd, MergeCode,
                AlgorithmEnd
  <2>3. CASE \/ CfgStep(t) \/ DropGraphs(t) \/ GenerateCfg(t) \/ CfgEnd(t) \/ Advance(t)
             \/ AnalyzeStep(t) \/ CountFunctions(t) \/ SkipAnalyzer(t) \/ Analyzer(t)
    BY <2>3 DEF CfgStep, DropGraphs, GenerateCfg, CfgEnd, Advance, AnalyzeStep, CountFunctions,
                SkipAnalyzer, Analyzer
  <2>4. CASE \/ FirstPassEnd(t) \/ AnalyzeRepeat(t) \/ PassEnd(t) \/ LoopEnd(t)
             \/ ExecuteEnd(t) \/ Finish(t) \/ EnqueueLocked(t) \/ FunctionCfg(t)
    BY <2>4 DEF FirstPassEnd, AnalyzeRepeat, PassEnd, LoopEnd, ExecuteEnd, Finish, EnqueueLocked,
                FunctionCfg
  <2>. QED BY <2>1, <2>2, <2>3, <2>4 DEF Continue
<1>. QED BY <1>1, <1>2

(* Who is inside execute(), or has the Algorithm, came there by few steps.  *)
LEMMA OthersWhere ==
  ASSUME EngineInv, NEW t \in Threads, Continue(t) \/ Call(t), NEW u \in Threads, u # t
  PROVE  /\ Inside(u)' <=> Inside(u)
         /\ InDrain(u)' <=> InDrain(u)
         /\ HoldsAlgorithm(u)' <=> HoldsAlgorithm(u)
BY OneThreadMoves DEF Inside, InDrain, HoldsAlgorithm

LEMMA Enters ==
  ASSUME EngineInv, NEW t \in Threads, Continue(t) \/ Call(t)
  PROVE  /\ Inside(t)' => Inside(t) \/ Start(t) \/ Ignite(t)
         /\ HoldsAlgorithm(t)' => HoldsAlgorithm(t) \/ Lock(t)
<1> USE DEF EngineInv, TypeOK, ReturnsWhere, Inside, InDrain, HoldsAlgorithm, Goto, Leave, local
<1>1. Inside(t)' => Inside(t) \/ Start(t) \/ Ignite(t)
  <2>0. CASE Start(t) \/ Ignite(t)
    BY <2>0
  <2>1. CASE Call(t) /\ ~Start(t) /\ ~Ignite(t)
    BY <2>1 DEF Call, Ask, DisassembleBlock, Enqueue, SetFunction, DisassembleAt,
                CheckLocation, CreateFunction, InsertFunction, Request
  <2>2. CASE \/ StopStep(t) \/ AlgorithmStep(t) \/ TakeTurn(t) \/ Lock(t) \/ Decode(t)
             \/ ScopeEnd(t) \/ DrainEnd(t) \/ MergeCode(t) \/ AlgorithmEnd(t)
    BY <2>2 DEF StopStep, AlgorithmStep, TakeTurn, Lock, Decode, ScopeEnd, DrainEnd, MergeCode,
                AlgorithmEnd
  <2>3. CASE \/ CfgStep(t) \/ DropGraphs(t) \/ GenerateCfg(t) \/ CfgEnd(t) \/ Advance(t)
             \/ AnalyzeStep(t) \/ CountFunctions(t) \/ SkipAnalyzer(t) \/ Analyzer(t)
    BY <2>3 DEF CfgStep, DropGraphs, GenerateCfg, CfgEnd, Advance, AnalyzeStep, CountFunctions,
                SkipAnalyzer, Analyzer
  <2>4. CASE \/ FirstPassEnd(t) \/ AnalyzeRepeat(t) \/ PassEnd(t) \/ LoopEnd(t)
             \/ ExecuteEnd(t) \/ Finish(t) \/ EnqueueLocked(t) \/ FunctionCfg(t)
    BY <2>4 DEF FirstPassEnd, AnalyzeRepeat, PassEnd, LoopEnd, ExecuteEnd, Finish, EnqueueLocked,
                FunctionCfg
  <2>. QED BY <2>0, <2>1, <2>2, <2>3, <2>4 DEF Continue
<1>2. HoldsAlgorithm(t)' => HoldsAlgorithm(t) \/ Lock(t)
  <2>1. CASE Call(t)
    BY <2>1 DEF Call, Enter, Start, Ignite, Ask, DisassembleBlock, Enqueue, SetFunction, DisassembleAt,
                CheckLocation, CreateFunction, InsertFunction, Request
  <2>2. CASE \/ StopStep(t) \/ AlgorithmStep(t) \/ TakeTurn(t) \/ Lock(t) \/ Decode(t)
             \/ ScopeEnd(t) \/ DrainEnd(t) \/ MergeCode(t) \/ AlgorithmEnd(t)
    BY <2>2 DEF StopStep, AlgorithmStep, TakeTurn, Decode, ScopeEnd, DrainEnd, MergeCode,
                AlgorithmEnd
  <2>3. CASE \/ CfgStep(t) \/ DropGraphs(t) \/ GenerateCfg(t) \/ CfgEnd(t) \/ Advance(t)
             \/ AnalyzeStep(t) \/ CountFunctions(t) \/ SkipAnalyzer(t) \/ Analyzer(t)
    BY <2>3 DEF CfgStep, DropGraphs, GenerateCfg, CfgEnd, Advance, AnalyzeStep, CountFunctions,
                SkipAnalyzer, Analyzer
  <2>4. CASE \/ FirstPassEnd(t) \/ AnalyzeRepeat(t) \/ PassEnd(t) \/ LoopEnd(t)
             \/ ExecuteEnd(t) \/ Finish(t) \/ EnqueueLocked(t) \/ FunctionCfg(t)
    BY <2>4 DEF FirstPassEnd, AnalyzeRepeat, PassEnd, LoopEnd, ExecuteEnd, Finish, EnqueueLocked,
                FunctionCfg
  <2>. QED BY <2>1, <2>2, <2>3, <2>4 DEF Continue
<1>. QED BY <1>1, <1>2

LEMMA StepLocks ==
  ASSUME EngineInv, NEW t \in Threads, Continue(t) \/ Call(t)
  PROVE  LocksControl'
<1> USE DEF EngineInv, LocksControl
<1>1. \A u \in Threads \ {t} : HoldsAlgorithm(u)' /\ HoldsAlgorithm(t)' => FALSE
  BY OthersWhere, Enters DEF Lock, AlgorithmFree
<1>2. \A u, v \in Threads : HoldsAlgorithm(u)' /\ HoldsAlgorithm(v)' => u = v
  BY <1>1, OthersWhere
<1>3. step # "None" => step' # "None"
  BY Frames, NextStepValue
     DEF Start, Ignite, StopStep, AlgorithmEnd, CfgEnd, Advance, AnalyzeRepeat, ExecuteEnd,
         TypeOK, Steps
<1>4. Start(t) \/ Ignite(t) => step' # "None"
  BY DEF Start, Ignite
<1>5. \A u \in Threads : Inside(u)' => step' # "None"
  BY <1>3, <1>4, OthersWhere, Enters
<1>. QED BY <1>2, <1>5

LEMMA StepAlone ==
  ASSUME EngineInv, NEW t \in Threads, Continue(t) \/ Call(t)
  PROVE  AloneControl'
<1> SUFFICES ASSUME ~met' PROVE /\ \A u, v \in Threads : Inside(u)' /\ Inside(v)' => u = v
                                /\ \A u \in Threads : pc'[u] = "ending" => step' = "Done"
  BY DEF AloneControl
<1>1. CASE Start(t) \/ Ignite(t)
  <2>1. \A u \in Threads \ {t} : ~Inside(u) /\ ~Inside(u)'
    BY <1>1, OthersWhere DEF Start, Ignite, Enter
  <2>2. \A u \in Threads : pc'[u] # "ending"
    <3>1. pc'[t] = "loop"
      BY <1>1 DEF Start, Ignite, Enter, Goto, EngineInv, TypeOK
    <3>2. \A u \in Threads \ {t} : pc'[u] # "ending"
      BY <2>1 DEF Inside, InDrain
    <3>. QED BY <3>1, <3>2
  <2>. QED BY <2>1, <2>2
<1>2. CASE ~(Start(t) \/ Ignite(t))
  <2>1. /\ met' = met
        /\ \A u, v \in Threads : Inside(u) /\ Inside(v) => u = v
        /\ \A u \in Threads : pc[u] = "ending" => step = "Done"
    BY <1>2, Frames DEF EngineInv, AloneControl
  <2>2. \A u \in Threads : Inside(u)' => Inside(u)
    BY <1>2, OthersWhere, Enters
  <2>3. ASSUME NEW u \in Threads, pc'[u] = "ending" PROVE step' = "Done"
    <3>1. CASE u # t
      <4>1. Inside(u) /\ ~Inside(t) /\ step = "Done"
        BY <2>1, <2>3, <3>1, OneThreadMoves DEF Inside, InDrain
      <4>2. step' = step
        BY <4>1, <1>2, Frames
           DEF StopStep, AlgorithmEnd, CfgEnd, Advance, AnalyzeRepeat, ExecuteEnd, Inside, InDrain
      <4>. QED BY <4>1, <4>2
    <3>2. CASE u = t
      <4> USE <2>3, <3>2 DEF EngineInv, TypeOK, ReturnsWhere, InDrain, Goto, Leave, Enter, local,
                             engine
      <4>1. CASE Call(t)
        BY <4>1 DEF Call, Start, Ignite, Ask, DisassembleBlock, Enqueue, SetFunction, DisassembleAt,
                CheckLocation, CreateFunction, InsertFunction, Request
      <4>2. CASE \/ StopStep(t) \/ AlgorithmStep(t) \/ TakeTurn(t) \/ Lock(t) \/ Decode(t)
             \/ ScopeEnd(t) \/ DrainEnd(t) \/ MergeCode(t) \/ AlgorithmEnd(t)
        BY <4>2 DEF StopStep, AlgorithmStep, TakeTurn, Lock, Decode, ScopeEnd, DrainEnd, MergeCode,
                AlgorithmEnd
      <4>3. CASE \/ CfgStep(t) \/ DropGraphs(t) \/ GenerateCfg(t) \/ CfgEnd(t) \/ Advance(t)
             \/ AnalyzeStep(t) \/ CountFunctions(t) \/ SkipAnalyzer(t) \/ Analyzer(t)
        BY <4>3 DEF CfgStep, DropGraphs, GenerateCfg, CfgEnd, Advance, AnalyzeStep, CountFunctions,
                SkipAnalyzer, Analyzer
      <4>4. CASE \/ FirstPassEnd(t) \/ AnalyzeRepeat(t) \/ PassEnd(t) \/ LoopEnd(t)
             \/ ExecuteEnd(t) \/ Finish(t) \/ EnqueueLocked(t) \/ FunctionCfg(t)
        BY <4>4 DEF FirstPassEnd, AnalyzeRepeat, PassEnd, LoopEnd, ExecuteEnd, Finish, EnqueueLocked,
                FunctionCfg
      <4>. QED BY <4>1, <4>2, <4>3, <4>4 DEF Continue
    <3>. QED BY <3>1, <3>2
  <2>. QED BY <2>1, <2>2, <2>3
<1>. QED BY <1>1, <1>2

LEMMA StepBusy ==
  ASSUME EngineInv, NEW t \in Threads, Continue(t) \/ Call(t)
  PROVE  BusyWhileWorking'
<1> SUFFICES ASSUME ~met'
             PROVE  /\ \A u \in Threads : Inside(u)' /\ pc'[u] \notin {"loop", "turn"} => busy'
                    /\ \A u \in Threads : pc'[u] = "loop" /\ step' \in {"CFG", "Analyze", "Done"}
                                            => busy'
                    /\ (\A u \in Threads : ~Inside(u)') => ~busy'
  BY DEF BusyWhileWorking
<1>1. CASE Start(t) \/ Ignite(t)
  <2>1. \A u \in Threads \ {t} : ~Inside(u)'
    BY <1>1, OthersWhere DEF Start, Ignite, Enter
  <2>2. pc'[t] = "loop" /\ step' \in {"Stop", "Algorithm"}
    BY <1>1 DEF Start, Ignite, Enter, Goto, EngineInv, TypeOK
  <2>. QED BY <2>1, <2>2 DEF Inside, InDrain
<1>2. CASE ~(Start(t) \/ Ignite(t))
  <2>1. ~met /\ (\A u, v \in Threads : Inside(u) /\ Inside(v) => u = v)
    BY <1>2, Frames DEF EngineInv, AloneControl
  <2>2. /\ \A u \in Threads : Inside(u) /\ pc[u] \notin {"loop", "turn"} => busy
        /\ \A u \in Threads : pc[u] = "loop" /\ step \in {"CFG", "Analyze", "Done"} => busy
        /\ (\A u \in Threads : ~Inside(u)) => ~busy
        /\ \A u \in Threads : pc[u] = "ending" => step = "Done"
    BY <2>1 DEF EngineInv, BusyWhileWorking, AloneControl
  <2>3. ~Inside(t) => busy' = busy /\ step' = step
    BY <1>2, Frames
       DEF StopStep, AlgorithmEnd, CfgEnd, Advance, AnalyzeRepeat, ExecuteEnd, TakeTurn, Finish,
           Inside, InDrain
  <2>4. ASSUME NEW u \in Threads, u # t, Inside(u)'
        PROVE  /\ pc'[u] \notin {"loop", "turn"} => busy'
               /\ pc'[u] = "loop" /\ step' \in {"CFG", "Analyze", "Done"} => busy'
    BY <2>1, <2>2, <2>3, <2>4, OthersWhere, OneThreadMoves
  <2>5. /\ Inside(t)' /\ pc'[t] \notin {"loop", "turn"} => busy'
        /\ pc'[t] = "loop" /\ step' \in {"CFG", "Analyze", "Done"} => busy'
        /\ Inside(t) /\ ~Inside(t)' => ~busy'
    <3> USE <2>2 DEF EngineInv, TypeOK, ReturnsWhere, Inside, InDrain, Goto, Leave, local, engine,
                     Steps, tally
    <3>1. CASE Call(t)
      BY <3>1, <1>2 DEF Call, Ask, DisassembleBlock, Enqueue, SetFunction, DisassembleAt,
                        CheckLocation, CreateFunction, InsertFunction, Request
    <3>2. CASE StopStep(t) \/ AlgorithmStep(t) \/ TakeTurn(t) \/ MergeCode(t) \/ AlgorithmEnd(t)
      BY <3>2, NextStepValue DEF StopStep, AlgorithmStep, TakeTurn, MergeCode, AlgorithmEnd
    <3>3. CASE Lock(t) \/ Decode(t) \/ ScopeEnd(t) \/ DrainEnd(t)
      BY <3>3 DEF Lock, Decode, ScopeEnd, DrainEnd
    <3>4. CASE \/ CfgStep(t) \/ DropGraphs(t) \/ GenerateCfg(t) \/ CfgEnd(t) \/ Advance(t)
             \/ AnalyzeStep(t) \/ CountFunctions(t) \/ SkipAnalyzer(t) \/ Analyzer(t)
      BY <3>4 DEF CfgStep, DropGraphs, GenerateCfg, CfgEnd, Advance, AnalyzeStep, CountFunctions,
                SkipAnalyzer, Analyzer
    <3>5. CASE \/ FirstPassEnd(t) \/ AnalyzeRepeat(t) \/ PassEnd(t) \/ LoopEnd(t)
             \/ ExecuteEnd(t) \/ Finish(t) \/ EnqueueLocked(t) \/ FunctionCfg(t)
      BY <3>5 DEF FirstPassEnd, AnalyzeRepeat, PassEnd, LoopEnd, ExecuteEnd, Finish, EnqueueLocked,
                FunctionCfg
    <3>. QED BY <3>1, <3>2, <3>3, <3>4, <3>5 DEF Continue
  <2>6. ASSUME NEW u \in Threads, pc'[u] = "loop" PROVE Inside(u)'
    BY <2>6 DEF Inside, InDrain
  <2>7. (\A u \in Threads : ~Inside(u)') => ~busy'
    BY <2>2, <2>3, <2>5, OthersWhere
  <2>. QED BY <2>4, <2>5, <2>6, <2>7
<1>. QED BY <1>1, <1>2

LEMMA StepFlag ==
  ASSUME EngineInv, NEW t \in Threads, Continue(t) \/ Call(t)
  PROVE  FlagControl'
<1> SUFFICES ASSUME mode' # "crossed"
             PROVE  /\ (\A u \in Threads : pc'[u] # "scope") => weak' = (mode' = "guess")
                    /\ \A u \in Threads : pc'[u] = "scope" => /\ saved'[u] = (mode' = "guess")
                                                              /\ weak' = (step' # "None")
  BY DEF FlagControl
<1>1. CASE TakeTurn(t) \/ CfgStep(t) \/ AnalyzeStep(t)
  <2>1. PICK b \in BOOLEAN : SetWeak(t, b)
    BY <1>1 DEF TakeTurn, CfgStep, AnalyzeStep
  <2>2. \A u \in Threads \ {t} : pc[u] # "scope"
    BY <2>1 DEF SetWeak
  <2>3. pc'[t] # "scope"
    BY <1>1 DEF TakeTurn, CfgStep, AnalyzeStep, Goto, EngineInv, TypeOK
  <2>4. weak' = (mode' = "guess")
    BY <2>1, <2>2 DEF SetWeak
  <2>. QED BY <2>2, <2>3, <2>4, OneThreadMoves
<1>2. CASE Decode(t)
  <2>1. mode' = mode /\ step' = step /\ pc[t] = "drain"
    BY <1>2 DEF Decode
  <2>2. \A u \in Threads : pc[u] # "scope"
    BY <2>1 DEF EngineInv, LocksControl, HoldsAlgorithm
  <2>3. weak = (mode = "guess")
    BY <2>1, <2>2 DEF EngineInv, FlagControl
  <2>4. \A u \in Threads \ {t} : pc'[u] # "scope"
    BY <2>2, OneThreadMoves
  <2>5. \/ pc'[t] = "scope" /\ saved'[t] = weak /\ weak' = (step # "None")
        \/ pc'[t] = "drain" /\ weak' = weak
    BY <1>2 DEF Decode, Goto, EngineInv, TypeOK
  <2>. QED BY <2>1, <2>3, <2>4, <2>5
<1>3. CASE ScopeEnd(t)
  <2>1. mode' = mode /\ pc[t] = "scope" /\ weak' = saved[t] /\ pc'[t] = "drain"
    BY <1>3 DEF ScopeEnd, Goto, EngineInv, TypeOK
  <2>2. \A u \in Threads \ {t} : pc'[u] # "scope"
    BY <2>1, OneThreadMoves DEF EngineInv, LocksControl, HoldsAlgorithm
  <2>3. saved[t] = (mode = "guess")
    BY <2>1 DEF EngineInv, FlagControl
  <2>. QED BY <2>1, <2>2, <2>3
<1>4. CASE ~(TakeTurn(t) \/ CfgStep(t) \/ AnalyzeStep(t) \/ Decode(t) \/ ScopeEnd(t))
  <2>1. weak' = weak /\ mode' = mode /\ saved' = saved
    BY <1>4, Frames
  <2>2. pc[t] # "scope" /\ pc'[t] # "scope"
    <3> USE <1>4 DEF EngineInv, TypeOK, ReturnsWhere, InDrain, Goto, Leave, Enter, local
    <3>1. CASE Call(t)
      BY <3>1 DEF Call, Start, Ignite, Ask, DisassembleBlock, Enqueue, SetFunction, DisassembleAt,
                CheckLocation, CreateFunction, InsertFunction, Request
    <3>2. CASE \/ StopStep(t) \/ AlgorithmStep(t) \/ Lock(t)
             \/ DrainEnd(t) \/ MergeCode(t) \/ AlgorithmEnd(t)
      BY <3>2 DEF StopStep, AlgorithmStep, Lock, DrainEnd, MergeCode,
                AlgorithmEnd
    <3>3. CASE \/ DropGraphs(t) \/ GenerateCfg(t) \/ CfgEnd(t) \/ Advance(t)
             \/ CountFunctions(t) \/ SkipAnalyzer(t) \/ Analyzer(t)
      BY <3>3 DEF DropGraphs, GenerateCfg, CfgEnd, Advance, CountFunctions,
                SkipAnalyzer, Analyzer
    <3>4. CASE \/ FirstPassEnd(t) \/ AnalyzeRepeat(t) \/ PassEnd(t) \/ LoopEnd(t)
             \/ ExecuteEnd(t) \/ Finish(t) \/ EnqueueLocked(t) \/ FunctionCfg(t)
      BY <3>4 DEF FirstPassEnd, AnalyzeRepeat, PassEnd, LoopEnd, ExecuteEnd, Finish, EnqueueLocked,
                FunctionCfg
    <3>. QED BY <3>1, <3>2, <3>3, <3>4 DEF Continue
  <2>3. (\E u \in Threads : pc[u] = "scope") => (step # "None" <=> step' # "None")
    <3>1. ~Start(t) => (step # "None" <=> step' # "None")
      BY Frames, NextStepValue
         DEF Ignite, StopStep, AlgorithmEnd, CfgEnd, Advance, AnalyzeRepeat, ExecuteEnd,
             EngineInv, LocksControl, Inside, InDrain, TypeOK, Steps
    <3>2. Start(t) => \A u \in Threads : pc[u] # "scope"
      BY <2>2 DEF Start, AlgorithmFree, HoldsAlgorithm
    <3>. QED BY <3>1, <3>2
  <2>. QED BY <2>1, <2>2, <2>3, OneThreadMoves DEF EngineInv, FlagControl
<1>. QED BY <1>1, <1>2, <1>3, <1>4

LEMMA StepMode ==
  ASSUME EngineInv, NEW t \in Threads, Continue(t) \/ Call(t)
  PROVE  ModeControl'
<1> DEFINE Agrees(u) ==
      /\ InDrain(u) /\ back[u] = "merge" => mode # "fact"
      /\ pc[u] \in {"bounds", "build", "count", "analyze", "again", "remerge",
                   "remerged"} => mode # "guess"
      /\ InDrain(u) /\ back[u] \in {"analyze", "again"} => mode # "guess"
<1> SUFFICES ASSUME ~met' PROVE \A u \in Threads : Agrees(u)'
  BY DEF ModeControl
<1>1. \A u \in Threads : ~Inside(u)' => Agrees(u)'
  BY DEF Inside, InDrain
<1>2. CASE Start(t) \/ Ignite(t)
  <2>1. \A u \in Threads \ {t} : ~Inside(u)'
    BY <1>2, OthersWhere DEF Start, Ignite, Enter
  <2>2. pc'[t] = "loop"
    BY <1>2 DEF Start, Ignite, Enter, Goto, EngineInv, TypeOK
  <2>3. Agrees(t)'
    BY <2>2 DEF InDrain
  <2>. QED BY <1>1, <2>1, <2>3
<1>3. CASE ~(Start(t) \/ Ignite(t))
  <2>1. ~met /\ (\A u, v \in Threads : Inside(u) /\ Inside(v) => u = v)
    BY <1>3, Frames DEF EngineInv, AloneControl
  <2>2. \A u \in Threads : Agrees(u)
    BY <2>1 DEF EngineInv, ModeControl
  <2>3. ASSUME NEW u \in Threads, u # t, Inside(u) PROVE Agrees(u)'
    <3>1. mode' = mode
      BY <2>1, <2>3, Frames DEF TakeTurn, CfgStep, AnalyzeStep, Inside, InDrain
    <3>. QED BY <2>2, <2>3, <3>1, OneThreadMoves DEF InDrain
  <2>4. Agrees(t)'
    <3>0. Agrees(t)
      BY <2>2
    <3> USE <3>0 DEF EngineInv, TypeOK, ReturnsWhere, InDrain, Goto, Leave, Enter, SetWeak, local,
                     engine, flag
    <3>1. CASE Call(t)
      BY <3>1 DEF Call, Start, Ignite, Ask, DisassembleBlock, Enqueue, SetFunction, DisassembleAt,
                CheckLocation, CreateFunction, InsertFunction, Request
    <3>2. CASE StopStep(t) \/ AlgorithmStep(t) \/ TakeTurn(t) \/ Lock(t)
      BY <3>2 DEF StopStep, AlgorithmStep, TakeTurn, Lock
    <3>3. CASE Decode(t)
      BY <3>3 DEF Decode
    <3>4. CASE ScopeEnd(t) \/ DrainEnd(t)
      BY <3>4 DEF ScopeEnd, DrainEnd
    <3>5. CASE MergeCode(t) \/ AlgorithmEnd(t)
      BY <3>5 DEF MergeCode, AlgorithmEnd
    <3>6. CASE CfgStep(t)
      BY <3>6 DEF CfgStep
    <3>7. CASE DropGraphs(t)
      BY <3>7 DEF DropGraphs
    <3>8. CASE GenerateCfg(t)
      BY <3>8 DEF GenerateCfg
    <3>9. CASE CfgEnd(t) \/ Advance(t)
      BY <3>9 DEF CfgEnd, Advance
    <3>10. CASE AnalyzeStep(t) \/ CountFunctions(t) \/ SkipAnalyzer(t)
      BY <3>10 DEF AnalyzeStep, CountFunctions, SkipAnalyzer
    <3>11. CASE Analyzer(t)
      BY <3>11 DEF Analyzer
    <3>12. CASE FirstPassEnd(t)
      BY <3>12 DEF FirstPassEnd
    <3>13. CASE AnalyzeRepeat(t)
      BY <3>13 DEF AnalyzeRepeat
    <3>14. CASE PassEnd(t)
      BY <3>14 DEF PassEnd
    <3>15. CASE LoopEnd(t) \/ ExecuteEnd(t) \/ Finish(t)
      BY <3>15 DEF LoopEnd, ExecuteEnd, Finish
    <3>16. CASE EnqueueLocked(t) \/ FunctionCfg(t)
      BY <3>16 DEF EnqueueLocked, FunctionCfg
    <3>. QED BY <3>1, <3>2, <3>3, <3>4, <3>5, <3>6, <3>7, <3>8, <3>9, <3>10, <3>11, <3>12, <3>13, <3>14, <3>15, <3>16 DEF Continue
  <2>. QED BY <1>1, <2>3, <2>4, OthersWhere
<1>. QED BY <1>2, <1>3

(* A thread inside execute() that is not touched finds all it knew.         *)
LEMMA Untouched ==
  ASSUME EngineInv, NEW t \in Threads, Continue(t) \/ Call(t),
         NEW u \in Threads, u # t, Inside(u), u \notin touched'
  PROVE  /\ u \notin touched /\ step' = step /\ functions' = functions
         /\ graphs \subseteq graphs' /\ todo'[u] = todo[u]
<1>0. step # "None"
  BY DEF EngineInv, LocksControl
<1> USE <1>0 DEF EngineInv, TypeOK, Disturb, Leave, local, engine, program, tally
<1>1. CASE Call(t)
  BY <1>1 DEF Call, Start, Ignite, Ask, DisassembleBlock, Enqueue, SetFunction, DisassembleAt,
                CheckLocation, CreateFunction, InsertFunction, Request
<1>2. CASE \/ StopStep(t) \/ AlgorithmStep(t) \/ TakeTurn(t) \/ Lock(t) \/ Decode(t)
             \/ ScopeEnd(t) \/ DrainEnd(t) \/ MergeCode(t) \/ AlgorithmEnd(t)
  BY <1>2 DEF StopStep, AlgorithmStep, TakeTurn, Lock, Decode, ScopeEnd, DrainEnd, MergeCode,
                AlgorithmEnd
<1>3. CASE \/ CfgStep(t) \/ DropGraphs(t) \/ GenerateCfg(t) \/ CfgEnd(t) \/ Advance(t)
             \/ AnalyzeStep(t) \/ CountFunctions(t) \/ SkipAnalyzer(t) \/ Analyzer(t)
  BY <1>3 DEF CfgStep, DropGraphs, GenerateCfg, CfgEnd, Advance, AnalyzeStep, CountFunctions,
                SkipAnalyzer, Analyzer
<1>4. CASE \/ FirstPassEnd(t) \/ AnalyzeRepeat(t) \/ PassEnd(t) \/ LoopEnd(t)
             \/ ExecuteEnd(t) \/ Finish(t) \/ EnqueueLocked(t) \/ FunctionCfg(t)
  BY <1>4 DEF FirstPassEnd, AnalyzeRepeat, PassEnd, LoopEnd, ExecuteEnd, Finish, EnqueueLocked,
                FunctionCfg
<1>. QED BY <1>1, <1>2, <1>3, <1>4 DEF Continue

LEMMA StepGraph ==
  ASSUME EngineInv, NEW t \in Threads, Continue(t) \/ Call(t)
  PROVE  GraphControl'
<1> DEFINE Knows(u) ==
      /\ pc[u] \in {"turn", "merge", "merged"} => step = "Algorithm"
      /\ InDrain(u) /\ back[u] = "merge" => step = "Algorithm"
      /\ pc[u] = "build" => functions \subseteq graphs \cup todo[u]
      /\ pc[u] = "loop" /\ step \in {"Analyze", "Done"} => functions \subseteq graphs
      /\ pc[u] \in {"advance", "count", "ending", "finish"} => functions \subseteq graphs
<1> SUFFICES ASSUME NEW u \in Threads, u \notin touched' PROVE Knows(u)'
  BY DEF GraphControl
<1>0. \A v \in Threads : v \notin touched => Knows(v)
  BY DEF EngineInv, GraphControl
<1>1. CASE u # t
  <2>1. CASE Inside(u)
    BY <1>0, <1>1, <2>1, Untouched, OneThreadMoves DEF InDrain
  <2>2. CASE ~Inside(u)
    BY <1>1, <2>2, OneThreadMoves DEF Inside, InDrain
  <2>. QED BY <2>1, <2>2
<1>2. CASE u = t
  <2> USE <1>0, <1>2, NextStepValue
      DEF EngineInv, TypeOK, ReturnsWhere, InDrain, Goto, Leave, Enter, Disturb, local, engine,
          program, tally, Steps
  <2>1. CASE Call(t)
    BY <2>1 DEF Call, Start, Ignite, Ask, DisassembleBlock, Enqueue, SetFunction, DisassembleAt,
                CheckLocation, CreateFunction, InsertFunction, Request
  <2>2. CASE StopStep(t) \/ AlgorithmStep(t) \/ TakeTurn(t) \/ Lock(t)
    BY <2>2 DEF StopStep, AlgorithmStep, TakeTurn, Lock
  <2>3. CASE Decode(t)
    BY <2>3 DEF Decode
  <2>4. CASE ScopeEnd(t) \/ DrainEnd(t)
    BY <2>4 DEF ScopeEnd, DrainEnd
  <2>5. CASE MergeCode(t) \/ AlgorithmEnd(t)
    BY <2>5 DEF MergeCode, AlgorithmEnd
  <2>6. CASE CfgStep(t)
    BY <2>6 DEF CfgStep
  <2>7. CASE DropGraphs(t)
    BY <2>7 DEF DropGraphs
  <2>8. CASE GenerateCfg(t)
    BY <2>8 DEF GenerateCfg
  <2>9. CASE CfgEnd(t) \/ Advance(t)
    BY <2>9 DEF CfgEnd, Advance
  <2>10. CASE AnalyzeStep(t) \/ CountFunctions(t) \/ SkipAnalyzer(t)
    BY <2>10 DEF AnalyzeStep, CountFunctions, SkipAnalyzer
  <2>11. CASE Analyzer(t)
    BY <2>11 DEF Analyzer
  <2>12. CASE FirstPassEnd(t)
    BY <2>12 DEF FirstPassEnd
  <2>13. CASE AnalyzeRepeat(t)
    BY <2>13 DEF AnalyzeRepeat
  <2>14. CASE PassEnd(t)
    BY <2>14 DEF PassEnd
  <2>15. CASE LoopEnd(t) \/ ExecuteEnd(t) \/ Finish(t)
    BY <2>15 DEF LoopEnd, ExecuteEnd, Finish
  <2>16. CASE EnqueueLocked(t) \/ FunctionCfg(t)
    BY <2>16 DEF EnqueueLocked, FunctionCfg
  <2>. QED BY <2>1, <2>2, <2>3, <2>4, <2>5, <2>6, <2>7, <2>8, <2>9, <2>10, <2>11, <2>12, <2>13, <2>14, <2>15, <2>16 DEF Continue
<1>. QED BY <1>1, <1>2

(* The inductive invariant, which every theorem below follows from.         *)
THEOREM Invariance == Spec => []EngineInv
<1>1. EngineInv /\ [Next]_vars => EngineInv'
  <2>1. ASSUME EngineInv, Next PROVE EngineInv'
    <3>1. PICK t \in Threads : Continue(t) \/ Call(t)
      BY <2>1 DEF Next
    <3>. QED BY <2>1, <3>1, StepTypeOK, StepReturns, StepLocks, StepAlone, StepBusy, StepFlag,
                StepMode, StepGraph DEF EngineInv
  <2>2. ASSUME EngineInv, UNCHANGED vars PROVE EngineInv'
    BY <2>2 DEF EngineInv, TypeOK, ReturnsWhere, LocksControl, AloneControl, BusyWhileWorking,
                FlagControl, ModeControl, GraphControl, HoldsAlgorithm, Inside, InDrain,
                vars, engine, program, local, tally, flag
  <2>. QED BY <2>1, <2>2
<1>. QED BY <1>1, InitEngine, PTL DEF Spec

(* Every variable of the engine keeps its type.                             *)
THEOREM TypeCorrect == Spec => []TypeOK
<1>1. EngineInv => TypeOK
  BY DEF EngineInv
<1>. QED BY <1>1, Invariance, PTL

(* While one thread at a time runs the steps, the engine is busy exactly    *)
(* while it works, whatever the others ask of Algorithm and Document.       *)
THEOREM Busy == Spec => []BusyWhileWorking
<1>1. EngineInv => BusyWhileWorking
  BY DEF EngineInv
<1>. QED BY <1>1, Invariance, PTL

(* The Algorithm decodes with the weak flag, analyzers run without it, also *)
(* among WeakScopes of other threads, unless one was open when the engine   *)
(* set the flag last.                                                       *)
THEOREM Weak == Spec => []WeakDiscipline
<1>1. EngineInv => WeakDiscipline
  <2> SUFFICES ASSUME EngineInv, NEW t \in Threads, ~met, mode # "crossed",
                      \A u \in Threads \ {t} : pc[u] # "scope"
               PROVE  /\ InDrain(t) /\ back[t] = "merge" => weak
                      /\ pc[t] \in {"bounds", "build", "count", "analyze", "again", "remerge", "remerged"}
                           => ~weak
                      /\ pc[t] \in {"lock", "drain"} /\ back[t] \in {"analyze", "again"} => ~weak
    BY DEF WeakDiscipline
  <2>1. mode \in {"guess", "fact"}
    BY DEF EngineInv, TypeOK
  <2>2. pc[t] # "scope" => weak = (mode = "guess")
    BY DEF EngineInv, FlagControl
  <2>3. InDrain(t) /\ back[t] = "merge" => weak
    <3>1. InDrain(t) /\ back[t] = "merge" => mode = "guess" /\ step # "None"
      BY <2>1 DEF EngineInv, ModeControl, LocksControl, Inside, InDrain
    <3>2. pc[t] = "scope" => weak = (step # "None")
      BY DEF EngineInv, FlagControl
    <3>. QED BY <2>2, <3>1, <3>2
  <2>4. pc[t] \in {"bounds", "build", "count", "analyze", "again", "remerge", "remerged"} => ~weak
    BY <2>1, <2>2 DEF EngineInv, ModeControl
  <2>5. pc[t] \in {"lock", "drain"} /\ back[t] \in {"analyze", "again"} => ~weak
    BY <2>1, <2>2 DEF EngineInv, ModeControl, InDrain
  <2>. QED BY <2>3, <2>4, <2>5
<1>. QED BY <1>1, Invariance, PTL

(* disassemble() returns with a graph of every function that shows the code *)
(* as it is, unless another thread changed code, functions or step since    *)
(* cfgStep began.                                                           *)
THEOREM GraphsSettled == Spec => []Settled
<1>1. EngineInv => Settled
  BY DEF EngineInv, GraphControl, Settled
<1>. QED BY <1>1, Invariance, PTL

(* Analyzers start on graphs of all functions.                              *)
THEOREM AnalyzersStart == Spec => AnalyzersSeeGraphs
<1>1. EngineInv /\ [Next]_vars
        => [\A t \in Threads : pc[t] = "count" /\ pc'[t] = "analyze" /\ t \notin touched
              => functions \subseteq graphs]_vars
  BY DEF EngineInv, GraphControl
<1>. QED BY <1>1, Invariance, PTL DEF Spec, AnalyzersSeeGraphs
-----------------------------------------------------------------------------
(* The analyzers of a context, which run in order (SortedContainer). *)

HasInserted(t, s, i, e) ==
  \A j \in 1 .. Len(s) + 1 : t[j] = IF j < i THEN s[j] ELSE IF j = i THEN e ELSE s[j - 1]

LEMMA InsertedAt ==
  ASSUME NEW A, NEW s \in Seq(A), NEW i \in 1 .. Len(s) + 1, NEW e \in A
  PROVE  /\ InsertAt(s, i, e) \in Seq(A) /\ Len(InsertAt(s, i, e)) = Len(s) + 1
         /\ HasInserted(InsertAt(s, i, e), s, i, e)
<1> DEFINE before == SubSeq(s, 1, i - 1)
           behind == SubSeq(s, i, Len(s))
<1>1. /\ before \in Seq(A) /\ Len(before) = i - 1
      /\ \A j \in 1 .. i - 1 : before[j] = s[j]
  OBVIOUS
<1>2. /\ behind \in Seq(A) /\ Len(behind) = Len(s) - i + 1
      /\ \A j \in 1 .. Len(s) - i + 1 : behind[j] = s[j + i - 1]
  OBVIOUS
<1> HIDE DEF before, behind
<1>3. /\ before \o <<e>> \in Seq(A) /\ Len(before \o <<e>>) = i
      /\ \A j \in 1 .. i : (before \o <<e>>)[j] = IF j < i THEN s[j] ELSE e
  BY <1>1
<1> DEFINE front == before \o <<e>>
<1> HIDE DEF front
<1>4. front \in Seq(A) /\ Len(front) = i /\ \A j \in 1 .. i : front[j] = IF j < i THEN s[j] ELSE e
  BY <1>3 DEF front
<1>0. Len(s) \in Nat /\ i \in Nat /\ i <= Len(s) + 1
  OBVIOUS
<1>5. /\ front \o behind \in Seq(A) /\ Len(front \o behind) = Len(s) + 1
      /\ \A j \in 1 .. Len(s) + 1 : (front \o behind)[j] = IF j <= i THEN front[j] ELSE behind[j - i]
  <2>1. front \in Seq(A) /\ behind \in Seq(A) /\ Len(front) = i /\ Len(behind) = Len(s) - i + 1
    BY <1>2, <1>4
  <2>2. front \o behind \in Seq(A) /\ Len(front \o behind) = i + (Len(s) - i + 1)
    BY <2>1
  <2>3. \A j \in 1 .. i + (Len(s) - i + 1) :
           (front \o behind)[j] = IF j <= i THEN front[j] ELSE behind[j - i]
    BY <2>1
  <2>4. i + (Len(s) - i + 1) = Len(s) + 1
    BY <1>0
  <2>. QED BY <2>2, <2>3, <2>4
<1>6. \A j \in 1 .. Len(s) + 1 : j > i => behind[j - i] = s[j - 1]
  BY <1>2
<1>7. InsertAt(s, i, e) = front \o behind
  BY DEF InsertAt, front, before, behind
<1>8. ASSUME NEW j \in 1 .. Len(s) + 1
      PROVE  (front \o behind)[j] = IF j < i THEN s[j] ELSE IF j = i THEN e ELSE s[j - 1]
  <2>1. CASE j <= i
    BY <1>4, <1>5, <2>1
  <2>2. CASE j > i
    BY <1>5, <1>6, <2>2
  <2>3. j <= i \/ j > i
    BY <1>0
  <2>. QED BY <2>1, <2>2, <2>3, Zenon
<1> QED
  BY <1>5, <1>7, <1>8 DEF HasInserted

LEMMA RemovedAt ==
  ASSUME NEW A, NEW s \in Seq(A), NEW i \in 1 .. Len(s)
  PROVE  /\ RemoveAt(s, i) \in Seq(A) /\ Len(RemoveAt(s, i)) = Len(s) - 1
         /\ \A j \in 1 .. Len(s) - 1 : RemoveAt(s, i)[j] = IF j < i THEN s[j] ELSE s[j + 1]
<1> DEFINE before == SubSeq(s, 1, i - 1)
           behind == SubSeq(s, i + 1, Len(s))
<1>1. /\ before \in Seq(A) /\ Len(before) = i - 1
      /\ \A j \in 1 .. i - 1 : before[j] = s[j]
  OBVIOUS
<1>2. /\ behind \in Seq(A) /\ Len(behind) = Len(s) - i
      /\ \A j \in 1 .. Len(s) - i : behind[j] = s[j + i]
  OBVIOUS
<1> HIDE DEF before, behind
<1>3. before \o behind \in Seq(A) /\ Len(before \o behind) = Len(s) - 1
  <2>0. before \in Seq(A) /\ behind \in Seq(A)
    BY <1>1, <1>2
  <2>1. before \o behind \in Seq(A) /\ Len(before \o behind) = Len(before) + Len(behind)
    BY <2>0
  <2>2. Len(before) + Len(behind) = Len(s) - 1
    BY <1>1, <1>2
  <2> QED
    BY <2>1, <2>2
<1>5. ASSUME NEW j \in 1 .. Len(s) - 1
      PROVE  (before \o behind)[j] = IF j < i THEN s[j] ELSE s[j + 1]
  <2>1. CASE j < i
    BY <1>1, <1>2, <2>1
  <2>2. CASE ~(j < i)
    <3>1. (before \o behind)[j] = behind[j - (i - 1)]
      BY <1>1, <1>2, <2>2
    <3>2. j - (i - 1) \in 1 .. Len(s) - i /\ j - (i - 1) + i = j + 1
      BY <2>2
    <3> QED
      BY <1>2, <2>2, <3>1, <3>2
  <2> QED
    BY <2>1, <2>2
<1>4. RemoveAt(s, i) = before \o behind
  BY DEF RemoveAt, before, behind
<1> QED
  BY <1>3, <1>4, <1>5

Sorted(s) == \A i, j \in DOMAIN s : i < j => Order[s[i]] <= Order[s[j]]

(* Of these, one with no other of its order. *)
OwnOrder(a, A) == \A b \in A \ {a} : Order[b] # Order[a]

AtMostOnce(s, a) == \A i, j \in DOMAIN s : s[i] = a /\ s[j] = a => i = j

Chosen(s, w, A) ==
  /\ s \in Seq(A) /\ Sorted(s)
  /\ \A a \in A : OwnOrder(a, A) => (a \in Range(s) <=> a \in w) /\ AtMostOnce(s, a)

LEMMA OrderIs == \A a \in DOMAIN Order : Order[a] \in Int
BY SessionAssumption

LEMMA LowerIs ==
  ASSUME NEW s \in Seq(DOMAIN Order), NEW a \in DOMAIN Order
  PROVE  /\ Lower(s, a) \in 1 .. Len(s) + 1
         /\ \A j \in 1 .. Lower(s, a) - 1 : Order[s[j]] < Order[a]
         /\ Lower(s, a) \in DOMAIN s => Order[s[Lower(s, a)]] >= Order[a]
<1> DEFINE N == {i \in 1 .. Len(s) + 1 : i \in DOMAIN s => Order[s[i]] >= Order[a]}
<1>1. N \in SUBSET Nat /\ Len(s) + 1 \in N
  OBVIOUS
<1>2. PICK m \in N : \A n \in N : m <= n
  <2> HIDE DEF N
  <2> QED
    BY <1>1, General!LeastElement
<1>3. \A j \in 1 .. m - 1 : Order[s[j]] < Order[a]
  <2> SUFFICES ASSUME NEW j \in 1 .. m - 1 PROVE Order[s[j]] < Order[a]
    OBVIOUS
  <2>1. j \in DOMAIN s /\ j \notin N
    BY <1>2
  <2>2. s[j] \in DOMAIN Order /\ ~(Order[s[j]] >= Order[a])
    BY <2>1
  <2> QED
    BY <2>2, OrderIs
<1>4. \E i \in 1 .. Len(s) + 1 :
        /\ \A j \in 1 .. i - 1 : Order[s[j]] < Order[a]
        /\ i \in DOMAIN s => Order[s[i]] >= Order[a]
  BY <1>2, <1>3
<1> QED
  BY <1>4 DEF Lower

LEMMA UpperIs ==
  ASSUME NEW s \in Seq(DOMAIN Order), NEW a \in DOMAIN Order
  PROVE  /\ Upper(s, a) \in 1 .. Len(s) + 1
         /\ \A j \in 1 .. Upper(s, a) - 1 : Order[s[j]] <= Order[a]
         /\ Upper(s, a) \in DOMAIN s => Order[s[Upper(s, a)]] > Order[a]
<1> DEFINE N == {i \in 1 .. Len(s) + 1 : i \in DOMAIN s => Order[s[i]] > Order[a]}
<1>1. N \in SUBSET Nat /\ Len(s) + 1 \in N
  OBVIOUS
<1>2. PICK m \in N : \A n \in N : m <= n
  <2> HIDE DEF N
  <2> QED
    BY <1>1, General!LeastElement
<1>3. \A j \in 1 .. m - 1 : Order[s[j]] <= Order[a]
  <2> SUFFICES ASSUME NEW j \in 1 .. m - 1 PROVE Order[s[j]] <= Order[a]
    OBVIOUS
  <2>1. j \in DOMAIN s /\ j \notin N
    BY <1>2
  <2>2. s[j] \in DOMAIN Order /\ ~(Order[s[j]] > Order[a])
    BY <2>1
  <2> QED
    BY <2>2, OrderIs
<1>4. \E i \in 1 .. Len(s) + 1 :
        /\ \A j \in 1 .. i - 1 : Order[s[j]] <= Order[a]
        /\ i \in DOMAIN s => Order[s[i]] > Order[a]
  BY <1>2, <1>3
<1> QED
  BY <1>4 DEF Upper

(* lower_bound finds an analyzer of an order of its own where it is.        *)
LEMMA FindsOwn ==
  ASSUME NEW A \in SUBSET DOMAIN Order, NEW s \in Seq(A), Sorted(s), NEW a \in A, OwnOrder(a, A),
         a \in Range(s)
  PROVE  Found(s, a)
<1> DEFINE l == Lower(s, a)
<1>0. s \in Seq(DOMAIN Order) /\ a \in DOMAIN Order
  OBVIOUS
<1>1. PICK p \in DOMAIN s : s[p] = a
  BY DEF Range
<1>2. l \in 1 .. Len(s) + 1 /\ (\A j \in 1 .. l - 1 : Order[s[j]] < Order[a])
      /\ (l \in DOMAIN s => Order[s[l]] >= Order[a])
  BY <1>0, LowerIs
<1> HIDE DEF l
<1>3. ~(p \in 1 .. l - 1)
  BY <1>0, <1>1, <1>2, OrderIs
<1>4. l \in DOMAIN s /\ l <= p
  BY <1>1, <1>2, <1>3
<1>5. s[l] \in A /\ Order[s[l]] <= Order[a]
  BY <1>1, <1>4, OrderIs DEF Sorted
<1>6. Order[s[l]] = Order[a]
  BY <1>0, <1>2, <1>4, <1>5, OrderIs
<1>7. s[l] = a
  BY <1>5, <1>6 DEF OwnOrder
<1> QED
  BY <1>4, <1>7 DEF Found, l

LEMMA InsertedChosen ==
  ASSUME NEW A \in SUBSET DOMAIN Order, NEW s, NEW w, Chosen(s, w, A), NEW a \in A
  PROVE  Chosen(Inserted(s, a), w \cup {a}, A)
<1>0. s \in Seq(A) /\ s \in Seq(DOMAIN Order) /\ a \in DOMAIN Order /\ Sorted(s)
  BY DEF Chosen
<1>1. CASE Found(s, a)
  <2>1. a \in Range(s)
    BY <1>1 DEF Found, Range
  <2> QED
    BY <1>1, <2>1 DEF Chosen, Inserted
<1>2. CASE ~Found(s, a)
  <2> DEFINE u == Upper(s, a)
             t == InsertAt(s, u, a)
  <2>1. /\ u \in 1 .. Len(s) + 1 /\ (\A j \in 1 .. u - 1 : Order[s[j]] <= Order[a])
        /\ u \in DOMAIN s => Order[s[u]] > Order[a]
    BY <1>0, UpperIs
  <2> HIDE DEF u
  <2>2. /\ t \in Seq(A) /\ Len(t) = Len(s) + 1
        /\ \A j \in 1 .. Len(s) + 1 : t[j] = IF j < u THEN s[j] ELSE IF j = u THEN a ELSE s[j - 1]
    <3>1. t \in Seq(A) /\ Len(t) = Len(s) + 1 /\ HasInserted(t, s, u, a)
      BY <1>0, <2>1, InsertedAt
    <3> QED
      BY <3>1 DEF HasInserted
  <2> HIDE DEF t
  <2>3. \A j \in DOMAIN t : \/ j < u /\ j \in DOMAIN s /\ t[j] = s[j]
                            \/ j = u /\ t[j] = a
                            \/ j > u /\ j - 1 \in DOMAIN s /\ t[j] = s[j - 1]
    BY <1>0, <2>1, <2>2
  <2>4. u \in DOMAIN t /\ t[u] = a
        /\ \A i \in DOMAIN s : \E j \in DOMAIN t : t[j] = s[i]
    <3>1. u \in DOMAIN t /\ t[u] = a
      BY <2>1, <2>2
    <3>2. ASSUME NEW i \in DOMAIN s PROVE \E j \in DOMAIN t : t[j] = s[i]
      <4>1. CASE i < u
        BY <1>0, <2>1, <2>2, <4>1
      <4>2. CASE ~(i < u)
        <5>1. i + 1 \in DOMAIN t /\ t[i + 1] = s[(i + 1) - 1] /\ (i + 1) - 1 = i
          BY <1>0, <2>1, <2>2, <4>2
        <5> QED
          BY <5>1
      <4> QED
        BY <4>1, <4>2
    <3> QED
      BY <3>1, <3>2
  <2>5. Range(t) = Range(s) \cup {a}
    BY <2>3, <2>4 DEF Range
  <2>6. \A i \in DOMAIN s : s[i] \in DOMAIN Order /\ Order[s[i]] \in Int
    BY <1>0, OrderIs
  <2>7. \A j \in DOMAIN s : (j < u => Order[s[j]] <= Order[a]) /\ (j >= u => Order[a] <= Order[s[j]])
    <3> SUFFICES ASSUME NEW j \in DOMAIN s
                 PROVE (j < u => Order[s[j]] <= Order[a]) /\ (j >= u => Order[a] <= Order[s[j]])
      OBVIOUS
    <3>1. j < u => j \in 1 .. u - 1
      BY <1>0, <2>1
    <3>2. j >= u => u \in DOMAIN s /\ (u < j \/ u = j)
      BY <1>0, <2>1
    <3>3. j >= u => Order[s[u]] <= Order[s[j]]
      BY <1>0, <2>6, <3>2 DEF Sorted
    <3> QED
      BY <1>0, <2>1, <2>6, <3>1, <3>2, <3>3, OrderIs
  <2>8. Sorted(t)
    <3> SUFFICES ASSUME NEW i \in DOMAIN t, NEW j \in DOMAIN t, i < j
                 PROVE  Order[t[i]] <= Order[t[j]]
      BY DEF Sorted
    <3>1. i \in Int /\ j \in Int /\ u \in Int /\ Order[a] \in Int
      BY <1>0, <2>1, <2>2, OrderIs
    <3>2. CASE j < u
      BY <1>0, <2>3, <3>1, <3>2 DEF Sorted
    <3>3. CASE j = u
      BY <2>3, <2>7, <3>1, <3>3
    <3>4. CASE j > u
      <4>1. j - 1 \in DOMAIN s /\ t[j] = s[j - 1] /\ j - 1 >= u
        BY <2>3, <3>1, <3>4
      <4>2. CASE i < u
        <5>1. i \in DOMAIN s /\ t[i] = s[i] /\ i < j - 1
          BY <2>3, <3>1, <4>1, <4>2
        <5> QED
          BY <1>0, <4>1, <5>1 DEF Sorted
      <4>3. CASE i = u
        BY <2>3, <2>7, <3>1, <4>1, <4>3
      <4>4. CASE i > u
        <5>1. i - 1 \in DOMAIN s /\ t[i] = s[i - 1] /\ i - 1 < j - 1
          BY <2>3, <3>1, <4>4
        <5> QED
          BY <1>0, <4>1, <5>1 DEF Sorted
      <4> QED
        BY <3>1, <4>2, <4>3, <4>4
    <3> QED
      BY <3>1, <3>2, <3>3, <3>4
  <2>9. ASSUME NEW b \in A, OwnOrder(b, A) PROVE AtMostOnce(t, b)
    <3> SUFFICES ASSUME NEW i \in DOMAIN t, NEW j \in DOMAIN t, t[i] = b, t[j] = b PROVE i = j
      BY DEF AtMostOnce
    <3>0. i \in Int /\ j \in Int /\ u \in Int
      BY <2>1, <2>2
    <3>1. CASE b = a
      <4>1. a \notin Range(s)
        BY <1>0, <1>2, <2>9, <3>1, FindsOwn
      <4>2. \A k \in DOMAIN s : s[k] # a
        BY <4>1 DEF Range
      <4> QED
        BY <2>3, <3>1, <4>2
    <3>2. CASE b # a
      <4>1. AtMostOnce(s, b)
        BY <2>9 DEF Chosen
      <4>2. \/ i < u /\ i \in DOMAIN s /\ s[i] = b
            \/ i > u /\ i - 1 \in DOMAIN s /\ s[i - 1] = b
        BY <2>3, <3>2
      <4>3. \/ j < u /\ j \in DOMAIN s /\ s[j] = b
            \/ j > u /\ j - 1 \in DOMAIN s /\ s[j - 1] = b
        BY <2>3, <3>2
      <4> QED
        BY <3>0, <4>1, <4>2, <4>3 DEF AtMostOnce
    <3> QED
      BY <3>1, <3>2
  <2>10. Inserted(s, a) = t
    BY <1>2 DEF Inserted, t, u
  <2>11. Chosen(t, w \cup {a}, A)
    BY <2>2, <2>5, <2>8, <2>9 DEF Chosen
  <2> QED
    BY <2>10, <2>11
<1> QED
  BY <1>1, <1>2

LEMMA RemovedChosen ==
  ASSUME NEW A \in SUBSET DOMAIN Order, NEW s, NEW w, Chosen(s, w, A), NEW a \in A
  PROVE  Chosen(Removed(s, a), w \ {a}, A)
<1>0. s \in Seq(A) /\ s \in Seq(DOMAIN Order) /\ a \in DOMAIN Order /\ Sorted(s)
  BY DEF Chosen
<1>1. CASE ~Found(s, a)
  <2>1. ASSUME OwnOrder(a, A) PROVE a \notin Range(s)
    BY <1>0, <1>1, <2>1, FindsOwn
  <2> QED
    BY <1>1, <2>1 DEF Chosen, Removed
<1>2. CASE Found(s, a)
  <2> DEFINE l == Lower(s, a)
             t == RemoveAt(s, l)
  <2>1. l \in 1 .. Len(s) /\ s[l] = a
    BY <1>0, <1>2 DEF Found
  <2> HIDE DEF l
  <2>2. /\ t \in Seq(A) /\ Len(t) = Len(s) - 1
        /\ \A j \in 1 .. Len(s) - 1 : t[j] = IF j < l THEN s[j] ELSE s[j + 1]
    BY <1>0, <2>1, RemovedAt
  <2> HIDE DEF t
  <2>3. \A j \in DOMAIN t : \/ j < l /\ j \in DOMAIN s /\ t[j] = s[j]
                            \/ j >= l /\ j + 1 \in DOMAIN s /\ t[j] = s[j + 1]
    BY <1>0, <2>1, <2>2
  <2>4. ASSUME NEW i \in DOMAIN s, i # l PROVE \E j \in DOMAIN t : t[j] = s[i]
    <3>1. CASE i < l
      BY <1>0, <2>1, <2>2, <3>1
    <3>2. CASE ~(i < l)
      <4>1. i - 1 \in DOMAIN t /\ t[i - 1] = s[(i - 1) + 1] /\ (i - 1) + 1 = i
        BY <1>0, <2>1, <2>2, <2>4, <3>2
      <4> QED
        BY <4>1
    <3> QED
      BY <3>1, <3>2
  <2>5. Range(t) \subseteq Range(s) /\ Range(s) \subseteq Range(t) \cup {a}
    BY <2>1, <2>3, <2>4 DEF Range
  <2>6. Sorted(t)
    <3> SUFFICES ASSUME NEW i \in DOMAIN t, NEW j \in DOMAIN t, i < j
                 PROVE  Order[t[i]] <= Order[t[j]]
      BY DEF Sorted
    <3>1. i \in Int /\ j \in Int /\ l \in Int
      BY <2>1, <2>2
    <3>2. \E p, q \in DOMAIN s : p < q /\ t[i] = s[p] /\ t[j] = s[q]
      <4>1. CASE j < l
        BY <2>3, <3>1, <4>1
      <4>2. CASE j >= l /\ i < l
        <5>1. j + 1 \in DOMAIN s /\ t[j] = s[j + 1] /\ i \in DOMAIN s /\ t[i] = s[i] /\ i < j + 1
          BY <2>3, <3>1, <4>2
        <5> QED
          BY <5>1
      <4>3. CASE j >= l /\ i >= l
        <5>1. j + 1 \in DOMAIN s /\ t[j] = s[j + 1] /\ i + 1 \in DOMAIN s /\ t[i] = s[i + 1]
              /\ i + 1 < j + 1
          BY <2>3, <3>1, <4>3
        <5> QED
          BY <5>1
      <4> QED
        BY <3>1, <4>1, <4>2, <4>3
    <3> QED
      BY <1>0, <3>2 DEF Sorted
  <2>7. ASSUME NEW b \in A, OwnOrder(b, A)
        PROVE  AtMostOnce(t, b) /\ (b = a => b \notin Range(t))
    <3>1. AtMostOnce(s, b)
      BY <2>7 DEF Chosen
    <3>2. ASSUME NEW i \in DOMAIN t, t[i] = b
          PROVE  /\ \/ i < l /\ i \in DOMAIN s /\ s[i] = b
                    \/ i >= l /\ i + 1 \in DOMAIN s /\ s[i + 1] = b
                 /\ i \in Int /\ l \in Int
      BY <2>1, <2>2, <2>3, <3>2
    <3>3. AtMostOnce(t, b)
      <4> SUFFICES ASSUME NEW i \in DOMAIN t, NEW j \in DOMAIN t, t[i] = b, t[j] = b PROVE i = j
        BY DEF AtMostOnce
      <4>1. /\ \/ i < l /\ i \in DOMAIN s /\ s[i] = b
               \/ i >= l /\ i + 1 \in DOMAIN s /\ s[i + 1] = b
            /\ i \in Int /\ l \in Int
        BY <3>2
      <4>2. /\ \/ j < l /\ j \in DOMAIN s /\ s[j] = b
               \/ j >= l /\ j + 1 \in DOMAIN s /\ s[j + 1] = b
            /\ j \in Int
        BY <3>2
      <4> QED
        BY <3>1, <4>1, <4>2 DEF AtMostOnce
    <3>4. ASSUME b = a, NEW i \in DOMAIN t, t[i] = b PROVE FALSE
      <4>1. /\ \/ i < l /\ i \in DOMAIN s /\ s[i] = b
               \/ i >= l /\ i + 1 \in DOMAIN s /\ s[i + 1] = b
            /\ i \in Int /\ l \in Int
        BY <3>2, <3>4
      <4>2. l \in DOMAIN s /\ s[l] = b
        BY <1>0, <2>1, <3>4
      <4> QED
        BY <3>1, <4>1, <4>2 DEF AtMostOnce
    <3> QED
      BY <3>3, <3>4 DEF Range
  <2>8. Removed(s, a) = t
    BY <1>2 DEF Removed, t, l
  <2>9. Chosen(t, w \ {a}, A)
    <3>1. ASSUME NEW b \in A, OwnOrder(b, A)
          PROVE  (b \in Range(t) <=> b \in w \ {a}) /\ AtMostOnce(t, b)
      <4>1. b \in Range(s) <=> b \in w
        BY <3>1 DEF Chosen
      <4>2. AtMostOnce(t, b) /\ (b = a => b \notin Range(t))
        BY <2>7, <3>1
      <4> QED
        BY <2>5, <4>1, <4>2
    <3> QED
      BY <2>2, <2>6, <3>1 DEF Chosen
  <2> QED
    BY <2>8, <2>9
<1> QED
  BY <1>1, <1>2

LEMMA NothingChosen ==
  ASSUME NEW A \in SUBSET DOMAIN Order
  PROVE  Chosen(<<>>, {}, A)
BY DEF Chosen, Sorted, AtMostOnce, Range

(* One after the other, whoever is inserted is there. *)
LEMMA SelectedFromChosen ==
  ASSUME NEW A \in SUBSET DOMAIN Order, NEW seq \in Seq(A)
  PROVE  Chosen(SelectedFrom(seq), Range(seq), A)
<1> DEFINE N == Len(seq)
           S == {s \in Seq(A) : \E w \in SUBSET A : Chosen(s, w, A)}
           inserts == [n \in (0 .. N) \ {0} |-> [s \in S |-> Inserted(s, seq[n])]]
           upto[n \in 0 .. Len(seq)] ==
             IF n = 0 THEN <<>> ELSE Inserted(upto[n - 1], seq[n])
<1>0. SelectedFrom(seq) = upto[N]
  BY DEF SelectedFrom, upto, N
<1> HIDE DEF upto
<1>1. N \in Nat /\ \A n \in (0 .. N) \ {0} : seq[n] \in A /\ n \in 1 .. N /\ n - 1 \in 0 .. N
  OBVIOUS
<1>2. <<>> \in S /\ \A s \in S, a \in A : Inserted(s, a) \in S
  <2>1. <<>> \in S
    <3>1. Chosen(<<>>, {}, A) /\ {} \in SUBSET A /\ <<>> \in Seq(A)
      BY NothingChosen
    <3> QED
      BY <3>1
  <2>2. ASSUME NEW s \in S, NEW a \in A PROVE Inserted(s, a) \in S
    <3>1. PICK w \in SUBSET A : Chosen(s, w, A)
      OBVIOUS
    <3>2. Chosen(Inserted(s, a), w \cup {a}, A)
      BY <3>1, InsertedChosen
    <3>3. Inserted(s, a) \in Seq(A) /\ w \cup {a} \in SUBSET A
      BY <3>2 DEF Chosen
    <3> QED
      BY <3>2, <3>3
  <2> QED
    BY <2>1, <2>2
<1> HIDE DEF S
<1>3. PICK f : General!Follows(f, 0, N, S, <<>>, inserts)
  <2>1. General!Steps(inserts, 0, N, S)
    BY <1>1, <1>2 DEF General!Steps
  <2>2. 0 \in Int /\ N \in Int /\ 0 <= N
    BY <1>1
  <2> HIDE DEF inserts, N
  <2> QED
    BY <1>2, <2>1, <2>2, General!Recursion
<1>4. f \in [0 .. N -> S] /\ f[0] = <<>>
  BY <1>3 DEF General!Follows
<1>5. \A n \in 0 .. N : f[n] = IF n = 0 THEN <<>> ELSE Inserted(f[n - 1], seq[n])
  <2>1. ASSUME NEW n \in (0 .. N) \ {0} PROVE f[n] = Inserted(f[n - 1], seq[n])
    <3>1. f[n] = inserts[n][f[n - 1]]
      <4> HIDE DEF inserts
      <4> QED
        BY <1>3 DEF General!Follows
    <3>2. f[n - 1] \in S
      BY <1>1, <1>4
    <3> QED
      BY <3>1, <3>2
  <2> QED
    BY <1>4, <2>1
<1>6. f = [n \in 0 .. Len(seq) |-> IF n = 0 THEN <<>> ELSE Inserted(f[n - 1], seq[n])]
  BY <1>4, <1>5
<1>7. upto = [n \in 0 .. Len(seq) |-> IF n = 0 THEN <<>> ELSE Inserted(upto[n - 1], seq[n])]
  BY <1>6, Zenon DEF upto
<1>8. upto[0] = <<>> /\ \A n \in (0 .. N) \ {0} : upto[n] = Inserted(upto[n - 1], seq[n])
  <2>1. ASSUME NEW n \in 0 .. Len(seq)
        PROVE  upto[n] = IF n = 0 THEN <<>> ELSE Inserted(upto[n - 1], seq[n])
    BY <1>7, Zenon
  <2> QED
    BY <1>1, <2>1
<1> DEFINE First(n) == {seq[i] : i \in 1 .. n}
           T == {n \in 0 .. N : Chosen(upto[n], First(n), A)}
<1>9. 0 \in T
  <2>1. First(0) = {}
    OBVIOUS
  <2> HIDE DEF First
  <2>2. Chosen(<<>>, {}, A) /\ upto[0] = <<>> /\ 0 \in 0 .. N
    BY <1>1, <1>8, NothingChosen
  <2>3. Chosen(upto[0], First(0), A)
    BY <2>1, <2>2, Zenon
  <2> QED
    BY <2>2, <2>3
<1>10. ASSUME NEW n \in 0 .. N, n # 0, n - 1 \in T PROVE n \in T
  <2>1. Chosen(upto[n - 1], First(n - 1), A) /\ upto[n] = Inserted(upto[n - 1], seq[n])
        /\ seq[n] \in A
    BY <1>1, <1>8, <1>10
  <2>2. First(n) = First(n - 1) \cup {seq[n]}
    <3>1. 1 .. n = (1 .. n - 1) \cup {n}
      BY <1>10
    <3> QED
      BY <3>1
  <2> HIDE DEF First
  <2>3. Chosen(Inserted(upto[n - 1], seq[n]), First(n - 1) \cup {seq[n]}, A)
    BY <2>1, InsertedChosen
  <2> QED
    BY <2>1, <2>2, <2>3
<1>11. N \in T
  <2> HIDE DEF T, N
  <2>1. 0 .. N \subseteq T
    BY <1>1, <1>9, <1>10, General!IntervalInduction
  <2> QED
    BY <1>1, <2>1
<1>12. First(N) = Range(seq)
  BY DEF Range
<1> QED
  BY <1>0, <1>11, <1>12
-----------------------------------------------------------------------------
(* The plugins of a context and the libraries of the process.               *)

HasOrder(e) == e.category = "Analyzer" => e.id \in DOMAIN Order
Plugin == {e \in [category : Categories, id : Ids] : HasOrder(e)}
Listed == {e \in [category : Categories, id : Ids, lib : Libraries \cup {Builtin}] : HasOrder(e)}
Module == [lib : Libraries \cup {Builtin}, load : Nat]
Partial(D, R) == UNION {[E -> R] : E \in SUBSET D}

Managers ==
  [entries : SUBSET Listed, owner : Partial(Ids, Module),
   files : Partial(Ids, DOMAIN Library), loads : Nat]

Loadings == [shared : [Libraries -> Int], opened : [Libraries -> Int], manager : Managers]

(* The modules of a library that an owner's ids lead to. *)
OfLib(owner, l) == {o \in Range(owner) : o.lib = l}

(* Ids lead to loads that have been; and each library is counted once for   *)
(* each of its modules and once for each of those of the other contexts.    *)
Kept(s, others) ==
  /\ s \in Loadings /\ IsFiniteSet(DOMAIN s.manager.owner)
  /\ \A i \in DOMAIN s.manager.owner : s.manager.owner[i].load < s.manager.loads
  /\ \A l \in Libraries :
       /\ s.shared[l] = others[l] + Cardinality(OfLib(s.manager.owner, l))
       /\ s.shared[l] <= s.opened[l]

(* Each id is an entry's, of the module that it leads to. *)
EntriesOwned(m) ==
  /\ \A e \in m.entries : e.id \in DOMAIN m.owner /\ m.owner[e.id].lib = e.lib
  /\ \A d, e \in m.entries : d.id = e.id => d = e

(* What a module adds. *)
IsNew(m, E) ==
  /\ E \subseteq Plugin /\ IsFiniteSet(E)
  /\ \A e \in E : e.id \notin DOMAIN m.owner
  /\ \A d, e \in E : d.id = e.id => d = e

LEMMA PartialIs ==
  ASSUME NEW D, NEW R
  PROVE  \A f : f \in Partial(D, R) <=> DOMAIN f \subseteq D /\ f \in [DOMAIN f -> R]
BY DEF Partial

LEMMA ImageFinite ==
  ASSUME NEW f, IsFiniteSet(DOMAIN f), f \in [DOMAIN f -> Range(f)]
  PROVE  IsFiniteSet(Range(f))
<1>1. f \in Surjection(DOMAIN f, Range(f))
  BY DEF Surjection, Range
<1> QED
  BY <1>1, FS_Surjection

LEMMA IdsFinite ==
  ASSUME NEW E, IsFiniteSet(E)
  PROVE  IsFiniteSet(IdsOf(E))
<1> DEFINE f == [e \in E |-> e.id]
<1>1. f \in Surjection(E, IdsOf(E))
  BY DEF Surjection, IdsOf
<1> QED
  BY <1>1, FS_Surjection

LEMMA NewIs ==
  ASSUME NEW m, NEW r \in Seq(Plugin)
  PROVE  IsNew(m, New(m, r))
<1> DEFINE J == {j \in DOMAIN r : /\ r[j].id \notin DOMAIN m.owner
                                  /\ \A k \in 1 .. j - 1 : r[k].id # r[j].id}
           f == [j \in J |-> r[j]]
<1>1. IsFiniteSet(J)
  <2>1. IsFiniteSet(1 .. Len(r)) /\ J \in SUBSET (1 .. Len(r))
    BY FS_Interval
  <2> QED
    BY <2>1, FS_Subset
<1>2. New(m, r) = {r[j] : j \in J}
  BY DEF New
<1>3. f \in Surjection(J, New(m, r))
  BY <1>2 DEF Surjection
<1>4. IsFiniteSet(New(m, r))
  BY <1>1, <1>3, FS_Surjection
<1>5. New(m, r) \subseteq Plugin /\ \A e \in New(m, r) : e.id \notin DOMAIN m.owner
  BY <1>2
<1>6. ASSUME NEW d \in New(m, r), NEW e \in New(m, r), d.id = e.id PROVE d = e
  <2>1. PICK i \in J : d = r[i]
    BY <1>2
  <2>2. PICK j \in J : e = r[j]
    BY <1>2
  <2>3. i \in Nat \ {0} /\ j \in Nat \ {0} /\ ~(i \in 1 .. j - 1) /\ ~(j \in 1 .. i - 1)
    BY <1>6, <2>1, <2>2
  <2>4. i = j
    BY <2>3
  <2> QED
    BY <2>1, <2>2, <2>4
<1> QED
  BY <1>4, <1>5, <1>6 DEF IsNew

LEMMA RegistersPlugins ==
  Builtins \in Seq(Plugin) /\ \A l \in Libraries : Entries[l] \in Seq(Plugin)
<1>1. ASSUME NEW E \in {Builtins} \cup {Entries[l] : l \in Libraries} PROVE E \in Seq(Plugin)
  <2> DEFINE R == [category : Categories, id : Ids]
  <2>1. E \in Seq(R)
    BY SessionAssumption DEF Registers
  <2>2. \A i \in DOMAIN E : HasOrder(E[i])
    BY SessionAssumption DEF HasOrder
  <2>3. DOMAIN E = 1 .. Len(E) /\ Len(E) \in Nat
        /\ \A i \in DOMAIN E : E[i] \in R
    <3> HIDE DEF R
    <3> QED
      BY <2>1
  <2>4. \A i \in 1 .. Len(E) : E[i] \in Plugin
    BY <2>2, <2>3 DEF Plugin
  <2>5. E = [i \in 1 .. Len(E) |-> E[i]]
    BY <2>1
  <2> QED
    BY <2>3, <2>4, <2>5
<1> QED
  BY <1>1

LEMMA MemberKinds ==
  ASSUME NEW m \in Managers
  PROVE  /\ m.entries \subseteq Listed /\ m.loads \in Nat
         /\ DOMAIN m.owner \subseteq Ids /\ m.owner \in [DOMAIN m.owner -> Module]
         /\ DOMAIN m.files \subseteq Ids /\ m.files \in [DOMAIN m.files -> DOMAIN Library]
<1>1. m.entries \subseteq Listed /\ m.loads \in Nat
      /\ m.owner \in Partial(Ids, Module) /\ m.files \in Partial(Ids, DOMAIN Library)
  BY DEF Managers
<1> QED
  BY <1>1, PartialIs

(* The functions that a registration and a load make. *)
Joins(h, f, g) ==
  /\ DOMAIN h = DOMAIN f \cup DOMAIN g
  /\ \A i \in DOMAIN f : h[i] = f[i]
  /\ \A i \in DOMAIN g \ DOMAIN f : h[i] = g[i]

LEMMA Joined ==
  ASSUME NEW D, NEW R, NEW f, NEW g, f \in Partial(D, R), g \in Partial(D, R)
  PROVE  Over(f, g) \in Partial(D, R) /\ Joins(Over(f, g), f, g)
<1>1. /\ DOMAIN f \subseteq D /\ f \in [DOMAIN f -> R]
      /\ DOMAIN g \subseteq D /\ g \in [DOMAIN g -> R]
  BY PartialIs
<1>2. Over(f, g) = [i \in DOMAIN f \cup DOMAIN g |-> IF i \in DOMAIN f THEN f[i] ELSE g[i]]
  BY DEF Over
<1>3. Over(f, g) \in [DOMAIN f \cup DOMAIN g -> R]
  BY <1>1, <1>2
<1>4. DOMAIN Over(f, g) = DOMAIN f \cup DOMAIN g /\ DOMAIN Over(f, g) \subseteq D
  BY <1>1, <1>2
<1>5. Over(f, g) \in Partial(D, R)
  BY <1>3, <1>4, PartialIs
<1> QED
  BY <1>2, <1>4, <1>5 DEF Joins

(* What becomes of a manager m that registers entries E of a module.        *)
Adds(n, m, l, E) ==
  /\ n \in Managers /\ n.loads = m.loads + 1 /\ n.files = m.files
  /\ n.entries = m.entries \cup {[category |-> e.category, id |-> e.id, lib |-> l] : e \in E}
  /\ DOMAIN n.owner = DOMAIN m.owner \cup IdsOf(E) /\ IsFiniteSet(DOMAIN n.owner)
  /\ \A i \in DOMAIN m.owner : n.owner[i] = m.owner[i]
  /\ \A i \in IdsOf(E) : i \notin DOMAIN m.owner /\ n.owner[i] = [lib |-> l, load |-> m.loads]

(* Its module is one more of its library.                                   *)
AddsModule(n, m, l, E) ==
  /\ \A i \in DOMAIN n.owner : n.owner[i].load < n.loads
  /\ \A k : Cardinality(OfLib(n.owner, k)) =
       IF k = l /\ E # {} THEN Cardinality(OfLib(m.owner, k)) + 1
       ELSE Cardinality(OfLib(m.owner, k))

LEMMA RegisteredIs ==
  ASSUME NEW m \in Managers, NEW l \in Libraries \cup {Builtin}, NEW E, IsNew(m, E),
         IsFiniteSet(DOMAIN m.owner)
  PROVE  Adds(Registered(m, l, E), m, l, E)
<1> DEFINE n == Registered(m, l, E)
           o == [lib |-> l, load |-> m.loads]
           f == [i \in IdsOf(E) |-> o]
           added == {[category |-> e.category, id |-> e.id, lib |-> l] : e \in E}
<1>1. m.entries \subseteq Listed /\ m.loads \in Nat /\ m.owner \in Partial(Ids, Module)
  BY DEF Managers
<1>2. IdsOf(E) \subseteq Ids /\ IdsOf(E) \cap DOMAIN m.owner = {} /\ added \subseteq Listed
  BY DEF IsNew, IdsOf, Plugin, Listed, HasOrder
<1>3. f \in Partial(Ids, Module) /\ DOMAIN f = IdsOf(E)
  <2>1. o \in Module
    BY <1>1 DEF Module
  <2> QED
    BY <1>2, <2>1, PartialIs
<1>4. \A i \in IdsOf(E) : f[i] = o
  OBVIOUS
<1>5. n = [m EXCEPT !.entries = m.entries \cup added, !.owner = Over(f, m.owner), !.loads = m.loads + 1]
  BY DEF Registered
<1> HIDE DEF n, f, added, o
<1> DEFINE owner == Over(f, m.owner)
<1>6. /\ owner \in Partial(Ids, Module) /\ DOMAIN owner = DOMAIN f \cup DOMAIN m.owner
      /\ \A i \in DOMAIN f : owner[i] = f[i]
      /\ \A i \in DOMAIN m.owner \ DOMAIN f : owner[i] = m.owner[i]
  <2>1. owner \in Partial(Ids, Module) /\ Joins(owner, f, m.owner)
    BY <1>1, <1>3, Joined
  <2> QED
    BY <2>1 DEF Joins
<1>10. n = [m EXCEPT !.entries = m.entries \cup added, !.owner = owner, !.loads = m.loads + 1]
  BY <1>5
<1> HIDE DEF owner
<1>7. /\ n.entries = m.entries \cup added /\ n.owner = owner /\ n.loads = m.loads + 1
      /\ n.files = m.files /\ n \in Managers
  <2>1. n = [entries |-> m.entries \cup added, owner |-> owner, files |-> m.files, loads |-> m.loads + 1]
    BY <1>10 DEF Managers
  <2>2. m.entries \cup added \subseteq Listed /\ m.loads + 1 \in Nat
    BY <1>1, <1>2
  <2>3. m.files \in Partial(Ids, DOMAIN Library)
    BY DEF Managers
  <2> QED
    BY <1>6, <2>1, <2>2, <2>3 DEF Managers
<1>8. IsFiniteSet(IdsOf(E) \cup DOMAIN m.owner)
  BY IdsFinite, FS_Union DEF IsNew
<1>9. /\ DOMAIN n.owner = DOMAIN m.owner \cup IdsOf(E) /\ IsFiniteSet(DOMAIN n.owner)
      /\ \A i \in DOMAIN m.owner : n.owner[i] = m.owner[i]
      /\ \A i \in IdsOf(E) : i \notin DOMAIN m.owner /\ n.owner[i] = o
  BY <1>2, <1>3, <1>4, <1>6, <1>7, <1>8
<1> QED
  BY <1>7, <1>9 DEF n, o, added, Adds

LEMMA RegisteredOwned ==
  ASSUME NEW m \in Managers, NEW l \in Libraries \cup {Builtin}, NEW E, IsNew(m, E),
         IsFiniteSet(DOMAIN m.owner), EntriesOwned(m)
  PROVE  EntriesOwned(Registered(m, l, E))
<1> DEFINE n == Registered(m, l, E)
           o == [lib |-> l, load |-> m.loads]
           Entry(e) == [category |-> e.category, id |-> e.id, lib |-> l]
<1>1. /\ n.entries = m.entries \cup {Entry(e) : e \in E}
      /\ DOMAIN n.owner = DOMAIN m.owner \cup IdsOf(E)
      /\ \A i \in DOMAIN m.owner : n.owner[i] = m.owner[i]
      /\ \A i \in IdsOf(E) : i \notin DOMAIN m.owner /\ n.owner[i] = o
  <2>1. Adds(n, m, l, E)
    BY RegisteredIs
  <2> QED
    BY <2>1 DEF Adds
<1>2. \A e \in E : Entry(e).id = e.id /\ Entry(e).lib = l /\ e.id \in IdsOf(E)
  BY DEF IdsOf
<1>3. o.lib = l
  OBVIOUS
<1> HIDE DEF n, o, Entry
<1>4. ASSUME NEW e \in n.entries PROVE e.id \in DOMAIN n.owner /\ n.owner[e.id].lib = e.lib
  BY <1>1, <1>2, <1>3 DEF EntriesOwned
<1>5. ASSUME NEW d \in n.entries, NEW e \in n.entries, d.id = e.id PROVE d = e
  <2>1. CASE d \in m.entries /\ e \in m.entries
    BY <1>5, <2>1 DEF EntriesOwned
  <2>2. CASE d \in m.entries /\ e \notin m.entries
    BY <1>1, <1>2, <1>5, <2>2 DEF EntriesOwned
  <2>3. CASE d \notin m.entries /\ e \in m.entries
    BY <1>1, <1>2, <1>5, <2>3 DEF EntriesOwned
  <2>4. CASE d \notin m.entries /\ e \notin m.entries
    <3>1. PICK x \in E : d = Entry(x)
      BY <1>1, <2>4
    <3>2. PICK y \in E : e = Entry(y)
      BY <1>1, <2>4
    <3>3. x.id = y.id
      BY <1>2, <1>5, <3>1, <3>2
    <3> QED
      BY <3>1, <3>2, <3>3 DEF IsNew
  <2> QED
    BY <2>1, <2>2, <2>3, <2>4
<1> QED
  BY <1>4, <1>5 DEF EntriesOwned, n

LEMMA LoadedIs ==
  ASSUME NEW s \in Loadings, NEW l \in Libraries
  PROVE  /\ Loaded(s, l) \in Loadings /\ Loaded(s, l).manager = s.manager
         /\ \A k \in Libraries : /\ Loaded(s, l).shared[k] = IF k = l THEN s.shared[k] + 1 ELSE s.shared[k]
                                 /\ Loaded(s, l).opened[k] = IF k = l THEN s.opened[k] + 1 ELSE s.opened[k]
<1> DEFINE shares == [s.shared EXCEPT ![l] = @ + 1]
           opens == [s.opened EXCEPT ![l] = @ + 1]
<1>1. s.shared \in [Libraries -> Int] /\ s.opened \in [Libraries -> Int] /\ s.manager \in Managers
  BY DEF Loadings
<1>2. Loaded(s, l) = [shared |-> shares, opened |-> opens, manager |-> s.manager]
  <2> DEFINE t == [s EXCEPT !.shared = shares]
  <2>1. Loaded(s, l) = [t EXCEPT !.opened = [t.opened EXCEPT ![l] = s.opened[l] + 1]]
    BY DEF Loaded
  <2> HIDE DEF shares
  <2>2. t = [shared |-> shares, opened |-> s.opened, manager |-> s.manager]
    BY DEF Loadings
  <2> HIDE DEF t
  <2> QED
    BY <2>1, <2>2
<1>3. shares \in [Libraries -> Int] /\ opens \in [Libraries -> Int]
  BY <1>1
<1>4. \A k \in Libraries : /\ shares[k] = IF k = l THEN s.shared[k] + 1 ELSE s.shared[k]
                           /\ opens[k] = IF k = l THEN s.opened[k] + 1 ELSE s.opened[k]
  BY <1>1
<1> HIDE DEF shares, opens
<1> QED
  BY <1>1, <1>2, <1>3, <1>4 DEF Loadings

LEMMA UnloadedIs ==
  ASSUME NEW s \in Loadings, NEW l \in Libraries
  PROVE  /\ Unloaded(s, l) \in Loadings /\ Unloaded(s, l).manager = s.manager
         /\ \A k \in Libraries :
              /\ Unloaded(s, l).shared[k] = IF k = l THEN s.shared[k] - 1 ELSE s.shared[k]
              /\ Unloaded(s, l).opened[k] =
                   IF k = l /\ s.shared[k] = 1 THEN s.opened[k] - 1 ELSE s.opened[k]
<1> DEFINE shares == [s.shared EXCEPT ![l] = @ - 1]
           opens == [s.opened EXCEPT ![l] = IF s.shared[l] = 1 THEN @ - 1 ELSE @]
<1>1. s.shared \in [Libraries -> Int] /\ s.opened \in [Libraries -> Int] /\ s.manager \in Managers
  BY DEF Loadings
<1>2. Unloaded(s, l) = [shared |-> shares, opened |-> opens, manager |-> s.manager]
  <2> DEFINE t == [s EXCEPT !.shared = shares]
  <2>1. Unloaded(s, l) = [t EXCEPT !.opened = [t.opened EXCEPT ![l] = IF s.shared[l] = 1 THEN s.opened[l] - 1 ELSE s.opened[l]]]
    BY DEF Unloaded
  <2> HIDE DEF shares
  <2>2. t = [shared |-> shares, opened |-> s.opened, manager |-> s.manager]
    BY DEF Loadings
  <2> HIDE DEF t
  <2> QED
    BY <2>1, <2>2
<1>3. shares \in [Libraries -> Int] /\ opens \in [Libraries -> Int]
  BY <1>1
<1>4. \A k \in Libraries :
        /\ shares[k] = IF k = l THEN s.shared[k] - 1 ELSE s.shared[k]
        /\ opens[k] = IF k = l /\ s.shared[k] = 1 THEN s.opened[k] - 1 ELSE s.opened[k]
  BY <1>1
<1> HIDE DEF shares, opens
<1> QED
  BY <1>1, <1>2, <1>3, <1>4 DEF Loadings

LEMMA OfLibFinite ==
  ASSUME NEW owner, owner \in Partial(Ids, Module), IsFiniteSet(DOMAIN owner), NEW l
  PROVE  IsFiniteSet(OfLib(owner, l)) /\ Cardinality(OfLib(owner, l)) \in Nat
<1>1. owner \in [DOMAIN owner -> Range(owner)]
  BY PartialIs DEF Range
<1>2. IsFiniteSet(Range(owner)) /\ OfLib(owner, l) \in SUBSET Range(owner)
  BY <1>1, ImageFinite DEF OfLib
<1> QED
  BY <1>2, FS_Subset, FS_CardinalityType

LEMMA RegisteredCounts ==
  ASSUME NEW m \in Managers, NEW l \in Libraries \cup {Builtin}, NEW E, IsNew(m, E),
         IsFiniteSet(DOMAIN m.owner),
         \A i \in DOMAIN m.owner : m.owner[i].load < m.loads
  PROVE  AddsModule(Registered(m, l, E), m, l, E)
<1> DEFINE n == Registered(m, l, E)
           o == [lib |-> l, load |-> m.loads]
<1>1. /\ n \in Managers /\ n.loads = m.loads + 1
      /\ DOMAIN n.owner = DOMAIN m.owner \cup IdsOf(E)
      /\ \A i \in DOMAIN m.owner : n.owner[i] = m.owner[i]
      /\ \A i \in IdsOf(E) : i \notin DOMAIN m.owner /\ n.owner[i] = o
  <2>1. Adds(n, m, l, E)
    BY RegisteredIs
  <2> QED
    BY <2>1 DEF Adds
<1>2. m.loads \in Nat /\ (\A i \in DOMAIN m.owner : m.owner[i] \in Module)
      /\ m.owner \in Partial(Ids, Module)
  BY MemberKinds DEF Managers
<1>3. o.lib = l /\ o.load = m.loads
  OBVIOUS
<1> HIDE DEF n, o
<1>4. \A i \in DOMAIN n.owner : n.owner[i].load < n.loads
  <2>1. ASSUME NEW i \in DOMAIN m.owner PROVE n.owner[i].load < n.loads
    <3>1. m.owner[i].load \in Nat /\ m.owner[i].load < m.loads
      BY <1>2 DEF Module
    <3> QED
      BY <1>1, <1>2, <3>1
  <2>2. ASSUME NEW i \in IdsOf(E) PROVE n.owner[i].load < n.loads
    BY <1>1, <1>2, <1>3
  <2> QED
    BY <1>1, <2>1, <2>2
<1>5. o \notin Range(m.owner)
  <2>1. \A i \in DOMAIN m.owner : m.owner[i].load # m.loads
    <3>1. \A i \in DOMAIN m.owner : m.owner[i].load \in Nat /\ m.owner[i].load < m.loads
      BY <1>2 DEF Module
    <3> QED
      BY <1>2, <3>1
  <2> QED
    BY <1>3, <2>1 DEF Range
<1>6. Range(n.owner) = Range(m.owner) \cup (IF E = {} THEN {} ELSE {o})
  <2>1. IdsOf(E) = {} <=> E = {}
    BY DEF IdsOf
  <2> QED
    BY <1>1, <2>1 DEF Range
<1>7. ASSUME NEW k
      PROVE  Cardinality(OfLib(n.owner, k)) =
               IF k = l /\ E # {} THEN Cardinality(OfLib(m.owner, k)) + 1
               ELSE Cardinality(OfLib(m.owner, k))
  <2>1. IsFiniteSet(OfLib(m.owner, k))
    BY <1>2, OfLibFinite
  <2>2. CASE k = l /\ E # {}
    <3>1. OfLib(n.owner, k) = OfLib(m.owner, k) \cup {o} /\ o \notin OfLib(m.owner, k)
      BY <1>3, <1>5, <1>6, <2>2 DEF OfLib
    <3> QED
      BY <2>1, <2>2, <3>1, FS_AddElement
  <2>3. CASE ~(k = l /\ E # {})
    <3>1. OfLib(n.owner, k) = OfLib(m.owner, k)
      BY <1>3, <1>6, <2>3 DEF OfLib
    <3> QED
      BY <2>3, <3>1
  <2> QED
    BY <2>2, <2>3
<1> QED
  BY <1>4, <1>7 DEF n, AddsModule

(* A file's module is kept with what of it is new, or ends with load.       *)
LEMMA LoadFileKeeps ==
  ASSUME NEW others \in [Libraries -> Nat], NEW s, Kept(s, others), EntriesOwned(s.manager),
         NEW file \in DOMAIN Library
  PROVE  /\ Kept(LoadFile(s, file), others) /\ EntriesOwned(LoadFile(s, file).manager)
         /\ s.manager.entries \subseteq LoadFile(s, file).manager.entries
<1> DEFINE l == Library[file]
           E == New(s.manager, Entries[l])
           t == Loaded(s, l)
<1>1. s \in Loadings /\ s.manager \in Managers /\ IsFiniteSet(DOMAIN s.manager.owner)
      /\ (\A i \in DOMAIN s.manager.owner : s.manager.owner[i].load < s.manager.loads)
      /\ s.manager.owner \in Partial(Ids, Module)
  BY DEF Kept, Loadings, Managers
<1>2. l \in Libraries /\ l \in Libraries \cup {Builtin} /\ IsNew(s.manager, E)
  <2>1. l \in Libraries /\ Entries[l] \in Seq(Plugin)
    BY SessionAssumption, RegistersPlugins
  <2> QED
    BY <2>1, NewIs
<1> HIDE DEF E
<1>3. /\ t \in Loadings /\ t.manager = s.manager
      /\ \A k \in Libraries : /\ t.shared[k] = IF k = l THEN s.shared[k] + 1 ELSE s.shared[k]
                              /\ t.opened[k] = IF k = l THEN s.opened[k] + 1 ELSE s.opened[k]
  BY <1>1, <1>2, LoadedIs
<1>4. \A k \in Libraries :
        /\ s.shared[k] \in Int /\ s.opened[k] \in Int /\ s.shared[k] <= s.opened[k]
        /\ others[k] \in Nat /\ Cardinality(OfLib(s.manager.owner, k)) \in Nat
        /\ s.shared[k] = others[k] + Cardinality(OfLib(s.manager.owner, k))
  BY <1>1, OfLibFinite DEF Kept, Loadings
<1>5. CASE l \in Bare \/ E = {}
  <2> DEFINE u == Unloaded(t, l)
  <2>1. LoadFile(s, file) = u
    BY <1>5 DEF LoadFile, E
  <2>2. /\ u \in Loadings /\ u.manager = t.manager
        /\ \A k \in Libraries :
             /\ u.shared[k] = IF k = l THEN t.shared[k] - 1 ELSE t.shared[k]
             /\ u.opened[k] = IF k = l /\ t.shared[k] = 1 THEN t.opened[k] - 1 ELSE t.opened[k]
    BY <1>2, <1>3, UnloadedIs
  <2> HIDE DEF u, t, l
  <2>3. ASSUME NEW k \in Libraries PROVE u.shared[k] = s.shared[k] /\ u.shared[k] <= u.opened[k]
    <3>1. /\ u.shared[k] = IF k = l THEN t.shared[k] - 1 ELSE t.shared[k]
          /\ u.opened[k] = IF k = l /\ t.shared[k] = 1 THEN t.opened[k] - 1 ELSE t.opened[k]
          /\ t.shared[k] = IF k = l THEN s.shared[k] + 1 ELSE s.shared[k]
          /\ t.opened[k] = IF k = l THEN s.opened[k] + 1 ELSE s.opened[k]
          /\ s.shared[k] \in Int /\ s.opened[k] \in Int /\ s.shared[k] <= s.opened[k]
      BY <1>3, <1>4, <2>2
    <3> QED
      BY <3>1
  <2>4. Kept(u, others)
    BY <1>1, <1>3, <1>4, <2>2, <2>3 DEF Kept
  <2> QED
    BY <1>3, <2>1, <2>2, <2>4
<1>6. CASE ~(l \in Bare \/ E = {})
  <2> DEFINE n == Registered(s.manager, l, E)
             files == Over(n.files, [i \in IdsOf(E) |-> file])
             m == [n EXCEPT !.files = files]
             u == [t EXCEPT !.manager = m]
  <2>1. LoadFile(s, file) = u
    BY <1>6 DEF LoadFile, E
  <2>2. /\ n \in Managers /\ IsFiniteSet(DOMAIN n.owner) /\ s.manager.entries \subseteq n.entries
        /\ n.files = s.manager.files
    <3>1. Adds(n, s.manager, l, E)
      BY <1>1, <1>2, RegisteredIs
    <3> QED
      BY <3>1 DEF Adds
  <2>3. /\ \A i \in DOMAIN n.owner : n.owner[i].load < n.loads
        /\ \A k : Cardinality(OfLib(n.owner, k)) =
             IF k = l /\ E # {} THEN Cardinality(OfLib(s.manager.owner, k)) + 1
             ELSE Cardinality(OfLib(s.manager.owner, k))
    <3>1. AddsModule(n, s.manager, l, E)
      BY <1>1, <1>2, RegisteredCounts
    <3> QED
      BY <3>1 DEF AddsModule
  <2>4. EntriesOwned(n)
    BY <1>1, <1>2, RegisteredOwned
  <2> HIDE DEF n
  <2>5. files \in Partial(Ids, DOMAIN Library)
    <3>1. IdsOf(E) \subseteq Ids
      BY <1>2 DEF IsNew, IdsOf, Plugin
    <3>2. [i \in IdsOf(E) |-> file] \in Partial(Ids, DOMAIN Library)
      BY <3>1, PartialIs
    <3>3. n.files \in Partial(Ids, DOMAIN Library)
      BY <2>2 DEF Managers
    <3> QED
      BY <3>2, <3>3, Joined
  <2> HIDE DEF files
  <2>6. m \in Managers /\ m.entries = n.entries /\ m.owner = n.owner /\ m.loads = n.loads
    BY <2>2, <2>5 DEF Managers
  <2> HIDE DEF m
  <2>7. u \in Loadings /\ u.manager = m /\ u.shared = t.shared /\ u.opened = t.opened
    BY <1>3, <2>6 DEF Loadings
  <2> HIDE DEF u, t, l
  <2>8. ASSUME NEW k \in Libraries
        PROVE  /\ u.shared[k] = others[k] + Cardinality(OfLib(u.manager.owner, k))
               /\ u.shared[k] <= u.opened[k]
    BY <1>3, <1>4, <1>6, <2>3, <2>6, <2>7
  <2>9. Kept(u, others)
    BY <2>2, <2>3, <2>6, <2>7, <2>8 DEF Kept
  <2>10. EntriesOwned(u.manager) /\ s.manager.entries \subseteq u.manager.entries
    BY <2>2, <2>4, <2>6, <2>7 DEF EntriesOwned
  <2> QED
    BY <2>1, <2>9, <2>10
<1> QED
  BY <1>5, <1>6

(* The built-in module belongs to no library.                               *)
LEMMA WithBuiltinsKeeps ==
  ASSUME NEW others \in [Libraries -> Nat], NEW s, Kept(s, others), EntriesOwned(s.manager)
  PROVE  Kept(WithBuiltins(s), others) /\ EntriesOwned(WithBuiltins(s).manager)
<1> DEFINE E == New(s.manager, Builtins)
           n == Registered(s.manager, Builtin, E)
           u == [s EXCEPT !.manager = n]
<1>1. s \in Loadings /\ s.manager \in Managers /\ IsFiniteSet(DOMAIN s.manager.owner)
      /\ (\A i \in DOMAIN s.manager.owner : s.manager.owner[i].load < s.manager.loads)
  BY DEF Kept, Loadings
<1>2. Builtin \in Libraries \cup {Builtin} /\ IsNew(s.manager, E)
  <2>1. Builtins \in Seq(Plugin)
    BY RegistersPlugins
  <2> QED
    BY <2>1, NewIs
<1>3. WithBuiltins(s) = u
  BY DEF WithBuiltins
<1> HIDE DEF E
<1>4. n \in Managers /\ IsFiniteSet(DOMAIN n.owner)
  <2>1. Adds(n, s.manager, Builtin, E)
    BY <1>1, <1>2, RegisteredIs
  <2> QED
    BY <2>1 DEF Adds
<1>5. /\ \A i \in DOMAIN n.owner : n.owner[i].load < n.loads
      /\ \A k : Cardinality(OfLib(n.owner, k)) =
           IF k = Builtin /\ E # {} THEN Cardinality(OfLib(s.manager.owner, k)) + 1
           ELSE Cardinality(OfLib(s.manager.owner, k))
  <2>1. AddsModule(n, s.manager, Builtin, E)
    BY <1>1, <1>2, RegisteredCounts
  <2> QED
    BY <2>1 DEF AddsModule
<1>6. EntriesOwned(n)
  BY <1>1, <1>2, RegisteredOwned
<1> HIDE DEF n
<1>7. u \in Loadings /\ u.manager = n /\ u.shared = s.shared /\ u.opened = s.opened
  BY <1>1, <1>4 DEF Loadings
<1> HIDE DEF u
<1>8. \A k \in Libraries : Cardinality(OfLib(n.owner, k)) = Cardinality(OfLib(s.manager.owner, k))
  BY <1>5, SessionAssumption
<1>9. Kept(u, others)
  BY <1>4, <1>5, <1>7, <1>8 DEF Kept
<1> QED
  BY <1>3, <1>6, <1>7, <1>9

(* What becomes of s when the ids are erased. *)
Without(owner, ids) == [i \in DOMAIN owner \ ids |-> owner[i]]
Less(t, s, ids) == t.manager = [s.manager EXCEPT !.owner = Without(s.manager.owner, ids)]

LEMMA WithoutIs ==
  ASSUME NEW m \in Managers, NEW ids
  PROVE  /\ [m EXCEPT !.owner = Without(m.owner, ids)] \in Managers
         /\ [m EXCEPT !.owner = Without(m.owner, ids)].owner = Without(m.owner, ids)
         /\ Without(m.owner, ids) \in Partial(Ids, Module)
<1> DEFINE owner == Without(m.owner, ids)
<1>1. DOMAIN m.owner \subseteq Ids /\ m.owner \in [DOMAIN m.owner -> Module]
  BY MemberKinds
<1>2. DOMAIN owner \subseteq Ids /\ owner \in [DOMAIN owner -> Module]
  BY <1>1 DEF Without
<1>3. owner \in Partial(Ids, Module)
  BY <1>2, PartialIs
<1> HIDE DEF owner
<1>4. [m EXCEPT !.owner = owner] = [entries |-> m.entries, owner |-> owner, files |-> m.files, loads |-> m.loads]
  BY DEF Managers
<1>5. m.entries \in SUBSET Listed /\ m.files \in Partial(Ids, DOMAIN Library) /\ m.loads \in Nat
  BY DEF Managers
<1> QED
  BY <1>3, <1>4, <1>5 DEF Managers, owner

(* An id that is the last to lead to its module ends the module, and no     *)
(* other does.                                                              *)
LEMMA ErasedKeeps ==
  ASSUME NEW others \in [Libraries -> Nat], NEW s, Kept(s, others),
         NEW id, id \in DOMAIN s.manager.owner
  PROVE  Kept(Erased(s, id), others) /\ Less(Erased(s, id), s, {id})
<1> DEFINE o == s.manager.owner[id]
           owner == Without(s.manager.owner, {id})
           m == [s.manager EXCEPT !.owner = owner]
           t == [s EXCEPT !.manager = m]
           shares == \E i \in DOMAIN owner : owner[i] = o
<1>1. /\ s \in Loadings /\ s.manager \in Managers /\ IsFiniteSet(DOMAIN s.manager.owner)
      /\ (\A i \in DOMAIN s.manager.owner : s.manager.owner[i].load < s.manager.loads)
      /\ s.manager.owner \in Partial(Ids, Module)
  BY DEF Kept, Loadings, Managers
<1>2. s.manager.owner \in [DOMAIN s.manager.owner -> Module] /\ o \in Module
  BY <1>1, PartialIs
<1>3. Erased(s, id) = IF o.lib = Builtin \/ shares THEN t ELSE Unloaded(t, o.lib)
  BY DEF Erased, Without
<1>4. /\ DOMAIN owner = DOMAIN s.manager.owner \ {id}
      /\ \A i \in DOMAIN owner : owner[i] = s.manager.owner[i]
  BY DEF Without
<1>5. m \in Managers /\ m.owner = owner /\ m.loads = s.manager.loads /\ owner \in Partial(Ids, Module)
  <2>1. m.loads = s.manager.loads
    BY <1>1 DEF Managers
  <2> QED
    BY <1>1, <2>1, WithoutIs
<1>6. IsFiniteSet(DOMAIN owner)
  BY <1>1, <1>4, FS_Subset
<1>7. t \in Loadings /\ t.manager = m /\ t.shared = s.shared /\ t.opened = s.opened
  <2> HIDE DEF m
  <2> QED
    BY <1>1, <1>5 DEF Loadings
<1>8. \A k \in Libraries :
        /\ s.shared[k] \in Int /\ s.opened[k] \in Int /\ s.shared[k] <= s.opened[k]
        /\ others[k] \in Nat /\ Cardinality(OfLib(s.manager.owner, k)) \in Nat
        /\ s.shared[k] = others[k] + Cardinality(OfLib(s.manager.owner, k))
  BY <1>1, OfLibFinite DEF Kept, Loadings
<1>9. \A i \in DOMAIN m.owner : m.owner[i].load < m.loads
  BY <1>1, <1>4, <1>5
<1>10. Less(t, s, {id})
  BY <1>7 DEF Less
<1>11. CASE o.lib = Builtin \/ shares
  <2>1. \A k \in Libraries : OfLib(owner, k) = OfLib(s.manager.owner, k)
    <3>1. CASE o.lib = Builtin
      <4>1. \A k \in Libraries : o.lib # k
        BY <3>1, SessionAssumption
      <4> HIDE DEF owner, o
      <4>2. \A k \in Libraries : \A x : x \in OfLib(owner, k) <=> x \in OfLib(s.manager.owner, k)
        BY <1>4, <4>1 DEF OfLib, Range, o
      <4> QED
        BY <4>2 DEF OfLib
    <3>2. CASE shares
      <4>1. Range(owner) = Range(s.manager.owner)
        <5> HIDE DEF owner
        <5> QED
          BY <1>4, <3>2 DEF Range
      <4> QED
        BY <4>1 DEF OfLib
    <3> QED
      BY <1>11, <3>1, <3>2
  <2> HIDE DEF t, m, owner
  <2>2. Kept(t, others)
    BY <1>5, <1>6, <1>7, <1>8, <1>9, <2>1 DEF Kept
  <2> QED
    BY <1>3, <1>10, <1>11, <2>2
<1>12. CASE ~(o.lib = Builtin \/ shares)
  <2> DEFINE l == o.lib
             u == Unloaded(t, l)
  <2>1. l \in Libraries
    BY <1>2, <1>12 DEF Module
  <2>2. /\ u \in Loadings /\ u.manager = t.manager
        /\ \A k \in Libraries :
             /\ u.shared[k] = IF k = l THEN t.shared[k] - 1 ELSE t.shared[k]
             /\ u.opened[k] = IF k = l /\ t.shared[k] = 1 THEN t.opened[k] - 1 ELSE t.opened[k]
    BY <1>7, <2>1, UnloadedIs
  <2>3. Range(owner) = Range(s.manager.owner) \ {o} /\ o \in Range(s.manager.owner)
    <3>1. \A i \in DOMAIN owner : owner[i] # o
      BY <1>12
    <3> HIDE DEF owner
    <3> QED
      BY <1>4, <3>1 DEF Range
  <2>4. ASSUME NEW k \in Libraries
        PROVE  Cardinality(OfLib(owner, k)) = IF k = l THEN Cardinality(OfLib(s.manager.owner, k)) - 1
                                              ELSE Cardinality(OfLib(s.manager.owner, k))
    <3>1. CASE k = l
      <4>1. OfLib(owner, k) = OfLib(s.manager.owner, k) \ {o} /\ o \in OfLib(s.manager.owner, k)
        BY <2>3, <3>1 DEF OfLib
      <4>2. IsFiniteSet(OfLib(s.manager.owner, k))
        BY <1>1, OfLibFinite
      <4> DEFINE S == OfLib(s.manager.owner, k)
      <4> HIDE DEF o, owner, l, S
      <4>3. Cardinality(S \ {o}) = IF o \in S THEN Cardinality(S) - 1 ELSE Cardinality(S)
        BY <4>2, FS_RemoveElement DEF S
      <4> QED
        BY <3>1, <4>1, <4>3 DEF S
    <3>2. CASE k # l
      <4>1. OfLib(owner, k) = OfLib(s.manager.owner, k)
        BY <2>3, <3>2 DEF OfLib
      <4> QED
        BY <3>2, <4>1
    <3> QED
      BY <3>1, <3>2
  <2>5. Erased(s, id) = u
    BY <1>3, <1>12
  <2> HIDE DEF u, t, m, owner, l
  <2>6. ASSUME NEW k \in Libraries
        PROVE  /\ u.shared[k] = others[k] + Cardinality(OfLib(u.manager.owner, k))
               /\ u.shared[k] <= u.opened[k]
    <3>1. /\ u.shared[k] = IF k = l THEN s.shared[k] - 1 ELSE s.shared[k]
          /\ u.opened[k] = IF k = l /\ s.shared[k] = 1 THEN s.opened[k] - 1 ELSE s.opened[k]
          /\ u.manager.owner = owner
      BY <1>5, <1>7, <2>2
    <3>2. /\ s.shared[k] \in Int /\ s.opened[k] \in Int /\ s.shared[k] <= s.opened[k]
          /\ others[k] \in Nat /\ Cardinality(OfLib(s.manager.owner, k)) \in Nat
          /\ s.shared[k] = others[k] + Cardinality(OfLib(s.manager.owner, k))
      BY <1>8
    <3> QED
      BY <2>4, <3>1, <3>2
  <2>7. Kept(u, others)
    BY <1>5, <1>6, <1>7, <1>9, <2>2, <2>6 DEF Kept
  <2>8. Less(u, s, {id})
    BY <1>10, <2>2 DEF Less
  <2> QED
    BY <2>5, <2>7, <2>8
<1> QED
  BY <1>11, <1>12

LEMMA LessAgain ==
  ASSUME NEW s, s.manager \in Managers, NEW t, NEW u, NEW A, NEW B,
         Less(t, s, A), Less(u, t, B)
  PROVE  Less(u, s, A \cup B)
<1> DEFINE m == s.manager
           a == Without(m.owner, A)
           b == Without(a, B)
<1>1. t.manager = [m EXCEPT !.owner = a]
  BY DEF Less
<1>2. t.manager = [entries |-> m.entries, owner |-> a, files |-> m.files, loads |-> m.loads]
  <2> HIDE DEF a
  <2> QED
    BY <1>1 DEF Managers
<1>3. u.manager = [t.manager EXCEPT !.owner = Without(t.manager.owner, B)] /\ t.manager.owner = a
  <2> HIDE DEF a
  <2> QED
    BY <1>2 DEF Less
<1>4. u.manager = [entries |-> m.entries, owner |-> b, files |-> m.files, loads |-> m.loads]
  <2>1. u.manager = [t.manager EXCEPT !.owner = b]
    BY <1>3
  <2> HIDE DEF a, b
  <2> QED
    BY <1>2, <2>1
<1>5. b = Without(m.owner, A \cup B)
  BY DEF Without
<1> HIDE DEF a, b
<1>6. u.manager = [m EXCEPT !.owner = b]
  BY <1>4 DEF Managers
<1> QED
  BY <1>5, <1>6 DEF Less

LEMMA LessNothing ==
  ASSUME NEW s, s.manager \in Managers, NEW A, A \cap DOMAIN s.manager.owner = {}
  PROVE  Less(s, s, A)
<1> DEFINE owner == Without(s.manager.owner, A)
<1>1. s.manager.owner \in [DOMAIN s.manager.owner -> Module]
  BY MemberKinds
<1>2. owner = s.manager.owner
  BY <1>1 DEF Without
<1> HIDE DEF owner
<1>3. s.manager = [s.manager EXCEPT !.owner = owner]
  BY <1>2 DEF Managers
<1> QED
  BY <1>3 DEF Less, owner

(* One id after another, none of them leads to a module in the end.         *)
EraseOne(t, ids) ==
  IF ids \cap DOMAIN t.manager.owner = {} THEN t
  ELSE Erased(t, CHOOSE i \in ids \cap DOMAIN t.manager.owner : TRUE)

LEMMA EraseOneKeeps ==
  ASSUME NEW others \in [Libraries -> Nat], NEW t, Kept(t, others), NEW ids
  PROVE  /\ Kept(EraseOne(t, ids), others)
         /\ \/ ids \cap DOMAIN t.manager.owner = {} /\ EraseOne(t, ids) = t
            \/ \E i \in ids \cap DOMAIN t.manager.owner : Less(EraseOne(t, ids), t, {i})
<1> DEFINE rest == ids \cap DOMAIN t.manager.owner
           i == CHOOSE j \in rest : TRUE
<1>1. CASE rest = {}
  BY <1>1 DEF EraseOne
<1>2. CASE rest # {}
  <2>1. i \in rest
    BY <1>2
  <2>2. EraseOne(t, ids) = Erased(t, i)
    BY <1>2 DEF EraseOne
  <2> HIDE DEF i
  <2>3. Kept(Erased(t, i), others) /\ Less(Erased(t, i), t, {i})
    BY <2>1, ErasedKeeps
  <2> QED
    BY <2>1, <2>2, <2>3
<1> QED
  BY <1>1, <1>2

LEMMA ErasedAllKeeps ==
  ASSUME NEW others \in [Libraries -> Nat], NEW s, Kept(s, others), NEW ids, IsFiniteSet(ids)
  PROVE  Kept(ErasedAll(s, ids), others) /\ Less(ErasedAll(s, ids), s, ids)
<1> DEFINE N == Cardinality(ids)
           S == {t \in Loadings : Kept(t, others)}
           erases == [n \in (0 .. N) \ {0} |-> [t \in S |-> EraseOne(t, ids)]]
           erased[n \in 0 .. Cardinality(ids)] ==
             IF n = 0 THEN s
             ELSE LET t == erased[n - 1]
                      rest == ids \cap DOMAIN t.manager.owner
                  IN  IF rest = {} THEN t ELSE Erased(t, CHOOSE i \in rest : TRUE)
<1>0. ErasedAll(s, ids) = erased[N]
  BY DEF ErasedAll, erased, N
<1> HIDE DEF erased
<1>1. N \in Nat /\ \A n \in (0 .. N) \ {0} : n \in 1 .. N /\ n - 1 \in 0 .. N
  BY FS_CardinalityType
<1>2. s \in S /\ \A t \in S : EraseOne(t, ids) \in S
  <2>1. s \in S
    BY DEF Kept
  <2>2. ASSUME NEW t \in S PROVE EraseOne(t, ids) \in S
    <3>1. Kept(EraseOne(t, ids), others)
      BY EraseOneKeeps
    <3> QED
      BY <3>1 DEF Kept
  <2> QED
    BY <2>1, <2>2
<1>3. \A t \in S : Kept(t, others)
  OBVIOUS
<1> HIDE DEF S
<1>4. PICK f : General!Follows(f, 0, N, S, s, erases)
  <2>1. General!Steps(erases, 0, N, S)
    BY <1>1, <1>2 DEF General!Steps
  <2>2. 0 \in Int /\ N \in Int /\ 0 <= N
    BY <1>1
  <2> HIDE DEF erases, N
  <2> QED
    BY <1>2, <2>1, <2>2, General!Recursion
<1>5. f \in [0 .. N -> S] /\ f[0] = s
  BY <1>4 DEF General!Follows
<1>6. \A n \in 0 .. N : f[n] = IF n = 0 THEN s ELSE EraseOne(f[n - 1], ids)
  <2>1. ASSUME NEW n \in (0 .. N) \ {0} PROVE f[n] = EraseOne(f[n - 1], ids)
    <3>1. f[n] = erases[n][f[n - 1]]
      <4> HIDE DEF erases
      <4> QED
        BY <1>4 DEF General!Follows
    <3>2. f[n - 1] \in S
      BY <1>1, <1>5
    <3> QED
      BY <3>1, <3>2
  <2> QED
    BY <1>5, <2>1
<1>7. f = [n \in 0 .. Cardinality(ids) |-> IF n = 0 THEN s ELSE EraseOne(f[n - 1], ids)]
  BY <1>5, <1>6
<1>8. erased = [n \in 0 .. Cardinality(ids) |-> IF n = 0 THEN s ELSE EraseOne(erased[n - 1], ids)]
  BY <1>7, Zenon DEF erased, EraseOne
<1>9. erased[0] = s /\ \A n \in (0 .. N) \ {0} : erased[n] = EraseOne(erased[n - 1], ids)
  <2>1. ASSUME NEW n \in 0 .. Cardinality(ids)
        PROVE  erased[n] = IF n = 0 THEN s ELSE EraseOne(erased[n - 1], ids)
    BY <1>8, Zenon
  <2> QED
    BY <1>1, <2>1
<1> DEFINE Left(t) == ids \cap DOMAIN t.manager.owner
           Good(t, n) == /\ Kept(t, others) /\ Less(t, s, ids \ Left(t))
                         /\ Cardinality(Left(t)) <= N - n
           T == {n \in 0 .. N : Good(erased[n], n)}
<1>10. s.manager \in Managers
  BY DEF Kept, Loadings
<1>11. \A t : IsFiniteSet(Left(t)) /\ Cardinality(Left(t)) \in Nat
  <2>1. ASSUME NEW t PROVE IsFiniteSet(Left(t)) /\ Cardinality(Left(t)) \in Nat
    BY FS_Subset, FS_CardinalityType
  <2> QED
    BY <2>1
<1>12. 0 \in T
  <2>1. Less(s, s, ids \ Left(s))
    <3>1. (ids \ Left(s)) \cap DOMAIN s.manager.owner = {}
      OBVIOUS
    <3> HIDE DEF Left
    <3> QED
      BY <1>10, <3>1, LessNothing
  <2>2. Cardinality(Left(s)) <= N
    BY FS_Subset
  <2> HIDE DEF Left, N
  <2>3. Good(s, 0)
    BY <1>1, <2>1, <2>2
  <2> HIDE DEF Good
  <2> QED
    BY <1>1, <1>9, <2>3
<1>13. ASSUME NEW n \in 0 .. N, n # 0, n - 1 \in T PROVE n \in T
  <2> DEFINE t == erased[n - 1]
             u == EraseOne(t, ids)
  <2>1. Good(t, n - 1) /\ erased[n] = u
    <3> HIDE DEF Good
    <3> QED
      BY <1>9, <1>13
  <2> HIDE DEF t, N
  <2>2. /\ Kept(u, others)
        /\ \/ Left(t) = {} /\ u = t
           \/ \E i \in Left(t) : Less(u, t, {i})
    BY <2>1, EraseOneKeeps
  <2> HIDE DEF u
  <2>3. Good(u, n)
    <3>1. CASE Left(t) = {} /\ u = t
      <4>1. Cardinality(Left(t)) = 0
        BY <3>1, FS_EmptySet
      <4> HIDE DEF Left
      <4>2. 0 <= N - n
        BY <1>1, <1>13
      <4>3. Kept(t, others) /\ Less(t, s, ids \ Left(t)) /\ Cardinality(Left(t)) <= N - n
        BY <2>1, <4>1, <4>2
      <4> QED
        BY <3>1, <4>3
    <3>2. CASE \E i \in Left(t) : Less(u, t, {i})
      <4>1. PICK i \in Left(t) : Less(u, t, {i})
        BY <3>2
      <4>2. DOMAIN u.manager.owner = DOMAIN t.manager.owner \ {i}
        <5>1. t.manager \in Managers
          BY <2>1 DEF Kept, Loadings
        <5>2. u.manager.owner = Without(t.manager.owner, {i})
          BY <4>1, <5>1, WithoutIs DEF Less
        <5> QED
          BY <5>2 DEF Without
      <4>3. Left(u) = Left(t) \ {i} /\ ids \ Left(u) = (ids \ Left(t)) \cup {i}
        BY <4>1, <4>2
      <4>4. Less(u, s, ids \ Left(u))
        <5> HIDE DEF Left
        <5> QED
          BY <1>10, <2>1, <4>1, <4>3, LessAgain
      <4>5. Cardinality(Left(u)) = Cardinality(Left(t)) - 1
        <5> HIDE DEF Left
        <5>1. IsFiniteSet(Left(t))
          BY <1>11
        <5>2. Cardinality(Left(t) \ {i}) = IF i \in Left(t) THEN Cardinality(Left(t)) - 1 ELSE Cardinality(Left(t))
          BY <5>1, FS_RemoveElement
        <5> QED
          BY <4>1, <4>3, <5>2
      <4> HIDE DEF Left
      <4>6. Cardinality(Left(u)) <= N - n
        BY <1>1, <1>11, <1>13, <2>1, <4>5
      <4> QED
        BY <2>2, <4>4, <4>6
    <3> QED
      BY <2>2, <3>1, <3>2
  <2> HIDE DEF Good
  <2> QED
    BY <1>13, <2>1, <2>3
<1>14. Good(erased[N], N)
  <2> HIDE DEF Good, N
  <2>1. N \in T
    <3> HIDE DEF T
    <3>1. 0 .. N \subseteq T
      BY <1>1, <1>12, <1>13, General!IntervalInduction
    <3> QED
      BY <1>1, <3>1
  <2> QED
    BY <2>1
<1> DEFINE t == erased[N]
<1>15. Left(t) = {}
  <2> HIDE DEF Left, t, N
  <2>1. Cardinality(Left(t)) = 0
    BY <1>1, <1>11, <1>14 DEF t
  <2> QED
    BY <1>11, <2>1, FS_EmptySet
<1>16. ids \ Left(t) = ids
  BY <1>15
<1> HIDE DEF Left, N
<1> QED
  BY <1>0, <1>14, <1>16

(* A context's commands that are disabled leave its lists, and their ids.   *)
LEMMA CheckedKeeps ==
  ASSUME NEW others \in [Libraries -> Nat], NEW s, Kept(s, others), EntriesOwned(s.manager),
         NEW disabled, disabled \subseteq s.manager.entries
  PROVE  /\ Kept(Checked(s, disabled), others) /\ EntriesOwned(Checked(s, disabled).manager)
         /\ Checked(s, disabled).manager.entries = s.manager.entries \ disabled
<1> DEFINE t == ErasedAll(s, IdsOf(disabled))
           m == s.manager
           owner == Without(m.owner, IdsOf(disabled))
           n == [m EXCEPT !.entries = m.entries \ disabled, !.owner = owner]
           u == [t EXCEPT !.manager = n]
<1>1. s \in Loadings /\ m \in Managers /\ IsFiniteSet(DOMAIN m.owner)
  BY DEF Kept, Loadings
<1>2. IsFiniteSet(IdsOf(disabled))
  <2>1. IdsOf(disabled) \in SUBSET DOMAIN m.owner
    BY DEF EntriesOwned, IdsOf
  <2> QED
    BY <1>1, <2>1, FS_Subset
<1>3. Kept(t, others) /\ Less(t, s, IdsOf(disabled))
  BY <1>2, ErasedAllKeeps
<1>4. /\ t \in Loadings /\ IsFiniteSet(DOMAIN t.manager.owner)
      /\ \A i \in DOMAIN t.manager.owner : t.manager.owner[i].load < t.manager.loads
      /\ \A l \in Libraries : /\ t.shared[l] = others[l] + Cardinality(OfLib(t.manager.owner, l))
                              /\ t.shared[l] <= t.opened[l]
  BY <1>3 DEF Kept
<1>5. t.manager = [m EXCEPT !.owner = owner] /\ t.manager.owner = owner /\ owner \in Partial(Ids, Module)
  BY <1>1, <1>3, WithoutIs DEF Less
<1>6. /\ DOMAIN owner = DOMAIN m.owner \ IdsOf(disabled)
      /\ \A i \in DOMAIN owner : owner[i] = m.owner[i]
  BY DEF Without
<1> HIDE DEF owner
<1>7. n = [entries |-> m.entries \ disabled, owner |-> owner, files |-> m.files, loads |-> m.loads]
  <2> DEFINE entries == m.entries \ disabled
  <2>1. n = [m EXCEPT !.entries = entries, !.owner = owner]
    OBVIOUS
  <2>2. m = [entries |-> m.entries, owner |-> m.owner, files |-> m.files, loads |-> m.loads]
    BY <1>1 DEF Managers
  <2> HIDE DEF entries, n, m
  <2>3. n = [entries |-> entries, owner |-> owner, files |-> m.files, loads |-> m.loads]
    BY <2>1, <2>2
  <2> QED
    BY <2>3 DEF entries
<1>8. t.manager = [entries |-> m.entries, owner |-> owner, files |-> m.files, loads |-> m.loads]
  BY <1>1, <1>5 DEF Managers
<1>9. n \in Managers
  <2>1. m.entries \subseteq Listed /\ m.files \in Partial(Ids, DOMAIN Library) /\ m.loads \in Nat
    BY <1>1 DEF Managers
  <2> QED
    BY <1>5, <1>7, <2>1 DEF Managers
<1>10. Checked(s, disabled) = u
  <2>1. Checked(s, disabled) = [t EXCEPT !.manager = [t.manager EXCEPT !.entries = t.manager.entries \ disabled]]
    BY DEF Checked
  <2>2. [t.manager EXCEPT !.entries = t.manager.entries \ disabled] = n
    <3> HIDE DEF n, t
    <3> QED
      BY <1>7, <1>8, SMTT(30)
  <2> HIDE DEF n, t
  <2> QED
    BY <2>1, <2>2
<1> HIDE DEF n, t
<1>11. u \in Loadings /\ u.manager = n /\ u.shared = t.shared /\ u.opened = t.opened
  BY <1>4, <1>9 DEF Loadings
<1> HIDE DEF u
<1>12. n.entries = m.entries \ disabled /\ n.owner = owner /\ n.loads = m.loads
  BY <1>7
<1>13. t.manager.loads = m.loads /\ t.manager.owner = owner
  BY <1>8
<1>14. Kept(u, others)
  BY <1>4, <1>11, <1>12, <1>13 DEF Kept
<1>15. EntriesOwned(n)
  <2>1. ASSUME NEW e \in n.entries PROVE e.id \in DOMAIN owner /\ owner[e.id].lib = e.lib
    <3>1. e \in m.entries /\ e \notin disabled
      BY <1>12
    <3>2. e.id \notin IdsOf(disabled)
      BY <3>1 DEF EntriesOwned, IdsOf
    <3> QED
      BY <1>6, <3>1, <3>2 DEF EntriesOwned
  <2>2. \A d, e \in n.entries : d.id = e.id => d = e
    BY <1>12 DEF EntriesOwned
  <2> QED
    BY <1>12, <2>1, <2>2 DEF EntriesOwned
<1> QED
  BY <1>10, <1>11, <1>12, <1>14, <1>15

LEMMA NoPluginsKept ==
  ASSUME NEW others \in [Libraries -> Nat], NEW s, Kept(s, others), DOMAIN s.manager.owner = {}
  PROVE  Kept([s EXCEPT !.manager = NoPlugins], others)
<1> DEFINE u == [s EXCEPT !.manager = NoPlugins]
<1>1. NoPlugins \in Managers /\ DOMAIN NoPlugins.owner = {} /\ NoPlugins.loads = 0
  <2>1. DOMAIN None = {} /\ None \in [{} -> Module] /\ None \in [{} -> DOMAIN Library]
    BY DEF None
  <2>2. None \in Partial(Ids, Module) /\ None \in Partial(Ids, DOMAIN Library)
    BY <2>1, PartialIs
  <2> QED
    BY <2>1, <2>2 DEF NoPlugins, Managers
<1>2. s \in Loadings
  BY DEF Kept
<1>3. u \in Loadings /\ u.manager = NoPlugins /\ u.shared = s.shared /\ u.opened = s.opened
  <2> HIDE DEF NoPlugins
  <2> QED
    BY <1>1, <1>2 DEF Loadings
<1>4. \A l : OfLib(NoPlugins.owner, l) = {} /\ OfLib(s.manager.owner, l) = {}
  BY <1>1 DEF OfLib, Range
<1> HIDE DEF u, NoPlugins
<1>5. IsFiniteSet(DOMAIN NoPlugins.owner)
  BY <1>1, FS_EmptySet
<1>6. \A l \in Libraries : /\ u.shared[l] = others[l] + Cardinality(OfLib(u.manager.owner, l))
                           /\ u.shared[l] <= u.opened[l]
  BY <1>3, <1>4 DEF Kept
<1>7. \A i \in DOMAIN u.manager.owner : u.manager.owner[i].load < u.manager.loads
  BY <1>1, <1>3
<1> QED
  BY <1>1, <1>3, <1>5, <1>6, <1>7 DEF Kept, u

LEMMA LoadAllKeeps ==
  ASSUME NEW others \in [Libraries -> Nat], NEW files \in Seq(DOMAIN Library),
         Kept([shared |-> shared, opened |-> opened, manager |-> NoPlugins], others)
  PROVE  Kept(LoadAll(files), others) /\ EntriesOwned(LoadAll(files).manager)
<1> DEFINE base == [shared |-> shared, opened |-> opened, manager |-> NoPlugins]
           N == Len(files)
           S == {t \in Loadings : Kept(t, others) /\ EntriesOwned(t.manager)}
           loads == [n \in (0 .. N) \ {0} |-> [t \in S |-> LoadFile(t, files[n])]]
           loaded[n \in 0 .. Len(files)] ==
             IF n = 0 THEN [shared |-> shared, opened |-> opened, manager |-> NoPlugins]
             ELSE LoadFile(loaded[n - 1], files[n])
<1>0. LoadAll(files) = loaded[N]
  BY DEF LoadAll, loaded, N
<1> HIDE DEF loaded
<1>1. N \in Nat /\ \A n \in (0 .. N) \ {0} : files[n] \in DOMAIN Library /\ n - 1 \in 0 .. N
  OBVIOUS
<1>2. base \in S /\ \A t \in S, file \in DOMAIN Library : LoadFile(t, file) \in S
  <2>1. base \in S
    <3>1. EntriesOwned(base.manager)
      BY DEF EntriesOwned, NoPlugins
    <3> QED
      BY <3>1 DEF Kept
  <2>2. ASSUME NEW t \in S, NEW file \in DOMAIN Library PROVE LoadFile(t, file) \in S
    <3>1. Kept(LoadFile(t, file), others) /\ EntriesOwned(LoadFile(t, file).manager)
      BY LoadFileKeeps
    <3> QED
      BY <3>1 DEF Kept
  <2> QED
    BY <2>1, <2>2
<1>3. \A t \in S : Kept(t, others) /\ EntriesOwned(t.manager)
  OBVIOUS
<1> HIDE DEF S, base
<1>4. PICK f : General!Follows(f, 0, N, S, base, loads)
  <2>1. General!Steps(loads, 0, N, S)
    BY <1>1, <1>2 DEF General!Steps
  <2>2. 0 \in Int /\ N \in Int /\ 0 <= N
    BY <1>1
  <2> HIDE DEF loads, N
  <2> QED
    BY <1>2, <2>1, <2>2, General!Recursion
<1>5. f \in [0 .. N -> S] /\ f[0] = base
  BY <1>4 DEF General!Follows
<1>6. \A n \in 0 .. N : f[n] = IF n = 0 THEN base ELSE LoadFile(f[n - 1], files[n])
  <2>1. ASSUME NEW n \in (0 .. N) \ {0} PROVE f[n] = LoadFile(f[n - 1], files[n])
    <3>1. f[n] = loads[n][f[n - 1]]
      <4> HIDE DEF loads
      <4> QED
        BY <1>4 DEF General!Follows
    <3>2. f[n - 1] \in S
      BY <1>1, <1>5
    <3> QED
      BY <3>1, <3>2
  <2> QED
    BY <1>5, <2>1
<1>7. f = [n \in 0 .. Len(files) |-> IF n = 0 THEN base ELSE LoadFile(f[n - 1], files[n])]
  BY <1>5, <1>6
<1>8. loaded = [n \in 0 .. Len(files) |-> IF n = 0 THEN base ELSE LoadFile(loaded[n - 1], files[n])]
  BY <1>7, Zenon DEF loaded, base
<1>9. \A n \in 0 .. N : loaded[n] = IF n = 0 THEN base ELSE LoadFile(loaded[n - 1], files[n])
  <2>1. ASSUME NEW n \in 0 .. Len(files)
        PROVE  loaded[n] = IF n = 0 THEN base ELSE LoadFile(loaded[n - 1], files[n])
    BY <1>8, Zenon
  <2> QED
    BY <2>1
<1> DEFINE T == {n \in 0 .. N : loaded[n] \in S}
<1>10. 0 \in T
  BY <1>1, <1>2, <1>9
<1>11. ASSUME NEW n \in 0 .. N, n # 0, n - 1 \in T PROVE n \in T
  BY <1>1, <1>2, <1>9, <1>11
<1>12. N \in T
  <2>2. N \in Int /\ 0 \in Int
    BY <1>1
  <2>3. \A n \in 0 .. N : n # 0 /\ n - 1 \in T => n \in T
    BY <1>11
  <2> HIDE DEF T, N
  <2>1. 0 .. N \subseteq T
    BY <1>10, <2>2, <2>3, General!IntervalInduction
  <2> QED
    BY <1>1, <2>1
<1> QED
  BY <1>0, <1>3, <1>12
-----------------------------------------------------------------------------
(* The contexts together.                                                   *)

(* The modules that contexts have of a library, by the managers M.          *)
Uses(M, c, l) == {<<c, o>> : o \in OfLib(M[c].owner, l)}
InUse(M, l) == UNION {Uses(M, c, l) : c \in Contexts}
Elsewhere(M, c, l) == UNION {Uses(M, d, l) : d \in Contexts \ {c}}
Others(M, c) == [l \in Libraries |-> Cardinality(Elsewhere(M, c, l))]

Finite(M) == M \in [Contexts -> Managers] /\ \A c \in Contexts : IsFiniteSet(DOMAIN M[c].owner)

LEMMA UsesCounted ==
  ASSUME NEW M, Finite(M), NEW c \in Contexts, NEW l
  PROVE  IsFiniteSet(Uses(M, c, l)) /\ Cardinality(Uses(M, c, l)) = Cardinality(OfLib(M[c].owner, l))
<1> DEFINE A == OfLib(M[c].owner, l)
           f == [o \in A |-> <<c, o>>]
<1>1. M[c].owner \in Partial(Ids, Module) /\ IsFiniteSet(DOMAIN M[c].owner)
  BY DEF Finite, Managers
<1>2. IsFiniteSet(A)
  BY <1>1, OfLibFinite
<1> HIDE DEF A
<1>3. f \in Bijection(A, {<<c, o>> : o \in A})
  BY DEF Bijection, Injection, Surjection, IsInjective
<1>4. ExistsBijection(A, {<<c, o>> : o \in A})
  BY <1>3 DEF ExistsBijection
<1> QED
  BY <1>2, <1>4, FS_Bijection DEF Uses, A

LEMMA ElsewhereFinite ==
  ASSUME NEW M, Finite(M), NEW c, NEW l
  PROVE  IsFiniteSet(Elsewhere(M, c, l)) /\ Cardinality(Elsewhere(M, c, l)) \in Nat
<1> DEFINE D == Contexts \ {c}
           f == [d \in D |-> Uses(M, d, l)]
           SS == {Uses(M, d, l) : d \in D}
<1>1. IsFiniteSet(D)
  BY SessionAssumption, FS_Subset
<1>2. f \in Surjection(D, SS)
  BY DEF Surjection
<1>3. IsFiniteSet(SS)
  <2> HIDE DEF SS, f, D
  <2> QED
    BY <1>1, <1>2, FS_Surjection
<1>4. \A S \in SS : IsFiniteSet(S)
  BY UsesCounted
<1> HIDE DEF SS
<1>5. IsFiniteSet(UNION SS)
  BY <1>3, <1>4, FS_UNION
<1> QED
  BY <1>5, FS_CardinalityType DEF Elsewhere, SS

(* Those of a context and those of the others.                              *)
LEMMA InUseCounted ==
  ASSUME NEW M, Finite(M), NEW c \in Contexts, NEW l \in Libraries
  PROVE  Cardinality(InUse(M, l)) = Others(M, c)[l] + Cardinality(OfLib(M[c].owner, l))
<1> DEFINE S == Uses(M, c, l)
           T == Elsewhere(M, c, l)
<1>1. IsFiniteSet(S) /\ Cardinality(S) = Cardinality(OfLib(M[c].owner, l))
  BY UsesCounted
<1>2. IsFiniteSet(T) /\ Cardinality(T) \in Nat
  BY ElsewhereFinite
<1>3. S \cap T = {}
  BY DEF Uses, Elsewhere
<1>4. InUse(M, l) = S \cup T
  BY DEF InUse, Elsewhere
<1>5. Others(M, c)[l] = Cardinality(T)
  BY DEF Others
<1> HIDE DEF S, T
<1>6. Cardinality(S \cup T) = Cardinality(S) + Cardinality(T) - Cardinality(S \cap T)
  BY <1>1, <1>2, FS_Union
<1>7. Cardinality(S \cap T) = 0 /\ Cardinality(S) \in Nat
  BY <1>1, <1>3, FS_EmptySet, FS_CardinalityType
<1> QED
  BY <1>1, <1>2, <1>4, <1>5, <1>6, <1>7

LEMMA OthersIs ==
  ASSUME NEW M, Finite(M), NEW c
  PROVE  Others(M, c) \in [Libraries -> Nat]
<1>1. \A l \in Libraries : Cardinality(Elsewhere(M, c, l)) \in Nat
  BY ElsewhereFinite
<1> QED
  BY <1>1 DEF Others

LEMMA OthersStay ==
  ASSUME NEW M, NEW c, NEW x, DOMAIN M = Contexts
  PROVE  Others([M EXCEPT ![c] = x], c) = Others(M, c)
<1> DEFINE N == [M EXCEPT ![c] = x]
<1>1. \A d \in Contexts \ {c} : N[d] = M[d]
  OBVIOUS
<1> HIDE DEF N
<1>2. \A d \in Contexts \ {c} : \A l : Uses(N, d, l) = Uses(M, d, l)
  BY <1>1 DEF Uses
<1>3. \A l : Elsewhere(N, c, l) = Elsewhere(M, c, l)
  BY <1>2 DEF Elsewhere
<1> QED
  BY <1>3 DEF Others, N

(* Each context's plugins are kept, beside those of the others.             *)
PluginsKept ==
  /\ manager \in [Contexts -> Managers]
  /\ \A c \in Contexts : Kept(State(c), Others(manager, c)) /\ EntriesOwned(manager[c])

LEMMA PluginsFinite ==
  PluginsKept => Finite(manager) /\ \A c \in Contexts : Others(manager, c) \in [Libraries -> Nat]
<1> SUFFICES ASSUME PluginsKept PROVE Finite(manager) /\ \A c \in Contexts : Others(manager, c) \in [Libraries -> Nat]
  OBVIOUS
<1>1. Finite(manager)
  BY DEF PluginsKept, Finite, Kept, State
<1> QED
  BY <1>1, OthersIs

(* What a context does to its plugins leaves the others' kept.              *)
LEMMA PluginsStep ==
  ASSUME PluginsKept, NEW c \in Contexts, NEW t, Kept(t, Others(manager, c)),
         EntriesOwned(t.manager), Set(c, t)
  PROVE  PluginsKept' /\ manager'[c] = t.manager /\ \A d \in Contexts \ {c} : manager'[d] = manager[d]
<1> DEFINE N == [manager EXCEPT ![c] = t.manager]
<1>1. manager \in [Contexts -> Managers] /\ Finite(manager)
  BY PluginsFinite DEF PluginsKept
<1>2. /\ t \in Loadings /\ t.manager \in Managers /\ IsFiniteSet(DOMAIN t.manager.owner)
      /\ t = [shared |-> t.shared, opened |-> t.opened, manager |-> t.manager]
  BY DEF Kept, Loadings
<1>3. /\ N \in [Contexts -> Managers] /\ N[c] = t.manager
      /\ \A d \in Contexts \ {c} : N[d] = manager[d]
  BY <1>1, <1>2
<1>4. manager' = N /\ shared' = t.shared /\ opened' = t.opened
  BY DEF Set
<1>5. Others(N, c) = Others(manager, c)
  BY <1>1, OthersStay
<1> HIDE DEF N
<1>6. Finite(N)
  <2>1. \A d \in Contexts : IsFiniteSet(DOMAIN N[d].owner)
    BY <1>1, <1>2, <1>3 DEF Finite
  <2> QED
    BY <1>3, <2>1 DEF Finite
<1>7. \A l \in Libraries : Cardinality(InUse(N, l)) = t.shared[l] /\ t.shared[l] <= t.opened[l]
  <2>1. \A l \in Libraries : Cardinality(InUse(N, l)) = Others(N, c)[l] + Cardinality(OfLib(N[c].owner, l))
    BY <1>6, InUseCounted
  <2> QED
    BY <1>3, <1>5, <2>1 DEF Kept
<1>8. ASSUME NEW d \in Contexts
      PROVE  /\ Kept([shared |-> t.shared, opened |-> t.opened, manager |-> N[d]], Others(N, d))
             /\ EntriesOwned(N[d])
  <2> DEFINE u == [shared |-> t.shared, opened |-> t.opened, manager |-> N[d]]
  <2>1. CASE d = c
    BY <1>2, <1>3, <1>5, <2>1
  <2>2. CASE d # c
    <3>1. u \in Loadings /\ u.manager = manager[d] /\ u.shared = t.shared /\ u.opened = t.opened
      BY <1>1, <1>2, <1>3, <2>2 DEF Loadings
    <3>2. Kept(State(d), Others(manager, d)) /\ EntriesOwned(manager[d]) /\ State(d).manager = manager[d]
      BY DEF PluginsKept, State
    <3>3. \A l \in Libraries : Cardinality(InUse(N, l)) = Others(N, d)[l] + Cardinality(OfLib(N[d].owner, l))
      BY <1>6, InUseCounted
    <3>4. N[d] = manager[d]
      BY <1>3, <2>2
    <3> HIDE DEF u
    <3>5. Kept(u, Others(N, d))
      BY <1>7, <3>1, <3>2, <3>3, <3>4 DEF Kept
    <3> QED
      BY <3>2, <3>4, <3>5 DEF u
  <2> QED
    BY <2>1, <2>2
<1>9. \A d \in Contexts : State(d)' = [shared |-> t.shared, opened |-> t.opened, manager |-> N[d]]
  BY <1>4 DEF State
<1>10. PluginsKept'
  BY <1>3, <1>4, <1>8, <1>9 DEF PluginsKept
<1> QED
  BY <1>3, <1>4, <1>10

LEMMA PluginsStay ==
  ASSUME PluginsKept, UNCHANGED <<shared, opened, manager>>
  PROVE  PluginsKept'
BY DEF PluginsKept, State

(* The counts of the libraries are those of all contexts' modules.          *)
LEMMA KeptCounts == PluginsKept => LibrariesCounted
<1> SUFFICES ASSUME PluginsKept, NEW l \in Libraries
             PROVE  /\ shared[l] = Cardinality({m \in Modules : m[2].lib = l})
                    /\ shared[l] > 0 => opened[l] > 0
  BY DEF LibrariesCounted
<1>1. {m \in Modules : m[2].lib = l} = InUse(manager, l)
  <2>1. \A c \in Contexts : \A m : (m \in ModulesOf(c) /\ m[2].lib = l) <=> m \in Uses(manager, c, l)
    BY SessionAssumption DEF ModulesOf, Uses, OfLib
  <2> QED
    BY <2>1 DEF Modules, InUse
<1>2. PICK c \in Contexts : TRUE
  BY SessionAssumption
<1>3. Cardinality(InUse(manager, l)) = Others(manager, c)[l] + Cardinality(OfLib(manager[c].owner, l))
  BY PluginsFinite, InUseCounted
<1>4. /\ shared[l] = Others(manager, c)[l] + Cardinality(OfLib(manager[c].owner, l))
      /\ shared[l] <= opened[l] /\ shared[l] \in Int /\ opened[l] \in Int
  <2>1. Kept(State(c), Others(manager, c))
    BY DEF PluginsKept
  <2>2. State(c).shared = shared /\ State(c).opened = opened /\ State(c).manager = manager[c]
    BY DEF State
  <2>3. State(c) \in Loadings
    BY <2>1 DEF Kept
  <2> QED
    BY <2>1, <2>2, <2>3 DEF Kept, Loadings
<1>5. shared[l] > 0 => opened[l] > 0
  BY <1>4
<1> QED
  BY <1>1, <1>3, <1>4, <1>5

(* A context beside its plugins: what its loaders have offered is there;    *)
(* what it may call is listed; its analyzers are selected as wanted; and    *)
(* who has run has been counted.                                            *)
Fields == DOMAIN Fresh

Offered(x, m) ==
  \A i \in DOMAIN x.proposals :
    /\ Find(m, "Loader", i) # {}
    /\ x.proposals[i] # Undecided => Find(m, "Assembler", x.proposals[i]) # {}

CallsListed(x, m) ==
  /\ x.commands \subseteq m.entries /\ x.assemblers \subseteq m.entries
  /\ IF x.bound = <<>> THEN x.assemblers = {} /\ x.engine = FALSE
     ELSE x.bound[1] \in m.entries /\ x.bound[2] \in m.entries

Selects(x) == x.analyzers \in SUBSET DOMAIN Order /\ Chosen(x.selected, x.wanted, x.analyzers)

Unused(x) == x.ran = {} /\ x.again = {}
RanCounted(x) ==
  /\ DOMAIN x.counts = DOMAIN x.selected /\ x.again \cap Once = {}
  /\ \A i \in DOMAIN x.selected : x.selected[i] \in x.ran => x.counts[i] # 0

PassesCounted(x) ==
  /\ x.engine \in BOOLEAN /\ x.changed \in BOOLEAN
  /\ x.engine = FALSE => x.changed = FALSE /\ Unused(x)
  /\ x.engine = TRUE /\ x.changed = FALSE => RanCounted(x)

Lives(x, m) ==
  /\ DOMAIN x = Fields /\ x.alive = TRUE
  /\ Offered(x, m) /\ CallsListed(x, m) /\ Selects(x) /\ PassesCounted(x)

SessionInv ==
  /\ PluginsKept /\ DOMAIN session = Contexts
  /\ \A c \in Contexts : \/ session[c] = Dead /\ manager[c] = NoPlugins
                         \/ Lives(session[c], manager[c])

LEMMA FieldsAre ==
  Fields = {"alive", "proposals", "bound", "commands", "assemblers", "disabled", "analyzers",
            "selected", "engine", "counts", "wanted", "changed", "ran", "again"}
BY DEF Fields, Fresh

LEMMA SessionStep ==
  ASSUME SessionInv, NEW c \in Contexts, NEW t, NEW x, Kept(t, Others(manager, c)),
         EntriesOwned(t.manager), Set(c, t), session' = [session EXCEPT ![c] = x],
         \/ x = Dead /\ t.manager = NoPlugins
         \/ Lives(x, t.manager)
  PROVE  SessionInv'
<1>1. PluginsKept' /\ manager'[c] = t.manager /\ \A d \in Contexts \ {c} : manager'[d] = manager[d]
  BY PluginsStep DEF SessionInv
<1>2. DOMAIN session' = Contexts /\ session'[c] = x /\ \A d \in Contexts \ {c} : session'[d] = session[d]
  BY DEF SessionInv
<1>3. \A d \in Contexts : \/ session'[d] = Dead /\ manager'[d] = NoPlugins
                          \/ Lives(session'[d], manager'[d])
  <2>1. ASSUME NEW d \in Contexts
        PROVE  \/ session'[d] = Dead /\ manager'[d] = NoPlugins
               \/ Lives(session'[d], manager'[d])
    <3>1. CASE d = c
      BY <1>1, <1>2, <3>1
    <3>2. CASE d # c
      BY <1>1, <1>2, <3>2 DEF SessionInv
    <3> QED
      BY <3>1, <3>2
  <2> QED
    BY <2>1
<1> QED
  BY <1>1, <1>2, <1>3 DEF SessionInv

LEMMA SessionAlone ==
  ASSUME SessionInv, NEW c \in Contexts, NEW x, Alone(c, x), Lives(x, manager[c])
  PROVE  SessionInv'
<1>1. PluginsKept' /\ manager' = manager
  BY PluginsStay DEF SessionInv, Alone
<1>2. DOMAIN session' = Contexts /\ session'[c] = x /\ \A d \in Contexts \ {c} : session'[d] = session[d]
  BY DEF SessionInv, Alone
<1>3. \A d \in Contexts : \/ session'[d] = Dead /\ manager'[d] = NoPlugins
                          \/ Lives(session'[d], manager'[d])
  <2>1. ASSUME NEW d \in Contexts
        PROVE  \/ session'[d] = Dead /\ manager'[d] = NoPlugins
               \/ Lives(session'[d], manager'[d])
    <3>1. CASE d = c
      BY <1>1, <1>2, <3>1
    <3>2. CASE d # c
      BY <1>1, <1>2, <3>2 DEF SessionInv
    <3> QED
      BY <3>1, <3>2
  <2> QED
    BY <2>1
<1> QED
  BY <1>1, <1>2, <1>3 DEF SessionInv

(* The plugins of a context, and the context of one that may be called.     *)
LEMMA ContextIs ==
  ASSUME SessionInv, NEW c \in Contexts
  PROVE  /\ Others(manager, c) \in [Libraries -> Nat] /\ Kept(State(c), Others(manager, c))
         /\ State(c).manager = manager[c] /\ EntriesOwned(manager[c]) /\ manager[c] \in Managers
BY PluginsFinite DEF SessionInv, PluginsKept, State

LEMMA CalledLives ==
  ASSUME SessionInv, NEW c \in Contexts, session[c].alive
  PROVE  Lives(session[c], manager[c])
<1>1. session[c] # Dead
  BY DEF Dead
<1> QED
  BY <1>1 DEF SessionInv

LEMMA EndedIs ==
  ASSUME SessionInv, NEW c \in Contexts, ~session[c].alive
  PROVE  session[c] = Dead /\ manager[c] = NoPlugins
<1>1. ~Lives(session[c], manager[c])
  BY DEF Lives
<1> QED
  BY <1>1 DEF SessionInv

LEMMA FreshLives ==
  ASSUME NEW m
  PROVE  Lives(Fresh, m)
<1>1. /\ Fresh.alive = TRUE /\ Fresh.proposals = None /\ Fresh.bound = <<>> /\ Fresh.commands = {}
      /\ Fresh.assemblers = {} /\ Fresh.analyzers = {} /\ Fresh.selected = <<>>
      /\ Fresh.engine = FALSE /\ Fresh.wanted = {} /\ Fresh.changed = FALSE
      /\ Fresh.ran = {} /\ Fresh.again = {} /\ DOMAIN Fresh = Fields
  BY DEF Fresh, Fields
<1>2. Offered(Fresh, m)
  BY <1>1 DEF Offered, None
<1>3. CallsListed(Fresh, m)
  BY <1>1 DEF CallsListed
<1>4. Selects(Fresh)
  <2>1. {} \in SUBSET DOMAIN Order /\ Chosen(<<>>, {}, {})
    BY NothingChosen
  <2> QED
    BY <1>1, <2>1 DEF Selects
<1>5. PassesCounted(Fresh)
  BY <1>1 DEF PassesCounted, Unused
<1> QED
  BY <1>1, <1>2, <1>3, <1>4, <1>5 DEF Lives

LEMMA CreateKeeps ==
  ASSUME SessionInv, NEW c \in Contexts, Create(c)
  PROVE  SessionInv'
<1> DEFINE others == Others(manager, c)
           base == [shared |-> shared, opened |-> opened, manager |-> NoPlugins]
<1>1. manager[c] = NoPlugins
  BY EndedIs DEF Create
<1>2. others \in [Libraries -> Nat] /\ Kept(base, others)
  <2>1. State(c) = base
    BY <1>1 DEF State
  <2> HIDE DEF base
  <2> QED
    BY <2>1, ContextIs
<1>3. PICK files \in Listings : Set(c, WithBuiltins(LoadAll(files)))
  BY DEF Create
<1> DEFINE s == LoadAll(files)
           t == WithBuiltins(s)
<1>4. Kept(s, others) /\ EntriesOwned(s.manager)
  <2>1. files \in Seq(DOMAIN Library)
    BY SessionAssumption
  <2> HIDE DEF others
  <2> QED
    BY <1>2, <2>1, LoadAllKeeps
<1> HIDE DEF s
<1>5. Kept(t, others) /\ EntriesOwned(t.manager)
  <2> HIDE DEF others
  <2> QED
    BY <1>2, <1>4, WithBuiltinsKeeps
<1>6. Set(c, t) /\ session' = [session EXCEPT ![c] = Fresh]
  BY <1>3 DEF Create, s
<1>7. Lives(Fresh, t.manager)
  BY FreshLives
<1> HIDE DEF t
<1> QED
  BY <1>5, <1>6, <1>7, SessionStep

LEMMA FreeKeeps ==
  ASSUME SessionInv, NEW c \in Contexts, Free(c)
  PROVE  SessionInv'
<1> DEFINE others == Others(manager, c)
           ids == DOMAIN manager[c].owner
           s == ErasedAll(State(c), ids)
           t == [s EXCEPT !.manager = NoPlugins]
<1>1. /\ others \in [Libraries -> Nat] /\ Kept(State(c), others)
      /\ State(c).manager = manager[c] /\ manager[c] \in Managers
  BY ContextIs
<1>2. IsFiniteSet(ids)
  BY <1>1 DEF Kept
<1>3. Kept(s, others) /\ Less(s, State(c), ids)
  <2> HIDE DEF others, ids
  <2> QED
    BY <1>1, <1>2, ErasedAllKeeps
<1>4. DOMAIN s.manager.owner = {}
  <2>1. s.manager.owner = Without(manager[c].owner, ids)
    <3> HIDE DEF s, ids
    <3> QED
      BY <1>1, <1>3, WithoutIs DEF Less
  <2> HIDE DEF s
  <2> QED
    BY <2>1 DEF Without
<1>5. Set(c, t) /\ session' = [session EXCEPT ![c] = Dead]
  BY DEF Free
<1> HIDE DEF s, others, ids
<1>6. Kept(t, others)
  BY <1>1, <1>3, <1>4, NoPluginsKept
<1>7. t.manager = NoPlugins
  BY <1>3 DEF Kept, Loadings
<1>8. EntriesOwned(t.manager)
  BY <1>7 DEF EntriesOwned, NoPlugins
<1> HIDE DEF t
<1> QED
  BY <1>5, <1>6, <1>7, <1>8, SessionStep DEF others

LEMMA FindLoaderEntriesKeeps ==
  ASSUME SessionInv, NEW c \in Contexts, FindLoaderEntries(c)
  PROVE  SessionInv'
<1> DEFINE x == session[c]
           m == manager[c]
<1>1. Lives(x, m)
  BY CalledLives DEF FindLoaderEntries, CallTo
<1>2. PICK verdict \in [IdsOf(Of(m, "Loader")) -> UNION {Verdicts[i] : i \in DOMAIN Verdicts}] :
        Alone(c, [x EXCEPT !.proposals =
          [i \in {j \in DOMAIN verdict : Proposes(m, verdict[j])} |-> verdict[i]]])
  BY DEF FindLoaderEntries
<1> DEFINE proposals == [i \in {j \in DOMAIN verdict : Proposes(m, verdict[j])} |-> verdict[i]]
           y == [x EXCEPT !.proposals = proposals]
<1>3. \A i \in DOMAIN proposals :
        /\ Find(m, "Loader", i) # {}
        /\ proposals[i] # Undecided => Find(m, "Assembler", proposals[i]) # {}
  <2>1. ASSUME NEW i \in DOMAIN proposals
        PROVE  i \in IdsOf(Of(m, "Loader")) /\ Proposes(m, proposals[i])
    OBVIOUS
  <2>2. \A i \in IdsOf(Of(m, "Loader")) : Find(m, "Loader", i) # {}
    BY DEF IdsOf, Find
  <2> HIDE DEF proposals
  <2> QED
    BY <2>1, <2>2 DEF Proposes
<1>4. Alone(c, y)
  BY <1>2
<1> HIDE DEF proposals
<1>5. /\ DOMAIN y = Fields /\ y.proposals = proposals /\ y.alive = x.alive /\ y.bound = x.bound
      /\ y.commands = x.commands /\ y.assemblers = x.assemblers /\ y.analyzers = x.analyzers
      /\ y.selected = x.selected /\ y.wanted = x.wanted /\ y.engine = x.engine
      /\ y.counts = x.counts /\ y.changed = x.changed /\ y.ran = x.ran /\ y.again = x.again
  BY <1>1, FieldsAre DEF Lives
<1> HIDE DEF y
<1>6. Offered(y, m)
  BY <1>3, <1>5 DEF Offered
<1>7. CallsListed(y, m) /\ Selects(y) /\ PassesCounted(y)
  <2>1. CallsListed(y, m)
    BY <1>1, <1>5 DEF Lives, CallsListed
  <2>2. Selects(y)
    BY <1>1, <1>5 DEF Lives, Selects
  <2>3. PassesCounted(y)
    BY <1>1, <1>5 DEF Lives, PassesCounted, Unused, RanCounted
  <2> QED
    BY <2>1, <2>2, <2>3
<1>8. Lives(y, m)
  BY <1>1, <1>5, <1>6, <1>7 DEF Lives
<1> QED
  BY <1>4, <1>8, SessionAlone

LEMMA OrderingIs ==
  ASSUME NEW A, IsFiniteSet(A), NEW order \in SetToSeqs(A)
  PROVE  order \in Seq(A) /\ Range(order) = A
<1> DEFINE D == 1 .. Cardinality(A)
<1>1. order \in [D -> A] /\ \A i, j \in D : i # j => order[i] # order[j]
  BY DEF SetToSeqs
<1>2. Cardinality(A) \in Nat
  BY FS_CardinalityType
<1>3. order \in Injection(D, A)
  <2>1. DOMAIN order = D
    BY <1>1
  <2>2. \A i, j \in DOMAIN order : order[i] = order[j] => i = j
    BY <1>1, <2>1
  <2> QED
    BY <1>1, <2>2 DEF Injection, IsInjective
<1>4. IsFiniteSet(D) /\ Cardinality(D) = Cardinality(A)
  BY <1>2, FS_Interval
<1>5. order \in Surjection(D, A)
  <2> HIDE DEF D
  <2> QED
    BY <1>3, <1>4, FS_Injection
<1>6. Range(order) = A
  <2> HIDE DEF D
  <2>1. \A a \in A : \E i \in D : order[i] = a
    BY <1>5 DEF Surjection
  <2> QED
    BY <1>1, <2>1 DEF Range
<1>7. order \in Seq(A)
  BY <1>1, <1>2
<1> QED
  BY <1>6, <1>7

(* What a loader has proposed stays while nothing but commands goes.        *)
LEMMA OfferedStays ==
  ASSUME NEW x, NEW y, NEW m, NEW n, Offered(x, m), y.proposals = x.proposals,
         \A e \in m.entries : e.category # "Command" => e \in n.entries
  PROVE  Offered(y, n)
<1>1. \A id : /\ Find(m, "Loader", id) # {} => Find(n, "Loader", id) # {}
              /\ Find(m, "Assembler", id) # {} => Find(n, "Assembler", id) # {}
  BY DEF Find, Of
<1> QED
  BY <1>1 DEF Offered

(* A context is bound before it has an assembler or an engine.              *)
LEMMA BindKeeps ==
  ASSUME SessionInv, NEW c \in Contexts, Bind(c)
  PROVE  SessionInv'
<1> DEFINE x == session[c]
           m == manager[c]
           others == Others(manager, c)
<1>1. Lives(x, m) /\ x.bound = <<>>
  BY CalledLives DEF Bind, CallTo
<1>2. PICK loader \in Of(m, "Loader"), assembler \in Of(m, "Assembler"),
           disabled \in SUBSET Of(m, "Command") : BindTo(c, loader, assembler, disabled)
  BY DEF Bind
<1> DEFINE s == Checked(State(c), disabled)
           n == s.manager
           commands == Of(n, "Command")
           y == [x EXCEPT !.bound = <<loader, assembler>>, !.commands = commands]
           candidates == {a.id : a \in Of(n, "Analyzer")} \ y.disabled
<1>3. /\ others \in [Libraries -> Nat] /\ Kept(State(c), others)
      /\ State(c).manager = m /\ EntriesOwned(m) /\ m \in Managers
  BY ContextIs
<1>4. Kept(s, others) /\ EntriesOwned(n) /\ n.entries = m.entries \ disabled
  <2>1. disabled \subseteq m.entries
    BY DEF Of
  <2> HIDE DEF others, m, n, s
  <2>2. Kept(s, others) /\ EntriesOwned(s.manager) /\ s.manager.entries = State(c).manager.entries \ disabled
    BY <1>3, <2>1, CheckedKeeps DEF s
  <2> QED
    BY <1>3, <2>2 DEF n
<1>5. Set(c, s)
  BY <1>2 DEF BindTo
<1>6. \/ session' = [session EXCEPT ![c] = y]
      \/ \E enabled \in SUBSET candidates :
         \E order \in SetToSeqs(enabled \cap Preselected) :
           session' = [session EXCEPT ![c] =
             [y EXCEPT !.analyzers = enabled, !.wanted = enabled \cap Preselected,
                       !.selected = SelectedFrom(order)]]
  BY <1>2 DEF BindTo
<1>7. /\ DOMAIN y = Fields /\ y.alive = TRUE /\ y.proposals = x.proposals
      /\ y.bound = <<loader, assembler>> /\ y.commands = commands
      /\ y.assemblers = x.assemblers /\ y.analyzers = x.analyzers
      /\ y.selected = x.selected /\ y.wanted = x.wanted /\ y.engine = x.engine
      /\ y.counts = x.counts /\ y.changed = x.changed /\ y.ran = x.ran /\ y.again = x.again
  <2> HIDE DEF commands
  <2> QED
    BY <1>1, FieldsAre DEF Lives
<1>8. n.entries \subseteq Listed /\ IsFiniteSet(DOMAIN n.owner)
  <2>1. s \in Loadings /\ IsFiniteSet(DOMAIN n.owner)
    BY <1>4 DEF Kept
  <2> HIDE DEF s
  <2> QED
    BY <2>1 DEF Loadings, Managers
<1>9. candidates \subseteq DOMAIN Order /\ IsFiniteSet(candidates)
  <2>1. candidates \in SUBSET DOMAIN n.owner
    BY <1>4 DEF EntriesOwned, Of
  <2>2. candidates \subseteq DOMAIN Order
    BY <1>8 DEF Listed, HasOrder, Of
  <2> QED
    BY <1>8, <2>1, <2>2, FS_Subset
<1>10. /\ loader \in n.entries /\ assembler \in n.entries /\ commands \subseteq n.entries
       /\ \A e \in m.entries : e.category # "Command" => e \in n.entries
  <2> HIDE DEF n
  <2> QED
    BY <1>4 DEF Of
<1> HIDE DEF n, commands, candidates
<1>11. Offered(y, n)
  <2> HIDE DEF y
  <2> QED
    BY <1>1, <1>7, <1>10, OfferedStays DEF Lives
<1> HIDE DEF y
<1>12. CallsListed(y, n)
  <2>1. x.assemblers = {} /\ x.engine = FALSE
    BY <1>1 DEF Lives, CallsListed
  <2>2. y.bound # <<>> /\ y.bound[1] = loader /\ y.bound[2] = assembler
    BY <1>7
  <2> QED
    BY <1>7, <1>10, <2>1, <2>2 DEF CallsListed
<1>13. y.engine = FALSE /\ y.changed = FALSE /\ Unused(y)
  BY <1>1, <1>7 DEF Lives, CallsListed, PassesCounted, Unused
<1>14. Lives(y, n)
  <2>1. PassesCounted(y)
    BY <1>13 DEF PassesCounted
  <2>2. Selects(y)
    BY <1>1, <1>7 DEF Lives, Selects
  <2> QED
    BY <1>7, <1>11, <1>12, <2>1, <2>2 DEF Lives
<1> HIDE DEF s, others
<1>15. CASE session' = [session EXCEPT ![c] = y]
  BY <1>4, <1>5, <1>14, <1>15, SessionStep DEF others, n
<1>16. ASSUME NEW enabled \in SUBSET candidates,
              NEW order \in SetToSeqs(enabled \cap Preselected),
              session' = [session EXCEPT ![c] =
                [y EXCEPT !.analyzers = enabled, !.wanted = enabled \cap Preselected,
                          !.selected = SelectedFrom(order)]]
       PROVE  SessionInv'
  <2> DEFINE wanted == enabled \cap Preselected
             selected == SelectedFrom(order)
             z == [y EXCEPT !.analyzers = enabled, !.wanted = wanted, !.selected = selected]
  <2>1. Chosen(selected, wanted, enabled) /\ enabled \in SUBSET DOMAIN Order
    <3>1. enabled \in SUBSET DOMAIN Order /\ wanted \in SUBSET enabled
      BY <1>9
    <3>2. IsFiniteSet(wanted)
      BY <1>9, FS_Subset
    <3>3. order \in Seq(wanted) /\ Range(order) = wanted
      <4> HIDE DEF wanted
      <4>1. order \in SetToSeqs(wanted)
        BY DEF wanted
      <4> QED
        BY <3>2, <4>1, OrderingIs
    <3>4. order \in Seq(enabled)
      <4> HIDE DEF wanted
      <4> QED
        BY <3>1, <3>3
    <3> HIDE DEF wanted
    <3> QED
      BY <3>1, <3>3, <3>4, SelectedFromChosen
  <2>2. session' = [session EXCEPT ![c] = z]
    BY <1>16
  <2> HIDE DEF wanted, selected
  <2>3. /\ DOMAIN z = Fields /\ z.alive = TRUE /\ z.proposals = y.proposals /\ z.bound = y.bound
        /\ z.commands = y.commands /\ z.assemblers = y.assemblers /\ z.analyzers = enabled
        /\ z.selected = selected /\ z.wanted = wanted /\ z.engine = y.engine
        /\ z.changed = y.changed /\ z.ran = y.ran /\ z.again = y.again
    BY <1>7, FieldsAre
  <2> HIDE DEF z
  <2>4. Offered(z, n) /\ CallsListed(z, n)
    BY <1>11, <1>12, <2>3 DEF Offered, CallsListed
  <2>5. Selects(z)
    BY <2>1, <2>3 DEF Selects
  <2>6. PassesCounted(z)
    BY <1>13, <2>3 DEF PassesCounted, Unused
  <2>7. Lives(z, n)
    BY <2>3, <2>4, <2>5, <2>6 DEF Lives
  <2> QED
    BY <1>4, <1>5, <2>2, <2>7, SessionStep DEF others, n
<1> QED
  BY <1>6, <1>15, <1>16

LEMMA GetAssemblerKeeps ==
  ASSUME SessionInv, NEW c \in Contexts, NEW id, GetAssembler(c, id)
  PROVE  SessionInv'
<1> DEFINE x == session[c]
           m == manager[c]
           others == Others(manager, c)
           s == WithAssembler(State(c), id)
           n == s.manager
           assemblers == x.assemblers \cup Find(n, "Assembler", id)
           y == [x EXCEPT !.assemblers = assemblers]
<1>1. Lives(x, m) /\ x.bound # <<>>
  BY CalledLives DEF GetAssembler, CallTo
<1>2. /\ others \in [Libraries -> Nat] /\ Kept(State(c), others)
      /\ State(c).manager = m /\ EntriesOwned(m) /\ m \in Managers
  BY ContextIs
<1>3. Kept(s, others) /\ EntriesOwned(n) /\ m.entries \subseteq n.entries
  <2>1. CASE Find(m, "Assembler", id) = {} /\ id \in DOMAIN m.files
    <3>1. m.files[id] \in DOMAIN Library
      BY <1>2, <2>1, MemberKinds
    <3>2. s = LoadFile(State(c), m.files[id])
      BY <1>2, <2>1 DEF WithAssembler
    <3> HIDE DEF s, m, others
    <3> QED
      BY <1>2, <3>1, <3>2, LoadFileKeeps
  <2>2. CASE ~(Find(m, "Assembler", id) = {} /\ id \in DOMAIN m.files)
    <3>1. s = State(c)
      BY <1>2, <2>2 DEF WithAssembler
    <3> HIDE DEF s, m, others
    <3> QED
      BY <1>2, <3>1
  <2> QED
    BY <2>1, <2>2
<1>4. Set(c, s) /\ session' = [session EXCEPT ![c] = y]
  BY DEF GetAssembler
<1>5. assemblers \subseteq n.entries
  <2>1. Find(n, "Assembler", id) \subseteq n.entries
    BY DEF Find, Of
  <2>2. x.assemblers \subseteq m.entries
    BY <1>1 DEF Lives, CallsListed
  <2> QED
    BY <1>3, <2>1, <2>2
<1> HIDE DEF assemblers
<1>6. /\ DOMAIN y = Fields /\ y.proposals = x.proposals /\ y.alive = x.alive /\ y.bound = x.bound
      /\ y.commands = x.commands /\ y.assemblers = assemblers /\ y.analyzers = x.analyzers
      /\ y.selected = x.selected /\ y.wanted = x.wanted /\ y.engine = x.engine
      /\ y.counts = x.counts /\ y.changed = x.changed /\ y.ran = x.ran /\ y.again = x.again
  BY <1>1, FieldsAre DEF Lives
<1> HIDE DEF y, s
<1>7. Offered(y, n)
  BY <1>1, <1>3, <1>6, OfferedStays DEF Lives
<1>8. CallsListed(y, n)
  BY <1>1, <1>3, <1>5, <1>6 DEF Lives, CallsListed
<1>9. Selects(y)
  BY <1>1, <1>6 DEF Lives, Selects
<1>10. PassesCounted(y)
  BY <1>1, <1>6 DEF Lives, PassesCounted, Unused, RanCounted
<1>11. Lives(y, n)
  BY <1>1, <1>6, <1>7, <1>8, <1>9, <1>10 DEF Lives
<1> QED
  BY <1>3, <1>4, <1>11, SessionStep

LEMMA DisableAnalyzerKeeps ==
  ASSUME SessionInv, NEW c \in Contexts, NEW id, DisableAnalyzer(c, id)
  PROVE  SessionInv'
<1> DEFINE x == session[c]
           m == manager[c]
           disabled == x.disabled \cup {id}
           y == [x EXCEPT !.disabled = disabled]
<1>1. Lives(x, m)
  BY CalledLives DEF DisableAnalyzer, CallTo
<1>2. Alone(c, y)
  BY DEF DisableAnalyzer
<1> HIDE DEF disabled
<1>3. /\ DOMAIN y = Fields /\ y.proposals = x.proposals /\ y.alive = x.alive /\ y.bound = x.bound
      /\ y.commands = x.commands /\ y.assemblers = x.assemblers /\ y.analyzers = x.analyzers
      /\ y.selected = x.selected /\ y.wanted = x.wanted /\ y.engine = x.engine
      /\ y.counts = x.counts /\ y.changed = x.changed /\ y.ran = x.ran /\ y.again = x.again
  BY <1>1, FieldsAre DEF Lives
<1> HIDE DEF y
<1>4. Offered(y, m) /\ CallsListed(y, m)
  BY <1>1, <1>3 DEF Lives, Offered, CallsListed
<1>5. Selects(y)
  BY <1>1, <1>3 DEF Lives, Selects
<1>6. PassesCounted(y)
  BY <1>1, <1>3 DEF Lives, PassesCounted, Unused, RanCounted
<1>7. Lives(y, m)
  BY <1>1, <1>3, <1>4, <1>5, <1>6 DEF Lives
<1> QED
  BY <1>2, <1>7, SessionAlone

LEMMA SelectAnalyzerKeeps ==
  ASSUME SessionInv, NEW c \in Contexts, NEW a, NEW select \in BOOLEAN, SelectAnalyzer(c, a, select)
  PROVE  SessionInv'
<1> DEFINE x == session[c]
           m == manager[c]
           selected == IF select THEN Inserted(x.selected, a) ELSE Removed(x.selected, a)
           wanted == IF select THEN x.wanted \cup {a} ELSE x.wanted \ {a}
           changed == x.changed \/ x.engine
           y == [x EXCEPT !.selected = selected, !.wanted = wanted, !.changed = changed]
<1>1. Lives(x, m) /\ a \in x.analyzers
  BY CalledLives DEF SelectAnalyzer, CallTo
<1>2. Alone(c, y)
  BY DEF SelectAnalyzer
<1>3. Chosen(selected, wanted, x.analyzers)
  <2>1. x.analyzers \in SUBSET DOMAIN Order /\ Chosen(x.selected, x.wanted, x.analyzers)
    BY <1>1 DEF Lives, Selects
  <2>2. CASE select
    <3>1. selected = Inserted(x.selected, a) /\ wanted = x.wanted \cup {a}
      BY <2>2
    <3> HIDE DEF selected, wanted
    <3> QED
      BY <1>1, <2>1, <3>1, InsertedChosen
  <2>3. CASE ~select
    <3>1. selected = Removed(x.selected, a) /\ wanted = x.wanted \ {a}
      BY <2>3
    <3> HIDE DEF selected, wanted
    <3> QED
      BY <1>1, <2>1, <3>1, RemovedChosen
  <2> QED
    BY <2>2, <2>3
<1>4. /\ x.engine \in BOOLEAN /\ x.changed \in BOOLEAN
      /\ x.engine = FALSE => x.changed = FALSE /\ Unused(x)
  BY <1>1 DEF Lives, PassesCounted
<1>5. changed \in BOOLEAN /\ (x.engine = TRUE => changed = TRUE)
      /\ (x.engine = FALSE => changed = FALSE)
  BY <1>4
<1> HIDE DEF selected, wanted, changed
<1>6. /\ DOMAIN y = Fields /\ y.proposals = x.proposals /\ y.alive = x.alive /\ y.bound = x.bound
      /\ y.commands = x.commands /\ y.assemblers = x.assemblers /\ y.analyzers = x.analyzers
      /\ y.selected = selected /\ y.wanted = wanted /\ y.engine = x.engine
      /\ y.changed = changed /\ y.ran = x.ran /\ y.again = x.again
  BY <1>1, FieldsAre DEF Lives
<1> HIDE DEF y
<1>7. Offered(y, m) /\ CallsListed(y, m)
  BY <1>1, <1>6 DEF Lives, Offered, CallsListed
<1>8. Selects(y)
  BY <1>1, <1>3, <1>6 DEF Lives, Selects
<1>9. PassesCounted(y)
  BY <1>4, <1>5, <1>6 DEF PassesCounted, Unused
<1>10. Lives(y, m)
  BY <1>1, <1>6, <1>7, <1>8, <1>9 DEF Lives
<1> QED
  BY <1>2, <1>10, SessionAlone

(* Who is to run once and has run has a count wherever the context selects  *)
(* it, so that no pass runs it again.                                       *)
LEMMA RanLives ==
  ASSUME NEW x, NEW m, Lives(x, m), x.bound # <<>>, NEW unknown
  PROVE  Lives(Ran(x, unknown), m)
<1> DEFINE old == Counts(x)
           runs == Runs(x, unknown)
           pass == {x.selected[i] : i \in runs}
           counts == [i \in DOMAIN old |-> IF i \in runs THEN 1 ELSE old[i]]
           again == x.again \cup (x.ran \cap pass)
           ran == x.ran \cup pass
           y == Ran(x, unknown)
<1>1. y = [x EXCEPT !.engine = TRUE, !.counts = counts, !.again = again, !.ran = ran]
  BY DEF Ran
<1> HIDE DEF y, counts, again, ran
<1>2. /\ DOMAIN y = Fields /\ y.proposals = x.proposals /\ y.alive = x.alive /\ y.bound = x.bound
      /\ y.commands = x.commands /\ y.assemblers = x.assemblers /\ y.analyzers = x.analyzers
      /\ y.selected = x.selected /\ y.wanted = x.wanted /\ y.engine = TRUE
      /\ y.counts = counts /\ y.changed = x.changed /\ y.ran = ran /\ y.again = again
  BY <1>1, FieldsAre DEF Lives
<1>3. Offered(y, m) /\ CallsListed(y, m)
  BY <1>2 DEF Lives, Offered, CallsListed
<1>4. Selects(y)
  BY <1>2 DEF Lives, Selects
<1>5. ASSUME x.changed = FALSE
      PROVE  /\ DOMAIN old = DOMAIN x.selected /\ x.again \cap Once = {}
             /\ \A i \in DOMAIN x.selected : x.selected[i] \in x.ran => old[i] # 0
  <2>1. CASE x.engine = TRUE
    <3>1. RanCounted(x)
      BY <1>5, <2>1 DEF Lives, PassesCounted
    <3>2. old = x.counts
      BY <2>1 DEF Counts
    <3> QED
      BY <3>1, <3>2 DEF RanCounted
  <2>2. CASE x.engine = FALSE
    <3>1. x.ran = {} /\ x.again = {}
      BY <2>2 DEF Lives, PassesCounted, Unused
    <3>2. old = [i \in DOMAIN x.selected |-> 0]
      BY <2>2 DEF Counts
    <3> QED
      BY <3>1, <3>2
  <2> QED
    BY <2>1, <2>2 DEF Lives, PassesCounted
<1>6. ASSUME x.changed = FALSE PROVE RanCounted(y)
  <2>1. /\ runs \subseteq DOMAIN x.selected
        /\ \A i \in DOMAIN x.selected : i \in runs <=> (x.selected[i] \in Once => old[i] = 0)
    BY <1>5, <1>6 DEF Runs
  <2>2. DOMAIN counts = DOMAIN x.selected
        /\ \A i \in DOMAIN x.selected : counts[i] = IF i \in runs THEN 1 ELSE old[i]
    BY <1>5, <1>6 DEF counts
  <2> HIDE DEF runs, old
  <2>3. again \cap Once = {}
    <3>1. ASSUME NEW i \in runs, x.selected[i] \in Once PROVE x.selected[i] \notin x.ran
      BY <1>5, <1>6, <2>1, <3>1
    <3> QED
      BY <1>5, <1>6, <3>1 DEF again
  <2>4. ASSUME NEW i \in DOMAIN x.selected, x.selected[i] \in ran PROVE counts[i] # 0
    <3>1. CASE i \in runs
      BY <2>2, <3>1
    <3>2. CASE i \notin runs
      BY <2>1, <2>2, <3>2
    <3> QED
      BY <3>1, <3>2
  <2> QED
    BY <1>2, <2>2, <2>3, <2>4 DEF RanCounted
<1>7. PassesCounted(y)
  BY <1>2, <1>6 DEF PassesCounted, Lives
<1> QED
  BY <1>2, <1>3, <1>4, <1>7 DEF Lives, y

LEMMA DisassembleKeeps ==
  ASSUME SessionInv, NEW c \in Contexts, Disassemble(c)
  PROVE  SessionInv'
<1> DEFINE x == session[c]
           m == manager[c]
<1>1. Lives(x, m) /\ x.bound # <<>>
  BY CalledLives DEF Disassemble, CallTo
<1>2. \/ ~x.engine /\ Alone(c, [x EXCEPT !.engine = TRUE, !.counts = Counts(x)])
      \/ \E unknown \in SUBSET DOMAIN x.selected : Alone(c, Ran(x, unknown))
  BY DEF Disassemble
<1>3. ASSUME ~x.engine, Alone(c, [x EXCEPT !.engine = TRUE, !.counts = Counts(x)])
      PROVE  SessionInv'
  <2> DEFINE counts == Counts(x)
             y == [x EXCEPT !.engine = TRUE, !.counts = counts]
  <2>1. Alone(c, y)
    BY <1>3
  <2>2. DOMAIN counts = DOMAIN x.selected
    BY <1>3 DEF Counts
  <2> HIDE DEF counts
  <2>3. /\ DOMAIN y = Fields /\ y.proposals = x.proposals /\ y.alive = x.alive /\ y.bound = x.bound
        /\ y.commands = x.commands /\ y.assemblers = x.assemblers /\ y.analyzers = x.analyzers
        /\ y.selected = x.selected /\ y.wanted = x.wanted /\ y.engine = TRUE
        /\ y.counts = counts /\ y.changed = x.changed /\ y.ran = x.ran /\ y.again = x.again
    BY <1>1, FieldsAre DEF Lives
  <2> HIDE DEF y
  <2>4. Unused(x) /\ x.changed = FALSE
    BY <1>1, <1>3 DEF Lives, PassesCounted
  <2>5. Offered(y, m) /\ CallsListed(y, m)
    BY <1>1, <2>3 DEF Lives, Offered, CallsListed
  <2>6. Selects(y)
    BY <1>1, <2>3 DEF Lives, Selects
  <2>7. PassesCounted(y)
    BY <2>2, <2>3, <2>4 DEF PassesCounted, Unused, RanCounted
  <2>8. Lives(y, m)
    BY <1>1, <2>3, <2>5, <2>6, <2>7 DEF Lives
  <2> QED
    BY <2>1, <2>8, SessionAlone
<1>4. ASSUME NEW unknown \in SUBSET DOMAIN x.selected, Alone(c, Ran(x, unknown)) PROVE SessionInv'
  <2>1. Lives(Ran(x, unknown), m)
    <3> HIDE DEF x, m
    <3> QED
      BY <1>1, RanLives
  <2> QED
    BY <1>4, <2>1, SessionAlone
<1> QED
  BY <1>2, <1>3, <1>4

LEMMA SessionStarts == SessionInit => SessionInv
<1> SUFFICES ASSUME SessionInit PROVE SessionInv
  OBVIOUS
<1> DEFINE base == [shared |-> shared, opened |-> opened, manager |-> NoPlugins]
<1>1. NoPlugins \in Managers /\ DOMAIN NoPlugins.owner = {} /\ NoPlugins.loads = 0
  <2>1. DOMAIN None = {} /\ None \in [{} -> Module] /\ None \in [{} -> DOMAIN Library]
    BY DEF None
  <2>2. None \in Partial(Ids, Module) /\ None \in Partial(Ids, DOMAIN Library)
    BY <2>1, PartialIs
  <2> QED
    BY <2>1, <2>2 DEF NoPlugins, Managers
<1>2. /\ manager = [c \in Contexts |-> NoPlugins] /\ session = [c \in Contexts |-> Dead]
      /\ shared = [l \in Libraries |-> 0] /\ opened = [l \in Libraries |-> 0]
  BY DEF SessionInit
<1>3. EntriesOwned(NoPlugins)
  BY DEF EntriesOwned, NoPlugins
<1>4. \A l : OfLib(NoPlugins.owner, l) = {}
  BY <1>1 DEF OfLib, Range
<1> HIDE DEF NoPlugins
<1>5. manager \in [Contexts -> Managers] /\ \A c \in Contexts : manager[c] = NoPlugins /\ State(c) = base
  BY <1>1, <1>2 DEF State
<1>6. ASSUME NEW c PROVE \A l \in Libraries : Others(manager, c)[l] = 0
  <2>1. \A d \in Contexts : \A l : Uses(manager, d, l) = {}
    BY <1>4, <1>5 DEF Uses
  <2>2. \A l : Elsewhere(manager, c, l) = {}
    BY <2>1 DEF Elsewhere
  <2> QED
    BY <2>2, FS_EmptySet DEF Others
<1>7. ASSUME NEW c \in Contexts PROVE Kept(base, Others(manager, c))
  <2>1. base \in Loadings /\ base.manager = NoPlugins /\ base.shared = shared /\ base.opened = opened
    BY <1>1, <1>2 DEF Loadings
  <2> HIDE DEF base
  <2>2. IsFiniteSet(DOMAIN NoPlugins.owner) /\ Cardinality({}) = 0
    BY <1>1, FS_EmptySet
  <2>3. \A l \in Libraries :
          /\ base.shared[l] = Others(manager, c)[l] + Cardinality(OfLib(base.manager.owner, l))
          /\ base.shared[l] <= base.opened[l]
    BY <1>2, <1>4, <1>6, <2>1, <2>2
  <2> QED
    BY <1>1, <2>1, <2>2, <2>3 DEF Kept
<1>8. PluginsKept
  BY <1>3, <1>5, <1>7 DEF PluginsKept
<1> QED
  BY <1>2, <1>5, <1>8 DEF SessionInv

LEMMA SessionNexts == SessionInv /\ [SessionNext]_sessionVars => SessionInv'
<1> SUFFICES ASSUME SessionInv, [SessionNext]_sessionVars PROVE SessionInv'
  OBVIOUS
<1>1. ASSUME NEW c \in Contexts, Create(c) PROVE SessionInv'
  BY <1>1, CreateKeeps
<1>2. ASSUME NEW c \in Contexts, Free(c) PROVE SessionInv'
  BY <1>2, FreeKeeps
<1>3. ASSUME NEW c \in Contexts, FindLoaderEntries(c) PROVE SessionInv'
  BY <1>3, FindLoaderEntriesKeeps
<1>4. ASSUME NEW c \in Contexts, Bind(c) PROVE SessionInv'
  BY <1>4, BindKeeps
<1>5. ASSUME NEW c \in Contexts, Disassemble(c) PROVE SessionInv'
  BY <1>5, DisassembleKeeps
<1>6. ASSUME NEW c \in Contexts, NEW id \in Asked, GetAssembler(c, id) PROVE SessionInv'
  BY <1>6, GetAssemblerKeeps
<1>7. ASSUME NEW c \in Contexts, NEW a \in DOMAIN Order, DisableAnalyzer(c, a) PROVE SessionInv'
  BY <1>7, DisableAnalyzerKeeps
<1>8. ASSUME NEW c \in Contexts, NEW a \in DOMAIN Order, NEW select \in BOOLEAN,
             SelectAnalyzer(c, a, select)
      PROVE  SessionInv'
  BY <1>8, SelectAnalyzerKeeps
<1>9. ASSUME UNCHANGED sessionVars PROVE SessionInv'
  <2>1. UNCHANGED <<shared, opened, manager>> /\ session' = session
    BY <1>9 DEF sessionVars
  <2>2. PluginsKept'
    BY <2>1, PluginsStay DEF SessionInv
  <2> QED
    BY <2>1, <2>2 DEF SessionInv
<1> QED
  BY <1>1, <1>2, <1>3, <1>4, <1>5, <1>6, <1>7, <1>8, <1>9 DEF SessionNext

(* A library is counted for each load that some context still has, and      *)
(* mapped while it is: whatever the plugin paths list, however contexts,    *)
(* disabled commands and assemblers loaded late come and go.                *)
THEOREM LoadsCounted == SessionSpec => []LibrariesCounted
<1>1. SessionInv => LibrariesCounted
  BY KeptCounts DEF SessionInv
<1> QED
  BY <1>1, SessionStarts, SessionNexts, PTL DEF SessionSpec

(* What a context may call leads to a module that it has not ended.         *)
THEOREM CallsReachModules == SessionSpec => []EntriesCallable
<1>1. SessionInv => EntriesCallable
  <2> SUFFICES ASSUME SessionInv, NEW c \in Contexts, session[c].alive
               PROVE  /\ \A e \in Callable(c) :
                           e.id \in DOMAIN manager[c].owner /\ manager[c].owner[e.id].lib = e.lib
                      /\ Cardinality(IdsOf(Callable(c))) = Cardinality(Callable(c))
    BY DEF EntriesCallable
  <2> DEFINE C == Callable(c)
             f == [e \in C |-> e.id]
  <2>1. /\ EntriesOwned(manager[c]) /\ Lives(session[c], manager[c])
        /\ IsFiniteSet(DOMAIN manager[c].owner)
    BY ContextIs, CalledLives DEF Kept
  <2>2. C \subseteq manager[c].entries
    BY <2>1 DEF Callable, Lives, CallsListed
  <2>3. /\ \A e \in C : e.id \in DOMAIN manager[c].owner /\ manager[c].owner[e.id].lib = e.lib
        /\ \A d, e \in C : d.id = e.id => d = e
    BY <2>1, <2>2 DEF EntriesOwned
  <2> HIDE DEF C
  <2>4. IdsOf(C) \in SUBSET DOMAIN manager[c].owner
    BY <2>3 DEF IdsOf
  <2>5. IsFiniteSet(IdsOf(C))
    BY <2>1, <2>4, FS_Subset
  <2>6. f \in Injection(C, IdsOf(C)) /\ f \in Surjection(C, IdsOf(C))
    BY <2>3 DEF Injection, IsInjective, Surjection, IdsOf
  <2>7. Cardinality(C) = Cardinality(IdsOf(C))
    <3> HIDE DEF f
    <3> QED
      BY <2>5, <2>6, FS_Injection
  <2> QED
    BY <2>3, <2>7 DEF C
<1> QED
  BY <1>1, SessionStarts, SessionNexts, PTL DEF SessionSpec

(* A loader on offer can be bound with the assembler that it proposed.      *)
THEOREM OffersStand == SessionSpec => []OffersBind
<1>1. SessionInv => OffersBind
  BY CalledLives DEF OffersBind, Lives, Offered
<1> QED
  BY <1>1, SessionStarts, SessionNexts, PTL DEF SessionSpec

(* Analyzers run in order, those wanted last; who is to run once runs once  *)
(* at most.                                                                 *)
THEOREM SelectionKept == SessionSpec => []AnalyzersAsWanted
<1>1. SessionInv => AnalyzersAsWanted
  <2> SUFFICES ASSUME SessionInv, NEW c \in Contexts, session[c].alive
               PROVE  LET x == session[c]
                      IN  /\ \A i, j \in DOMAIN x.selected : i < j => Order[x.selected[i]] <= Order[x.selected[j]]
                          /\ \A a \in x.analyzers :
                               (\A b \in x.analyzers \ {a} : Order[b] # Order[a]) =>
                                 (a \in Range(x.selected) <=> a \in x.wanted)
                          /\ ~x.changed => x.again \cap Once = {}
    BY DEF AnalyzersAsWanted
  <2> DEFINE x == session[c]
  <2>1. Lives(x, manager[c])
    BY CalledLives
  <2>2. Chosen(x.selected, x.wanted, x.analyzers)
    BY <2>1 DEF Lives, Selects
  <2>3. ~x.changed => x.again \cap Once = {}
    BY <2>1 DEF Lives, PassesCounted, Unused, RanCounted
  <2> QED
    BY <2>2, <2>3 DEF Chosen, Sorted, OwnOrder
<1> QED
  BY <1>1, SessionStarts, SessionNexts, PTL DEF SessionSpec
=============================================================================
