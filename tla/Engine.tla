------------------------------- MODULE Engine -------------------------------
(***************************************************************************)
(* The analysis engine (rdcore/engine/engine.cpp): the threads inside      *)
(* RDContext_Disassemble, each running the loop of execute() over the one  *)
(* step they share, and the threads that meanwhile ask the Algorithm and   *)
(* the Document directly.  Algorithm and Document each have a recursive    *)
(* lock that is held for one call (safe_ptr), so for a whole drain of the  *)
(* queue and for the whole of createFunction, with all it calls.  Who      *)
(* holds a lock follows from where the threads are.                        *)
(*                                                                         *)
(* What an address decodes to is left open: decoding one, or running an    *)
(* analyzer, may enqueue any addresses and set any functions.              *)
(*                                                                         *)
(* TakeTurnNotBusy, AlgorithmEndNoCfg, CfgStepKeepsWeak, PassEndForgets    *)
(* and PassEndNoCfg are faulty variants of the operator that follows each  *)
(* of them; nothing uses them here.                                        *)
(***************************************************************************)
EXTENDS Naturals, FiniteSets

CONSTANTS
  Threads,
  Callers,     (* the threads that call disassemble()                      *)
  Requests,    (* what threads ask directly, of RequestKinds               *)
  MaxRequests, (* bound on these requests (but for enqueue, setFunction),  *)
               (* and on calls of disassemble() after the first            *)
  Addr,        (* the addresses of the code segments                       *)
  EntryPoints, (* the functions the loader sets                            *)
  Count,       (* number of selected analyzers                             *)
  RunOnce,     (* those with AnalyzerFlags_RunOnce                         *)
  MaxDecodes   (* bound: how often the Algorithm accepts one address; it   *)
               (* accepts a decoded one again while its label is weak      *)

RequestKinds == {"enqueue", "function", "decode", "block", "location", "create"}

ASSUME ThreadsAssumption == Callers \subseteq Threads /\ Requests \subseteq RequestKinds

ASSUME AddrAssumption == IsFiniteSet(Addr) /\ EntryPoints \subseteq Addr

ASSUME AnalyzersAssumption == Count \in Nat /\ RunOnce \subseteq 1 .. Count

ASSUME BoundsAssumption == MaxDecodes \in Nat \ {0} /\ MaxRequests \in Nat

VARIABLES
  (* of the engine *)
  step,      (* m_status.stepscurrent; "None" before there is an engine    *)
  busy,      (* m_status.busy                                              *)
  weak,      (* m_isweak                                                   *)
  done,      (* m_analyzersdone, counted up to 2                           *)
  merged,    (* m_merged                                                   *)
  (* of the algorithm and the document *)
  pending,   (* Algorithm::m_pending                                       *)
  decoded,   (* how often each address was decoded                         *)
  functions, (* the functions of the Document                              *)
  graphs,    (* functions whose graph shows the code as it is now          *)
  (* of each thread *)
  pc,        (* where it is; "out" of every call                           *)
  back,      (* where the drain or the cfgStep it is in goes on            *)
  given,     (* addresses it still has to sweep, or to queue               *)
  saved,     (* the flag that its WeakScope restores                       *)
  current,   (* index of the next analyzer of its pass                     *)
  oldfc,     (* its count of functions in analyzeStep                      *)
  todo,      (* functions its cfgStep still has to build                   *)
  (* history *)
  asked,     (* how many calls there were, of those MaxRequests bounds     *)
  touched,   (* threads inside execute() under whose hands another changed *)
             (* step, functions, code or graphs since their last cfgStep   *)
  met,       (* when the last thread entered execute(), one was inside     *)
  mode,      (* which way the engine last set the weak flag, or "crossed"  *)
             (* when another thread had a WeakScope open then              *)
  ignored    (* a disassemble() call met a busy engine, and what was       *)
             (* pending then is not decoded yet                            *)

flag == <<weak, mode>>
engine == <<step, busy, flag, done, merged>>
program == <<pending, decoded, functions, graphs>>
tally == <<current, oldfc>>
local == <<back, given, saved, tally, todo>>
vars == <<engine, program, pc, local, asked, touched, met, ignored>>

Steps == {"Stop", "Algorithm", "CFG", "Analyze", "Done"}

NextStep(s) ==
  CASE s = "Stop" -> "Algorithm"
    [] s = "Algorithm" -> "CFG"
    [] s = "CFG" -> "Analyze"
    [] s \in {"Analyze", "Done"} -> "Done"

(* Algorithm::isAddressValid, asked when an address is queued and decoded.  *)
Valid(X) == {a \in X : decoded[a] < MaxDecodes}

(* Draining the queue: waiting for the Algorithm, with it, in a WeakScope.  *)
InDrain(t) == pc[t] \in {"lock", "drain", "scope"}

(* t is in execute(): not out, and not in a request of its own.             *)
Inside(t) ==
  /\ pc[t] \notin {"out", "enqueue", "graph"}
  /\ InDrain(t) => back[t] \notin {"out", "graph"}

HoldsAlgorithm(t) == pc[t] \in {"drain", "scope"}

HoldsDocument(t) == pc[t] \in {"enqueue", "graph"} \/ (InDrain(t) /\ back[t] = "graph")

AlgorithmFree(t) == \A u \in Threads \ {t} : ~HoldsAlgorithm(u)

DocumentFree(t) == \A u \in Threads \ {t} : ~HoldsDocument(u)

Goto(t, p) == pc' = [pc EXCEPT ![t] = p]

(* What t changes is news to the others inside execute().                   *)
Disturb(t) == touched' = touched \cup {u \in Threads \ {t} : Inside(u)}

Waiting == ignored' = (ignored /\ pending' # {})

(* Engine::setWeak, called without a lock.                                  *)
SetWeak(t, b) ==
  /\ weak' = b
  /\ mode' = IF \E u \in Threads \ {t} : pc[u] = "scope" THEN "crossed"
             ELSE IF b THEN "guess" ELSE "fact"

Init ==
  /\ step = "None" /\ busy = FALSE /\ weak = FALSE
  /\ done = [i \in 1 .. Count |-> 0] /\ merged = {}
  /\ pending = {} /\ decoded = [a \in Addr |-> 0]
  /\ functions = EntryPoints /\ graphs = {}
  /\ pc = [t \in Threads |-> "out"] /\ back = [t \in Threads |-> "out"]
  /\ given = [t \in Threads |-> {}] /\ saved = [t \in Threads |-> FALSE]
  /\ current = [t \in Threads |-> 1] /\ oldfc = [t \in Threads |-> 0]
  /\ todo = [t \in Threads |-> {}]
  /\ asked = 0 /\ touched = {} /\ met = FALSE /\ mode = "fact" /\ ignored = FALSE
-----------------------------------------------------------------------------
Enter(t) ==
  /\ Goto(t, "loop")
  /\ met' = (\E u \in Threads \ {t} : Inside(u))

(* Disassembler::disassemble without an engine: exports, then the known     *)
(* functions, are enqueued and execute() begins.                            *)
Start(t) ==
  /\ t \in Callers /\ pc[t] = "out" /\ step = "None"
  /\ AlgorithmFree(t) /\ DocumentFree(t)
  /\ \E exports \in SUBSET Addr :
        pending' = pending \cup Valid(functions \cup exports)
  /\ Enter(t) /\ step' = "Stop"
  /\ UNCHANGED <<busy, flag, done, merged, decoded, functions, graphs, local,
                 asked, touched, ignored>>

(* Disassembler::ignite, then execute(State_Algorithm), which returns if    *)
(* that is the step already.                                                *)
Ignite(t) ==
  /\ t \in Callers /\ pc[t] = "out" /\ step # "None" /\ ~busy
  /\ step # "Algorithm"
  /\ asked < MaxRequests /\ asked' = asked + 1
  /\ Enter(t) /\ step' = "Algorithm"
  /\ Disturb(t)
  /\ UNCHANGED <<busy, flag, done, merged, program, local, ignored>>

(* disassemble() while the engine is busy returns at once.                  *)
Ask(t) ==
  /\ t \in Callers /\ pc[t] = "out" /\ busy /\ pending # {}
  /\ ignored' = TRUE
  /\ UNCHANGED <<engine, program, pc, local, asked, touched, met>>
-----------------------------------------------------------------------------
(* execute: the loop over the steps.                                        *)
StopStep(t) ==
  /\ pc[t] = "loop" /\ step = "Stop"
  /\ step' = NextStep(step)
  /\ Disturb(t)
  /\ UNCHANGED <<busy, flag, done, merged, program, pc, local, asked, met, ignored>>

(* algorithmStep; without pending addresses it returns and the loop calls   *)
(* it again.                                                                *)
AlgorithmStep(t) ==
  /\ pc[t] = "loop" /\ step = "Algorithm"
  /\ AlgorithmFree(t) /\ pending # {}
  /\ Goto(t, "turn")
  /\ UNCHANGED <<engine, program, local, asked, touched, met, ignored>>

TakeTurnNotBusy(t) ==
  /\ pc[t] = "turn"
  /\ SetWeak(t, TRUE)
  /\ Goto(t, "lock") /\ back' = [back EXCEPT ![t] = "merge"]
  /\ UNCHANGED <<step, busy, done, merged, program, given, saved, tally, todo,
                 asked, touched, met, ignored>>

TakeTurn(t) ==
  /\ pc[t] = "turn"
  /\ SetWeak(t, TRUE) /\ busy' = TRUE
  /\ Goto(t, "lock") /\ back' = [back EXCEPT ![t] = "merge"]
  /\ UNCHANGED <<step, done, merged, program, given, saved, tally, todo,
                 asked, touched, met, ignored>>

(* Algorithm::disassemble and disassembleBlock hold the lock to their end.  *)
Lock(t) ==
  /\ pc[t] = "lock" /\ AlgorithmFree(t)
  /\ Goto(t, "drain")
  /\ UNCHANGED <<engine, program, local, asked, touched, met, ignored>>

(* The next address of the sweep, then of the queue; what is decoded is     *)
(* decoded in a WeakScope.                                                  *)
Decode(t) ==
  /\ pc[t] = "drain" /\ DocumentFree(t)
  /\ \E a \in IF given[t] # {} THEN given[t] ELSE pending :
       LET rest == IF given[t] # {} THEN pending ELSE pending \ {a} IN
       /\ given' = [given EXCEPT ![t] = @ \ {a}]
       /\ IF a \in Valid({a})
          THEN /\ decoded' = [decoded EXCEPT ![a] = @ + 1]
               /\ \E targets, found \in SUBSET Addr :
                     /\ pending' = rest \cup Valid(targets)'
                     /\ functions' = functions \cup found
               /\ graphs' = {}
               /\ saved' = [saved EXCEPT ![t] = weak]
               /\ weak' = (step # "None")
               /\ Goto(t, "scope") /\ Disturb(t)
          ELSE /\ pending' = rest
               /\ UNCHANGED <<decoded, functions, graphs, saved, weak, pc, touched>>
  /\ Waiting
  /\ UNCHANGED <<step, busy, mode, done, merged, back, tally, todo, asked, met>>

(* ~WeakScope.                                                              *)
ScopeEnd(t) ==
  /\ pc[t] = "scope"
  /\ weak' = saved[t] /\ saved' = [saved EXCEPT ![t] = FALSE]
  /\ Goto(t, "drain")
  /\ UNCHANGED <<step, busy, mode, done, merged, program, back, given, tally, todo,
                 asked, touched, met, ignored>>

DrainEnd(t) ==
  /\ pc[t] = "drain" /\ given[t] = {} /\ pending = {}
  /\ Goto(t, back[t]) /\ back' = [back EXCEPT ![t] = "out"]
  /\ UNCHANGED <<engine, program, given, saved, tally, todo, asked, touched, met, ignored>>

(* mergeCode: Unknown blocks between code are queued, each address once.    *)
(* algorithmStep calls it, and analyzeStep after its first pass.            *)
MergeCode(t) ==
  /\ pc[t] \in {"merge", "remerge"} /\ AlgorithmFree(t) /\ DocumentFree(t)
  /\ \E gaps \in SUBSET (Addr \ merged) :
       /\ merged' = merged \cup gaps
       /\ pending' = pending \cup Valid(gaps)
  /\ Goto(t, IF pc[t] = "merge" THEN "merged" ELSE "remerged")
  /\ UNCHANGED <<step, busy, flag, done, decoded, functions, graphs, local,
                 asked, touched, met, ignored>>

(* The end of algorithmStep.                                                *)
AlgorithmEndNoCfg(t) ==
  /\ pc[t] = "merged" /\ AlgorithmFree(t)
  /\ step' = IF pending # {} THEN "Algorithm" ELSE "Analyze"
  /\ Goto(t, "loop") /\ Disturb(t)
  /\ UNCHANGED <<busy, flag, done, merged, program, local, asked, met, ignored>>

AlgorithmEnd(t) ==
  /\ pc[t] = "merged" /\ AlgorithmFree(t)
  /\ step' = IF pending # {} THEN "Algorithm" ELSE NextStep(step)
  /\ Goto(t, "loop") /\ Disturb(t)
  /\ UNCHANGED <<busy, flag, done, merged, program, local, asked, met, ignored>>
-----------------------------------------------------------------------------
(* cfgStep, called by the loop and at the end of analyzeStep, which         *)
(* advances the step once more.                                             *)
CfgStepKeepsWeak(t) ==
  /\ (pc[t] = "loop" /\ step = "CFG") \/ pc[t] = "cfg"
  /\ Goto(t, "bounds")
  /\ back' = [back EXCEPT ![t] = IF pc[t] = "cfg" THEN "advance" ELSE "loop"]
  /\ UNCHANGED <<engine, program, given, saved, tally, todo, asked, touched, met, ignored>>

CfgStep(t) ==
  /\ (pc[t] = "loop" /\ step = "CFG") \/ pc[t] = "cfg"
  /\ SetWeak(t, FALSE)
  /\ Goto(t, "bounds")
  /\ back' = [back EXCEPT ![t] = IF pc[t] = "cfg" THEN "advance" ELSE "loop"]
  /\ UNCHANGED <<step, busy, done, merged, program, given, saved, tally, todo,
                 asked, touched, met, ignored>>

(* The graphs are dropped, and those of the functions known now are built   *)
(* one by one.                                                              *)
DropGraphs(t) ==
  /\ pc[t] = "bounds" /\ DocumentFree(t)
  /\ graphs' = {} /\ todo' = [todo EXCEPT ![t] = functions]
  /\ touched' = (touched \cup {u \in Threads : Inside(u)}) \ {t}
  /\ Goto(t, "build")
  /\ UNCHANGED <<engine, pending, decoded, functions, back, given, saved, tally,
                 asked, met, ignored>>

GenerateCfg(t) ==
  /\ pc[t] = "build" /\ DocumentFree(t)
  /\ \E f \in todo[t] : /\ graphs' = graphs \cup {f}
                        /\ todo' = [todo EXCEPT ![t] = @ \ {f}]
  /\ UNCHANGED <<engine, pending, decoded, functions, pc, back, given, saved, tally,
                 asked, touched, met, ignored>>

CfgEnd(t) ==
  /\ pc[t] = "build" /\ todo[t] = {}
  /\ step' = NextStep(step)
  /\ Goto(t, back[t]) /\ back' = [back EXCEPT ![t] = "out"]
  /\ Disturb(t)
  /\ UNCHANGED <<busy, flag, done, merged, program, given, saved, tally, todo,
                 asked, met, ignored>>

(* The end of analyzeStep, after its cfgStep.                               *)
Advance(t) ==
  /\ pc[t] = "advance"
  /\ step' = NextStep(step)
  /\ Goto(t, "loop") /\ Disturb(t)
  /\ UNCHANGED <<busy, flag, done, merged, program, local, asked, met, ignored>>
-----------------------------------------------------------------------------
AnalyzeStep(t) ==
  /\ pc[t] = "loop" /\ step = "Analyze"
  /\ SetWeak(t, FALSE)
  /\ Goto(t, "count")
  /\ UNCHANGED <<step, busy, done, merged, program, local, asked, touched, met, ignored>>

CountFunctions(t) ==
  /\ pc[t] = "count" /\ DocumentFree(t)
  /\ oldfc' = [oldfc EXCEPT ![t] = Cardinality(functions)]
  /\ Goto(t, "analyze")
  /\ UNCHANGED <<engine, program, back, given, saved, current, todo,
                 asked, touched, met, ignored>>

Skipped(i) == i \in RunOnce /\ done[i] > 0

SkipAnalyzer(t) ==
  /\ pc[t] \in {"analyze", "again"} /\ current[t] \in 1 .. Count
  /\ Skipped(current[t])
  /\ current' = [current EXCEPT ![t] = @ + 1]
  /\ UNCHANGED <<engine, program, pc, back, given, saved, oldfc, todo,
                 asked, touched, met, ignored>>

(* analyzeAll: an analyzer may set functions, and enqueue addresses or      *)
(* disassemble a block, which also drains the queue.                        *)
Analyzer(t) ==
  /\ pc[t] \in {"analyze", "again"} /\ current[t] \in 1 .. Count
  /\ ~Skipped(current[t])
  /\ AlgorithmFree(t) /\ DocumentFree(t)
  /\ current' = [current EXCEPT ![t] = @ + 1]
  /\ done' = [done EXCEPT ![current[t]] = IF @ < 2 THEN @ + 1 ELSE @]
  /\ \E found \in SUBSET Addr : functions' = functions \cup found
  /\ \/ /\ \E more \in SUBSET Addr : pending' = pending \cup Valid(more)
        /\ UNCHANGED <<pc, back, given>>
     \/ /\ \E block \in SUBSET Addr : given' = [given EXCEPT ![t] = block]
        /\ Goto(t, "lock") /\ back' = [back EXCEPT ![t] = pc[t]]
        /\ UNCHANGED pending
  /\ Disturb(t)
  /\ UNCHANGED <<step, busy, flag, merged, decoded, graphs, saved, oldfc, todo,
                 asked, met, ignored>>

FirstPassEnd(t) ==
  /\ pc[t] = "analyze" /\ current[t] > Count
  /\ Goto(t, "remerge") /\ current' = [current EXCEPT ![t] = 1]
  /\ UNCHANGED <<engine, program, back, given, saved, oldfc, todo,
                 asked, touched, met, ignored>>

(* analyzeStep after the first pass: back to the Algorithm when addresses   *)
(* are pending, else new passes until the count of functions is stable.     *)
AnalyzeRepeat(t) ==
  /\ pc[t] = "remerged" /\ AlgorithmFree(t) /\ pending # {}
  /\ step' = "Algorithm" /\ Goto(t, "loop") /\ oldfc' = [oldfc EXCEPT ![t] = 0]
  /\ Disturb(t)
  /\ UNCHANGED <<busy, flag, done, merged, program, back, given, saved, current, todo,
                 asked, met, ignored>>

PassEndNoCfg(t) ==
  /\ \/ (pc[t] = "remerged" /\ AlgorithmFree(t) /\ pending = {})
     \/ (pc[t] = "again" /\ current[t] > Count)
  /\ DocumentFree(t)
  /\ current' = [current EXCEPT ![t] = 1]
  /\ IF oldfc[t] # Cardinality(functions)
     THEN oldfc' = [oldfc EXCEPT ![t] = Cardinality(functions)] /\ Goto(t, "again")
     ELSE oldfc' = [oldfc EXCEPT ![t] = 0] /\ Goto(t, "advance")
  /\ UNCHANGED <<engine, program, back, given, saved, todo, asked, touched, met, ignored>>

PassEndForgets(t) ==
  /\ \/ (pc[t] = "remerged" /\ AlgorithmFree(t) /\ pending = {})
     \/ (pc[t] = "again" /\ current[t] > Count)
  /\ DocumentFree(t)
  /\ current' = [current EXCEPT ![t] = 1]
  /\ IF oldfc[t] # Cardinality(functions)
     THEN UNCHANGED oldfc /\ Goto(t, "again")
     ELSE oldfc' = [oldfc EXCEPT ![t] = 0] /\ Goto(t, "cfg")
  /\ UNCHANGED <<engine, program, back, given, saved, todo, asked, touched, met, ignored>>

PassEnd(t) ==
  /\ \/ (pc[t] = "remerged" /\ AlgorithmFree(t) /\ pending = {})
     \/ (pc[t] = "again" /\ current[t] > Count)
  /\ DocumentFree(t)
  /\ current' = [current EXCEPT ![t] = 1]
  /\ IF oldfc[t] # Cardinality(functions)
     THEN oldfc' = [oldfc EXCEPT ![t] = Cardinality(functions)] /\ Goto(t, "again")
     ELSE oldfc' = [oldfc EXCEPT ![t] = 0] /\ Goto(t, "cfg")
  /\ UNCHANGED <<engine, program, back, given, saved, todo, asked, touched, met, ignored>>
-----------------------------------------------------------------------------
(* execute after the loop: again with the Algorithm when addresses are      *)
(* pending, unless that is the step already, else the engine is not busy    *)
(* any more.                                                                *)
LoopEnd(t) ==
  /\ pc[t] = "loop" /\ step = "Done"
  /\ Goto(t, "ending")
  /\ UNCHANGED <<engine, program, local, asked, touched, met, ignored>>

Leave(t) == Goto(t, "out") /\ touched' = touched \ {t}

ExecuteEnd(t) ==
  /\ pc[t] = "ending" /\ AlgorithmFree(t)
  /\ \/ pending = {} /\ Goto(t, "finish") /\ UNCHANGED <<step, touched>>
     \/ /\ pending # {} /\ step # "Algorithm"
        /\ step' = "Algorithm" /\ Goto(t, "loop") /\ Disturb(t)
     \/ pending # {} /\ step = "Algorithm" /\ Leave(t) /\ UNCHANGED step
  /\ UNCHANGED <<busy, flag, done, merged, program, local, asked, met, ignored>>

Finish(t) ==
  /\ pc[t] = "finish"
  /\ busy' = FALSE /\ Leave(t)
  /\ UNCHANGED <<step, flag, done, merged, program, local, asked, met, ignored>>
-----------------------------------------------------------------------------
(* RDContext_Enqueue.                                                       *)
Enqueue(t, a) ==
  /\ "enqueue" \in Requests /\ pc[t] = "out"
  /\ AlgorithmFree(t) /\ DocumentFree(t) /\ a \in Valid(Addr)
  /\ pending' = pending \cup {a}
  /\ UNCHANGED <<engine, decoded, functions, graphs, pc, local, asked, touched, met, ignored>>

(* cfgStep walks the Document's own array of functions: an insertion moves  *)
(* or frees it under the walk, which then may miss functions.               *)
InsertFunction(t, a) ==
  /\ functions' = functions \cup {a}
  /\ IF a \in functions THEN UNCHANGED todo
     ELSE \E seen \in SUBSET functions' :
            todo' = [u \in Threads |-> IF pc[u] = "build" THEN seen ELSE todo[u]]
  /\ Disturb(t)

(* RDDocument_SetFunction.                                                  *)
SetFunction(t, a) ==
  /\ "function" \in Requests /\ pc[t] = "out"
  /\ DocumentFree(t) /\ a \notin functions
  /\ InsertFunction(t, a)
  /\ UNCHANGED <<engine, pending, decoded, graphs, pc, back, given, saved, tally,
                 asked, met, ignored>>

Request(t, kind) ==
  /\ kind \in Requests /\ pc[t] = "out"
  /\ asked < MaxRequests /\ asked' = asked + 1

(* RDContext_DisassembleAt: enqueue, then a second call for the drain.      *)
DisassembleAt(t, a) ==
  /\ Request(t, "decode") /\ AlgorithmFree(t) /\ DocumentFree(t)
  /\ pending' = pending \cup Valid({a})
  /\ Goto(t, "lock")
  /\ UNCHANGED <<engine, decoded, functions, graphs, local, touched, met, ignored>>

(* RDContext_DisassembleBlock.                                              *)
DisassembleBlock(t) ==
  /\ Request(t, "block")
  /\ \E block \in SUBSET Addr : given' = [given EXCEPT ![t] = block]
  /\ Goto(t, "lock")
  /\ UNCHANGED <<engine, program, back, saved, tally, todo, touched, met, ignored>>

(* A setter of the Document that ends in checkLocation, which enqueues with *)
(* the Document locked.                                                     *)
CheckLocation(t, a) ==
  /\ Request(t, "location") /\ DocumentFree(t)
  /\ given' = [given EXCEPT ![t] = {a}]
  /\ Goto(t, "enqueue")
  /\ UNCHANGED <<engine, program, back, saved, tally, todo, touched, met, ignored>>

(* RDDocument_CreateFunction: setFunction, disassembleFunction, all of it   *)
(* with the Document locked.                                                *)
CreateFunction(t, a) ==
  /\ Request(t, "create") /\ step # "None" /\ DocumentFree(t)
  /\ InsertFunction(t, a)
  /\ given' = [given EXCEPT ![t] = {a}] /\ back' = [back EXCEPT ![t] = "graph"]
  /\ Goto(t, "enqueue")
  /\ UNCHANGED <<engine, pending, decoded, graphs, saved, tally, met, ignored>>

EnqueueLocked(t) ==
  /\ pc[t] = "enqueue" /\ AlgorithmFree(t)
  /\ pending' = pending \cup Valid(given[t])
  /\ given' = [given EXCEPT ![t] = {}]
  /\ Goto(t, IF back[t] = "graph" THEN "lock" ELSE "out")
  /\ UNCHANGED <<engine, decoded, functions, graphs, back, saved, tally, todo,
                 asked, touched, met, ignored>>

(* Engine::cfg: the graph of the function the address belongs to.           *)
FunctionCfg(t) ==
  /\ pc[t] = "graph"
  /\ \E found \in SUBSET functions :
       Cardinality(found) <= 1 /\ graphs' = graphs \cup found
  /\ Goto(t, "out")
  /\ UNCHANGED <<engine, pending, decoded, functions, local, asked, touched, met, ignored>>
-----------------------------------------------------------------------------
(* What a thread inside a call does next.                                   *)
Continue(t) ==
  \/ StopStep(t) \/ AlgorithmStep(t) \/ TakeTurn(t)
  \/ Lock(t) \/ Decode(t) \/ ScopeEnd(t) \/ DrainEnd(t)
  \/ MergeCode(t) \/ AlgorithmEnd(t)
  \/ CfgStep(t) \/ DropGraphs(t) \/ GenerateCfg(t) \/ CfgEnd(t) \/ Advance(t)
  \/ AnalyzeStep(t) \/ CountFunctions(t) \/ SkipAnalyzer(t) \/ Analyzer(t)
  \/ FirstPassEnd(t) \/ AnalyzeRepeat(t) \/ PassEnd(t)
  \/ LoopEnd(t) \/ ExecuteEnd(t) \/ Finish(t)
  \/ EnqueueLocked(t) \/ FunctionCfg(t)

Call(t) ==
  \/ Start(t) \/ Ignite(t) \/ Ask(t) \/ DisassembleBlock(t)
  \/ \E a \in Addr : \/ Enqueue(t, a) \/ SetFunction(t, a) \/ DisassembleAt(t, a)
                     \/ CheckLocation(t, a) \/ CreateFunction(t, a)

Next == \E t \in Threads : Continue(t) \/ Call(t)

(* A thread inside a call keeps running, unless it waits for a lock.        *)
Spec == Init /\ [][Next]_vars /\ \A t \in Threads : WF_vars(Continue(t))
-----------------------------------------------------------------------------
Places == {"out", "loop", "turn", "lock", "drain", "scope", "merge", "merged", "cfg",
           "bounds", "build", "advance", "count", "analyze", "again", "remerge",
           "remerged", "ending", "finish", "enqueue", "graph"}

WaysBack == {"out", "merge", "analyze", "again", "loop", "advance", "graph"}

TypeOK ==
  /\ step \in Steps \cup {"None"} /\ busy \in BOOLEAN /\ weak \in BOOLEAN
  /\ done \in [1 .. Count -> 0 .. 2] /\ merged \subseteq Addr
  /\ pending \subseteq Addr /\ decoded \in [Addr -> 0 .. MaxDecodes]
  /\ functions \subseteq Addr /\ graphs \subseteq functions
  /\ pc \in [Threads -> Places] /\ back \in [Threads -> WaysBack]
  /\ given \in [Threads -> SUBSET Addr] /\ saved \in [Threads -> BOOLEAN]
  /\ current \in [Threads -> 1 .. Count + 1] /\ oldfc \in [Threads -> Nat]
  /\ todo \in [Threads -> SUBSET functions]
  /\ asked \in 0 .. MaxRequests /\ touched \subseteq Threads
  /\ met \in BOOLEAN /\ mode \in {"guess", "fact", "crossed"} /\ ignored \in BOOLEAN

(* As long as one thread at a time runs the steps, the engine says it is    *)
(* busy from the first address that thread decodes until it returns,        *)
(* through every step and repetition and whatever others ask meanwhile, and *)
(* never when no thread runs them.                                          *)
BusyWhileWorking ==
  ~met =>
    /\ \A t \in Threads : Inside(t) /\ pc[t] \notin {"loop", "turn"} => busy
    /\ \A t \in Threads : pc[t] = "loop" /\ step \in {"CFG", "Analyze", "Done"} => busy
    /\ (\A t \in Threads : ~Inside(t)) => ~busy

(* What the Algorithm finds is weak, what analyzers find is not, however    *)
(* often the engine goes back and forth between them and others decode in   *)
(* between; unless the engine set the flag while a WeakScope of another     *)
(* thread was open, which then restores the old one, or one is open now.    *)
WeakDiscipline ==
  \A t \in Threads :
    ~met /\ mode # "crossed" /\ (\A u \in Threads \ {t} : pc[u] # "scope") =>
      /\ InDrain(t) /\ back[t] = "merge" => weak
      /\ pc[t] \in {"bounds", "build", "count", "analyze", "again", "remerge"} => ~weak
      /\ pc[t] \in {"lock", "drain"} /\ back[t] \in {"analyze", "again"} => ~weak

(* When disassemble() is about to return, the graph of every function shows *)
(* the code as it is, unless another thread decoded something, set a        *)
(* function or the step after the last cfgStep began: execute() decodes     *)
(* nothing after that step and finds no function.                           *)
Settled ==
  \A t \in Threads : pc[t] = "finish" /\ t \notin touched => functions \subseteq graphs

(* The analyzers start on graphs of all functions.                          *)
AnalyzersSeeGraphs ==
  [][\A t \in Threads :
       pc[t] = "count" /\ pc'[t] = "analyze" /\ t \notin touched
         => functions \subseteq graphs]_vars

(* The loop asked algorithmStep again and again and finds nothing to do.    *)
Spins(t) == pc[t] = "loop" /\ step = "Algorithm" /\ pending = {}

(* t decodes and waits for the Document, whose owner waits for the          *)
(* Algorithm.                                                               *)
Deadlocked ==
  \E t, u \in Threads :
    /\ t # u /\ pc[t] = "drain" /\ HoldsDocument(u) /\ pc[u] \in {"enqueue", "lock"}

(* Two threads run the steps, each going on from the one the other set.     *)
Collide == \E t, u \in Threads : t # u /\ Inside(t) /\ Inside(u)

(* Every call returns, disassemble() with all its repetitions and the       *)
(* requests between them, unless it spins for ever, because another took    *)
(* what was pending, or two threads have each other's lock, or two threads  *)
(* run the steps for ever: one sets the Algorithm step for what is pending, *)
(* and the other goes on to the next step before that is decoded.           *)
Terminates ==
  \A t \in Threads :
    []<>(pc[t] = "out") \/ <>[]Spins(t) \/ <>[]Deadlocked \/ <>[]Collide

(* A call of disassemble() that found the engine busy is not lost: the      *)
(* engine decodes what is pending before it stops.                          *)
NoLostRequest == (\A t \in Threads : ~Inside(t)) => ~ignored

(* disassemble() ignores requests when there is nothing to decode, and      *)
(* returns.                                                                 *)
Returns == \A t \in Threads : []<>~Inside(t)
=============================================================================
