------------------------------ MODULE Algorithm ------------------------------
(***************************************************************************)
(* The recursive-descent disassembly (rdcore/engine/algorithm): the queue  *)
(* of addresses, decoding with delay slots, and what decoding writes: the  *)
(* blocks, labels and functions of the Document and the links of the       *)
(* DocumentNet.  One action per step between two calls of the Document,    *)
(* which other threads may call in between; the Algorithm itself is locked *)
(* while it works.                                                         *)
(*                                                                         *)
(* There is one segment, of code.  What the assembler says of each address *)
(* is a constant of the behaviour; its results that follow pointers or     *)
(* types in the data are left out, and the bytes a reference leads to are  *)
(* no pointers and no strings.  A result of size 0 gives no size (RD_NVAL).*)
(*                                                                         *)
(* AcceptCode and CallNotQueued are faulty variants of the operator that   *)
(* follows each of them; nothing uses them here.                           *)
(***************************************************************************)
EXTENDS Integers, Sequences, FiniteSets, BlockOps, NetOps

CONSTANTS
  Base, Limit, (* the segment is [Base, Limit)                             *)
  Pure,        (* the segment holds code only (Utils::isPureCode)          *)
  Width,       (* addressWidth                                             *)
  Programs,    (* what the assembler may say: functions from addresses to  *)
               (* instructions                                             *)
  Requests,    (* what else happens, of RequestKinds                       *)
  MaxPending   (* bound: other threads queue no more than this             *)

RequestKinds == {"enqueue", "user", "sweep", "label", "data", "function", "bounds"}

Addrs == Base .. Limit - 1

(* Links also lead past the end of the segment. *)
Linked == Base .. Limit + (Limit - Base)

Kinds == {"Branch", "BranchTrue", "BranchFalse", "Call", "Return",
          "Ref", "RefData", "RefString"}

Results == [kind : Kinds, to : Nat, size : Nat]

Instr == [size : Nat, invalid : BOOLEAN, slots : Nat, results : Seq(Results)]

ASSUME SegmentAssumption ==
  /\ Base \in Nat \ {0} /\ Limit \in Nat /\ Base < Limit
  /\ Pure \in BOOLEAN /\ Width \in Nat \ {0}

ASSUME ProgramsAssumption == Programs \subseteq [Addrs -> Instr]

ASSUME RequestsAssumption == Requests \subseteq RequestKinds /\ MaxPending \in Nat

VARIABLES
  program,   (* what the assembler says of each address                    *)
  driver,    (* who has the Algorithm: "none", "engine" or "user" drain    *)
             (* the queue, "sweep" is in disassembleBlock; "loader" before *)
  sweep,     (* disassembleBlock: its address and its view [pos, end)      *)
  pending,   (* m_pending                                                  *)
  stack,     (* the calls of decode, the innermost first                   *)
  blocks,    (* the BlockContainer of the segment                          *)
  labels,    (* addresses with an entry in the AddressDatabase             *)
  facts,     (* those whose entry is not weak                              *)
  strings,   (* those flagged as strings                                   *)
  functions, (* the functions of the Document                              *)
  net        (* the DocumentNet                                            *)

algorithm == <<driver, sweep, pending, stack>>
document == <<blocks, labels, facts, strings, functions>>
vars == <<program, algorithm, document, net>>

(* The engine's flag, or the WeakScope of a decode.                         *)
Weak == driver = "engine" \/ stack # <<>>

BlockAt(a) == CHOOSE b \in Get(blocks, a) : TRUE

(* isAddressValid: unknown bytes, data that is no string unless the flag is *)
(* weak, and anything else whose label is weak and that is no string.       *)
AcceptCode(a, weak, L, F) == a \in Addrs

Valid(a, weak, L, F) ==
  /\ a \in Addrs
  /\ LET b == BlockAt(a)
     IN  \/ b.type = "Unknown"
         \/ b.type = "Data" /\ ~weak /\ b.start \notin strings
         \/ b.type # "Data" /\ b.start \in L \ F /\ b.start \notin strings

(* AddressDatabase::setLabel refuses a guess where a fact is known.  The    *)
(* entry it creates when there is none is weak.                             *)
Labelled(A, L, F, weak) ==
  <<L \cup A, IF weak THEN F ELSE F \cup A>>

SetLabels(A, weak) ==
  LET new == Labelled(A, labels, facts, weak)
  IN  labels' = new[1] /\ facts' = new[2]

(* enqueue and schedule *)
Front(q, a, ok) == IF ok THEN <<a>> \o q ELSE q
Back(q, a, ok) == IF ok THEN Append(q, a) ELSE q
-----------------------------------------------------------------------------
(* EmulateResult: a return or a branch ends the flow.                       *)
CanFlow(in) ==
  \A i \in DOMAIN in.results :
     in.results[i].kind \notin {"Return", "Branch", "BranchTrue", "BranchFalse"}

(* A call of decode: its instruction, whether it is marked, the delay slots *)
(* and the results still to process, and the address to go on with.         *)
Frame(a, in) ==
  [at |-> a, in |-> in, marked |-> FALSE, slots |-> in.slots, next |-> a + in.size,
   left |-> in.results]

(* decode refuses what isAddressValid refuses and what is empty or does not *)
(* fit the view.                                                            *)
Accepts(a, in, room) ==
  in.size > 0 /\ in.size <= room /\ Valid(a, Weak, labels, facts)

(* The caller goes on with Refused when decode refuses the instruction.     *)
Decode(a, in, room, Refused) ==
  IF Accepts(a, in, room)
  THEN stack' = <<Frame(a, in)>> \o stack /\ UNCHANGED sweep
  ELSE Refused

(* decode from setCode to the link to the first delay slot.                 *)
SetCode ==
  /\ stack # <<>> /\ ~Head(stack).marked
  /\ stack' = <<[Head(stack) EXCEPT !.marked = TRUE]>> \o Tail(stack)
  /\ LET f == Head(stack)
     IN  /\ blocks' = IF f.in.invalid THEN blocks
                      ELSE Mark(blocks, f.at, f.next, "Code", 1)
         /\ net' = IF f.slots > 0 THEN LinkNext(net, f.at, f.next) ELSE net
  /\ UNCHANGED <<program, driver, sweep, pending, labels, facts, strings, functions>>

(* disassemble drains the queue; disassembleBlock does after its view.      *)
Draining == driver \in {"engine", "user"} \/ (driver = "sweep" /\ sweep.pos = sweep.end)

(* Algorithm::next *)
NextPending ==
  /\ Draining /\ stack = <<>> /\ pending # <<>>
  /\ pending' = Tail(pending)
  /\ LET a == Head(pending)
     IN  Decode(a, program[a], Limit - a, UNCHANGED <<stack, sweep>>)
  /\ UNCHANGED <<program, driver, document, net>>

(* processDelaySlots: one more slot, unless it cannot be decoded.           *)
DelaySlot ==
  /\ stack # <<>> /\ Head(stack).marked /\ Head(stack).slots > 0
  /\ LET a    == Head(stack).next
         stop == /\ stack' = <<[Head(stack) EXCEPT !.slots = 0]>> \o Tail(stack)
                 /\ UNCHANGED sweep
     IN  IF a \in Addrs THEN Decode(a, program[a], Limit - a, stop) ELSE stop
  /\ UNCHANGED <<program, driver, pending, document, net>>
-----------------------------------------------------------------------------
(* processResult, one result at a time.  Targets outside of the segment are *)
(* skipped; a branch to itself is not queued.                               *)
Branch(from, t) ==
  /\ UNCHANGED <<blocks, strings, functions>>
  /\ net' = LinkJump(net, from, t)
  /\ SetLabels({t}, Weak)
  /\ pending' = Front(pending, t, t # from /\ Valid(t, Weak, labels', facts'))

BranchFalse(from, t) ==
  /\ UNCHANGED document
  /\ net' = LinkSkip(net, from, t)
  /\ pending' = Front(pending, t, Valid(t, Weak, labels, facts))

CallNotQueued(from, t) ==
  /\ UNCHANGED <<blocks, strings, pending>>
  /\ net' = LinkCall(net, from, t)
  /\ functions' = functions \cup {t}
  /\ SetLabels({t}, Weak)

Call(from, t) ==
  /\ UNCHANGED <<blocks, strings>>
  /\ net' = LinkCall(net, from, t)
  /\ functions' = functions \cup {t}
  /\ SetLabels({t}, Weak)
  /\ pending' = Back(pending, t, Valid(t, Weak, labels', facts'))

(* Document::checkLocation: a labelled address gets a reference; others are *)
(* queued as code when the segment holds only code, else they are data.     *)
CheckLocation(from, t, size, dataonly) ==
  /\ UNCHANGED <<strings, functions>>
  /\ net' = IF from = t THEN net ELSE AddRef(net, from, t)
  /\ \/ /\ from = t \/ t \in labels
        /\ UNCHANGED <<pending, blocks, labels, facts>>
     \/ /\ from # t /\ t \notin labels
        /\ SetLabels({t}, Weak)
        /\ IF Pure /\ ~dataonly
           THEN UNCHANGED blocks /\ pending' = Front(pending, t, Valid(t, Weak, labels', facts'))
           ELSE UNCHANGED pending /\ blocks' = Mark(blocks, t, t + size, "Data", 0)

(* Document::checkString *)
CheckString(from, t, size) ==
  /\ UNCHANGED <<pending, functions>>
  /\ IF size = 0 THEN UNCHANGED <<blocks, labels, facts, strings, net>>
     ELSE /\ blocks' = Mark(blocks, t, t + size, "String", 0)
          /\ SetLabels({t}, Weak)
          /\ strings' = IF t \in facts /\ Weak THEN strings ELSE strings \cup {t}
          /\ net' = AddRef(net, from, t)

ProcessResult ==
  /\ stack # <<>> /\ Head(stack).marked /\ Head(stack).slots = 0
  /\ Head(stack).left # <<>>
  /\ UNCHANGED <<program, driver, sweep>>
  /\ stack' = <<[Head(stack) EXCEPT !.left = Tail(@)]>> \o Tail(stack)
  /\ LET from == Head(stack).at
         r    == Head(Head(stack).left)
     IN  IF r.to \notin Addrs \/ r.kind = "Return"
         THEN UNCHANGED <<pending, document, net>>
         ELSE \/ r.kind \in {"Branch", "BranchTrue"} /\ Branch(from, r.to)
              \/ r.kind = "BranchFalse" /\ BranchFalse(from, r.to)
              \/ r.kind = "Call" /\ Call(from, r.to)
              \/ /\ r.kind \in {"Ref", "RefData"}
                 /\ CheckLocation(from, r.to, IF r.size = 0 THEN Width ELSE r.size,
                                  r.kind = "RefData")
              \/ r.kind = "RefString" /\ CheckString(from, r.to, r.size)

(* BufferView::move stops at the end of the view. *)
Smaller(m, n) == IF m <= n THEN m ELSE n

(* The end of decode, and what its caller does with the address it returns: *)
(* decode of a delay slot goes back to processDelaySlots, the one of the    *)
(* queue to nextAddress, the one of a sweep to disassembleBlock.            *)
Finish ==
  /\ stack # <<>> /\ Head(stack).marked /\ Head(stack).slots = 0
  /\ Head(stack).left = <<>>
  /\ LET f      == Head(stack)
         rest   == Tail(stack)
         flows  == CanFlow(f.in)
         linked == IF flows THEN LinkNext(net, f.at, f.next) ELSE net
         caller == Head(rest)
     IN  IF rest # <<>>
         THEN /\ stack' = <<[caller EXCEPT !.slots = IF flows THEN @ - 1 ELSE 0,
                                           !.next = IF flows THEN f.next ELSE @]>>
                          \o Tail(rest)
              /\ net' = IF flows /\ caller.slots > 1
                        THEN LinkNext(linked, f.at, f.next) ELSE linked
              /\ UNCHANGED <<pending, sweep>>
         ELSE /\ stack' = rest /\ net' = linked
              /\ IF sweep.pos < sweep.end
                 THEN /\ sweep' = [sweep EXCEPT
                                     !.pos = Smaller(sweep.end, IF flows THEN @ + f.in.size ELSE @ + 1),
                                     !.at = IF flows THEN f.next ELSE @ + 1]
                      /\ UNCHANGED pending
                 ELSE /\ pending' = Front(pending, f.next,
                                 flows /\ Valid(f.next, driver = "engine", labels, facts))
                      /\ UNCHANGED sweep
  /\ UNCHANGED <<program, driver, document>>
-----------------------------------------------------------------------------
NoSweep == [at |-> Base, pos |-> Base, end |-> Base]

(* The engine's algorithmStep begins to drain the queue.                    *)
Drain ==
  /\ driver = "none" /\ pending # <<>>
  /\ driver' = "engine"
  /\ UNCHANGED <<program, sweep, pending, stack, document, net>>

Drained ==
  /\ Draining /\ stack = <<>> /\ pending = <<>>
  /\ driver' = "none" /\ sweep' = NoSweep
  /\ UNCHANGED <<program, pending, stack, document, net>>

(* disassembleBlock: the instruction at the head of the view is decoded as  *)
(* the one at the address, and both move on.                                *)
SweepStep ==
  /\ driver = "sweep" /\ sweep.pos < sweep.end /\ stack = <<>>
  /\ Decode(sweep.at, program[sweep.pos], sweep.end - sweep.pos,
            /\ sweep' = [sweep EXCEPT !.pos = @ + 1, !.at = @ + 1]
            /\ UNCHANGED stack)
  /\ UNCHANGED <<program, driver, pending, document, net>>

Step ==
  \/ Drain \/ NextPending \/ SetCode \/ DelaySlot \/ ProcessResult \/ Finish \/ SweepStep \/ Drained
-----------------------------------------------------------------------------
(* RDContext_Enqueue *)
Enqueue(a) ==
  /\ "enqueue" \in Requests
  /\ driver = "none" /\ Len(pending) < MaxPending
  /\ pending' = Front(pending, a, Valid(a, Weak, labels, facts))
  /\ UNCHANGED <<program, driver, sweep, stack, document, net>>

(* Disassembler::disassembleAt, for an analyzer or the user: no engine has  *)
(* set the weak flag.                                                       *)
DisassembleAt(a) ==
  /\ "user" \in Requests
  /\ driver = "none"
  /\ driver' = "user"
  /\ pending' = Front(pending, a, Valid(a, Weak, labels, facts))
  /\ UNCHANGED <<program, sweep, stack, document, net>>

(* Disassembler::disassembleBlock, for an analyzer: the view is the rest of *)
(* the block that is at the address now.                                    *)
DisassembleBlock(a) ==
  /\ "sweep" \in Requests
  /\ driver = "none"
  /\ driver' = "sweep"
  /\ sweep' = [at |-> a, pos |-> a, end |-> Smaller(Limit, BlockAt(a).end)]
  /\ UNCHANGED <<program, pending, stack, document, net>>

(* RDDocument_SetLabel and the like, in any thread, at any time.            *)
SetLabel(a) ==
  /\ "label" \in Requests /\ driver # "loader"
  /\ SetLabels({a}, Weak)
  /\ UNCHANGED <<program, algorithm, blocks, strings, functions, net>>

SetData(a) ==
  /\ "data" \in Requests /\ driver # "loader"
  /\ blocks' = Mark(blocks, a, a + 1, "Data", 0)
  /\ SetLabels({a}, Weak)
  /\ UNCHANGED <<program, algorithm, strings, functions, net>>

SetFunction(a) ==
  /\ "function" \in Requests /\ driver # "loader"
  /\ functions' = functions \cup {a}
  /\ SetLabels({a}, Weak)
  /\ UNCHANGED <<program, algorithm, blocks, strings, net>>

(* Engine::cfgStep: nothing falls through into a function.                  *)
FunctionBounds ==
  /\ "bounds" \in Requests
  /\ driver = "none" /\ pending = <<>>
  /\ net' = UnlinkPrevs(net, functions)
  /\ UNCHANGED <<program, algorithm, document>>

Request ==
  \/ FunctionBounds
  \/ \E a \in Addrs :
       Enqueue(a) \/ DisassembleAt(a) \/ DisassembleBlock(a)
         \/ SetLabel(a) \/ SetData(a) \/ SetFunction(a)

(* Disassembler::load and disassemble: the loader has made a segment and    *)
(* one function, whose name is a fact; disassemble queues it.               *)
Load ==
  /\ driver = "loader"
  /\ program' \in Programs
  /\ \E entry \in Addrs : pending' = <<entry>> /\ functions' = {entry}
  /\ labels' = functions' /\ facts' = functions'
  /\ driver' = "none"
  /\ UNCHANGED <<sweep, stack, blocks, strings, net>>

NoProgram ==
  [a \in Addrs |-> [size |-> 0, invalid |-> FALSE, slots |-> 0, results |-> <<>>]]

Init ==
  /\ program = NoProgram /\ driver = "loader" /\ sweep = NoSweep
  /\ pending = <<>> /\ stack = <<>>
  /\ blocks = {NewBlock(Base, Limit, "Unknown", 0)}
  /\ labels = {} /\ facts = {} /\ strings = {} /\ functions = {}
  /\ net = EmptyNet(Linked)

Next == Load \/ Step \/ Request

(* The thread that drains the queue keeps running.  Spec states it with     *)
(* WF_vars(Step); Step is enabled exactly when the thread is Working, and   *)
(* WorkingSpec says the same without ENABLED, which TLC evaluates slowly.   *)
Spec == Init /\ [][Next]_vars /\ WF_vars(Step)

Working == driver \in {"engine", "user", "sweep"} \/ (driver = "none" /\ pending # <<>>)

WorkingSpec == Init /\ [][Next]_vars /\ ([]<>~Working \/ []<><<Step>>_vars)
-----------------------------------------------------------------------------
Frames == [at : Addrs, in : Instr, marked : BOOLEAN, slots : Nat, next : Linked,
           left : Seq(Results)]

(* Only the innermost decode is not in its delay slots. *)
ControlType ==
  /\ program \in Programs \cup {NoProgram}
  /\ driver \in {"loader", "none", "engine", "user", "sweep"}
  /\ sweep \in [at : Nat, pos : Base .. Limit, end : Base .. Limit]
  /\ pending \in Seq(Addrs) /\ stack \in Seq(Frames)
  /\ \A i \in 2 .. Len(stack) : stack[i].slots > 0
  /\ net \in NetType(Linked)

DocumentType ==
  /\ blocks \subseteq [start : Base .. Limit, end : Base .. Limit,
                       type : BlockTypes, info : {0, 1}]
  /\ facts \subseteq labels /\ strings \subseteq labels /\ functions \subseteq labels
  /\ labels \subseteq Addrs
  /\ driver = "loader" => facts = {}

TypeOK == ControlType /\ DocumentType

(* The instruction of the program that a code block holds.                  *)
IsWhole(b) ==
  /\ b.start \in Addrs /\ b.end = b.start + program[b.start].size
  /\ ~program[b.start].invalid

(* Every code block is one whole instruction of the program, however often  *)
(* instructions, data and strings overwrite each other: renderer and graphs *)
(* decode again at its start and trust its end.                             *)
CodeIsInstruction == \A b \in blocks : b.type = "Code" => IsWhole(b)

(* Every link has both ends: an address is among the previous ones of what  *)
(* it goes on to and among the sources of what it branches to or calls.     *)
(* Graphs follow links from one end, the renderer and unlinkPrev from the   *)
(* other.                                                                   *)
LinksHaveBothEnds == \A a \in Linked :
  /\ net.next[a] # NoNext => a \in net.prev[net.next[a]]
  /\ \A b \in net.jumps[a] \cup net.skips[a] \cup net.calls[a] : a \in net.from[b]

(* cfgStep leaves no instruction that goes on into a function.              *)
FunctionsStandAlone ==
  [][FunctionBounds => \A a \in Linked : net'.next[a] \notin functions]_vars

(* decode marks no bytes beyond its segment: it refuses an instruction that *)
(* is bigger than what is left of the view.                                 *)
CodeFits == \A b \in blocks : b.end <= Limit

(* The queue is drained: disassemble() comes back.                          *)
Terminates == driver \in {"engine", "user", "sweep"} ~> driver = "none"
=============================================================================
