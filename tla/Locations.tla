----------------------------- MODULE Locations -----------------------------
(***************************************************************************)
(* What the Document does with an address an instruction refers to         *)
(* (checkLocation, checkPointer, checkTable of rdcore/document/document):  *)
(* it follows pointers and tables of pointers from there through the       *)
(* memory, recursively, and labels what it meets as pointer, string, data  *)
(* or code.  One action per pass through the loop of checkTable and one    *)
(* for the end of each call.  The Document is locked during the walk.      *)
(*                                                                         *)
(* Segments take their bytes from disjoint parts of the file.              *)
(*                                                                         *)
(* AdvancedRound, EntryFirstOnly, SetPointerUnnamed and ReturnSilently are *)
(* faulty variants of the operator that follows each of them; nothing uses *)
(* them here.                                                              *)
(***************************************************************************)
EXTENDS Integers, Sequences, FiniteSets, BlockOps, NetOps

CONSTANTS
  Segments,   (* what setSegment made: [start, file, end, kind]; the bytes *)
              (* of [start, file) are in the file                          *)
  Top,        (* an address after all segments                             *)
  Width,      (* addressWidth                                              *)
  Radix,      (* the number of values of a byte                            *)
  Images,     (* what the memory may hold: the bytes, and the size of the  *)
              (* string that StringFinder sees at each address, if any     *)
  Requests,   (* what the Algorithm and the Disassembler may ask for       *)
  MaxRequests (* bound: they and the user ask no more than this            *)

SegmentKinds == {"PureCode", "CodeAndData", "Data", "Bss"}

Addrs == {a \in 1 .. Top : \E s \in Segments : s.start <= a /\ a < s.end}

Loader == NoNext  (* RD_NVAL: the reference comes from no address          *)

Unlimited == -1   (* RD_NVAL: the table has as many entries as it has      *)

(* location  checkLocation and checkData                                    *)
(* slot      the call of an address outside of code (processCalls)          *)
(* table     processTable                                                   *)
(* branches, calls  processBranchTable and processCallTable                 *)
RequestKinds == {"location", "slot", "table", "branches", "calls"}

Walking == {"location", "slot", "table"}

(* Only the Disassembler, which checks exported data, is no address.  A     *)
(* size of RD_NVAL is the width.                                            *)
Request ==
  {r \in [kind : RequestKinds, from : Addrs \cup {Loader}, at : Addrs,
          size : Nat \ {0}, dataonly : BOOLEAN] :
     r.from = Loader => r.kind = "location"}

ASSUME SegmentsAssumption ==
  /\ Top \in Nat
  /\ Segments \subseteq [start : 1 .. Top, file : 1 .. Top, end : 1 .. Top,
                         kind : SegmentKinds]
  /\ \A s \in Segments : s.start <= s.file /\ s.file <= s.end /\ s.start < s.end
  /\ \A s, t \in Segments : s = t \/ s.end <= t.start \/ t.end <= s.start

ASSUME ImagesAssumption ==
  /\ Width \in Nat \ {0} /\ Radix \in Nat
  /\ Images \subseteq [byte : [Addrs -> Nat], text : [Addrs -> Nat]]

ASSUME RequestsAssumption == Requests \subseteq Request /\ MaxRequests \in Nat

VARIABLES
  image,     (* the memory, and the strings in it                          *)
  asked,     (* how many requests there were                               *)
  stack,     (* the calls of checkTable, the innermost first               *)
  labels,    (* addresses with an entry in the AddressDatabase             *)
  pointers,  (* those flagged as pointers                                  *)
  functions, (* m_functions                                                *)
  queued,    (* what was handed to the Algorithm                           *)
  blocks,    (* the BlockContainer of each segment                         *)
  net        (* the DocumentNet                                            *)

document == <<labels, pointers, functions, queued, blocks, net>>
vars == <<image, asked, stack, document>>

(* Before the loader has filled the segments.                               *)
NoImage == [byte |-> <<>>, text |-> <<>>]
-----------------------------------------------------------------------------
SegmentOf(a) == CHOOSE s \in Segments : s.start <= a /\ a < s.end

Code(a) == SegmentOf(a).kind \in {"PureCode", "CodeAndData"}

Smaller(m, n) == IF m < n THEN m ELSE n

(* readAddress: a view is cut at the end of its segment, and what is left   *)
(* of it is read as a number if it is as long as one.                       *)
ViewSize(a) == Smaller(Width, SegmentOf(a).end - a)

CanRead(a) ==
  /\ a \in Addrs /\ SegmentOf(a).kind # "Bss"
  /\ a < SegmentOf(a).file /\ ViewSize(a) \in {1, 2, 4, 8}

Value(m, a) ==
  LET v[n \in Nat] == IF n = 0 THEN 0
                      ELSE v[n - 1] + Radix ^ (n - 1) * m.byte[a + n - 1]
  IN  v[ViewSize(a)]

(* dereferenceAddress *)
Points(m, a) == CanRead(a) /\ Value(m, a) \in Addrs

(* findBlocks: the containers that hold a; without any, nothing is marked   *)
(* and setData and setString set no label.                                  *)
Found(a) == {s \in Segments : \E b \in blocks[s] : Contains(b, a)}

MarkAt(a, n, type) ==
  IF Found(a) = {} THEN UNCHANGED blocks
  ELSE \E s \in Found(a) : blocks' = [blocks EXCEPT ![s] = Mark(@, a, a + n, type, 0)]

Known(a) == IF Found(a) = {} THEN {} ELSE {a}

(* a refers to the addresses in B.  Nothing comes from RD_NVAL.             *)
Refer(n, a, B) ==
  IF a = Loader THEN n
  ELSE [n EXCEPT !.refs = [b \in DOMAIN @ |-> IF b \in B THEN @[b] \cup {a} ELSE @[b]]]
-----------------------------------------------------------------------------
(* A call of checkTable: the table began at at, pos is its current address, *)
(* count its pointers so far; first is what checkLocation will return.      *)
(* The table ends at the first word that is no pointer, or after limit.     *)
Frame(kind, from, a, size, dataonly, limit) ==
  [kind |-> kind, from |-> from, at |-> a, pos |-> a, count |-> 0, limit |-> limit,
   size |-> size, dataonly |-> dataonly, first |-> a]

(* checkPointer looks for pointers only where a pointer fits.               *)
PointerLimit(size) == IF size = Width THEN Unlimited ELSE 0

(* checkLocation up to the call of checkTable, over the calls in S.  An     *)
(* address that has a label is only referred to, and so is what it points   *)
(* to if it is a pointer.                                                   *)
CheckLocation(S, n, L, P, kind, from, a, size, dataonly) ==
  IF from = a THEN stack' = S /\ net' = n
  ELSE IF a \in L
  THEN /\ stack' = S
       /\ LET m == Refer(n, from, {a} \cup IF a \in P /\ Points(image, a) THEN {Value(image, a)} ELSE {})
          IN  net' = IF kind = "slot" THEN LinkCall(m, from, a) ELSE m
  ELSE /\ stack' = <<Frame(kind, from, a, size, dataonly, PointerLimit(size))>> \o S
       /\ net' = n

Ask ==
  /\ stack = <<>> /\ asked < MaxRequests /\ image # NoImage
  /\ asked' = asked + 1
  /\ \E r \in Requests :
       \/ /\ r.kind \in {"location", "slot"}
          /\ r.kind = "slot" => ~Code(r.at)
          /\ CheckLocation(<<>>, net, labels, pointers, r.kind, r.from, r.at, r.size, r.dataonly)
       \/ /\ r.kind = "table"
          /\ stack' = <<Frame("table", r.from, r.at, r.size, FALSE, PointerLimit(r.size))>>
          /\ UNCHANGED net
       \/ /\ r.kind \in {"branches", "calls"}
          /\ stack' = <<Frame(r.kind, r.from, r.at, Width, FALSE, r.size)>>
          /\ UNCHANGED net
  /\ UNCHANGED <<image, labels, pointers, functions, queued, blocks>>

More(f) == (f.limit = Unlimited \/ f.count < f.limit) /\ Points(image, f.pos)

(* The loop of checkTable: setPointer, the references, and the callback.    *)
AdvancedRound(f, t) ==
  [f EXCEPT !.pos = IF @ + 2 * Width <= SegmentOf(@).end THEN @ + Width ELSE f.at,
            !.count = IF f.limit = Unlimited THEN 1 ELSE @ + 1,
            !.first = IF f.count = 0 THEN t ELSE @]

(* Of a table without a limit it only counts whether it has any pointers.   *)
Advanced(f, t) ==
  [f EXCEPT !.pos = @ + Width, !.count = IF f.limit = Unlimited THEN 1 ELSE @ + 1,
            !.first = IF f.count = 0 THEN t ELSE @]

EntryFirstOnly(f, t) ==
  IF f.count = 0 THEN Refer(Refer(net, f.from, {f.pos}), f.pos, {t}) ELSE net

Entry(f, t) ==
  Refer(IF f.count = 0 THEN Refer(net, f.from, {f.pos}) ELSE net, f.pos, {t})

SetPointerUnnamed(a, L) ==
  /\ MarkAt(a, Width, "Data")
  /\ labels' = labels \cup L /\ pointers' = pointers \cup {a}

(* setPointer, and the labels in L.  updateFlags flags no address without   *)
(* an entry.                                                                *)
SetPointer(a, L) ==
  /\ MarkAt(a, Width, "Data")
  /\ labels' = labels \cup Known(a) \cup L
  /\ pointers' = pointers \cup ({a} \cap (labels \cup Known(a)))

(* checkPointer's callback goes on with what the pointer points to.         *)
FollowPointer ==
  /\ stack # <<>> /\ More(Head(stack)) /\ Head(stack).kind \in Walking
  /\ LET f == Head(stack)
         t == Value(image, f.pos)
         n == IF f.count = 0 THEN Refer(Entry(f, t), f.from, {t}) ELSE Entry(f, t)
     IN  /\ SetPointer(f.pos, {})
         /\ CheckLocation(<<Advanced(f, t)>> \o Tail(stack), n, labels', pointers',
                          "location", f.pos, t, Width, FALSE)
  /\ UNCHANGED <<image, asked, functions, queued>>

(* The callbacks of the Algorithm end the table at a pointer that does not  *)
(* lead to code; that pointer is set, but does not count.                   *)
TableEntry ==
  /\ stack # <<>> /\ More(Head(stack)) /\ Head(stack).kind \notin Walking
  /\ LET f == Head(stack)
         t == Value(image, f.pos)
     IN  \/ /\ Code(t)
            /\ SetPointer(f.pos, {t})
            /\ stack' = <<Advanced(f, t)>> \o Tail(stack)
            /\ net' = IF f.kind = "calls" THEN LinkCall(Entry(f, t), f.from, t)
                      ELSE LinkJump(Entry(f, t), f.from, t)
            /\ functions' = IF f.kind = "calls" THEN functions \cup {t} ELSE functions
            /\ queued' = queued \cup {t}
         \/ /\ ~Code(t)
            /\ SetPointer(f.pos, {})
            /\ stack' = <<[f EXCEPT !.limit = f.count]>> \o Tail(stack)
            /\ net' = Entry(f, t)
            /\ UNCHANGED <<functions, queued>>
  /\ UNCHANGED <<image, asked>>
-----------------------------------------------------------------------------
(* The rest of checkLocation, with the reference it makes at its end.       *)
ReturnSilently(f) ==
  /\ stack' = Tail(stack)
  /\ net' = IF f.kind = "slot" THEN LinkCall(net, f.from, f.first) ELSE net
  /\ UNCHANGED <<image, asked, pointers, functions>>

Return(f) ==
  /\ stack' = Tail(stack)
  /\ net' = LET n == Refer(net, f.from, {f.at})
            IN  IF f.kind = "slot" THEN LinkCall(n, f.from, f.first) ELSE n
  /\ UNCHANGED <<image, asked, pointers, functions>>

Located == stack # <<>> /\ ~More(Head(stack)) /\ Head(stack).kind \in {"location", "slot"}

PointerFound ==
  /\ Located /\ Head(stack).count > 0
  /\ Return(Head(stack))
  /\ UNCHANGED <<labels, queued, blocks>>

StringFound ==
  /\ Located /\ Head(stack).count = 0
  /\ LET f == Head(stack)
     IN  /\ image.text[f.at] > 0
         /\ Found(f.at) # {}
         /\ MarkAt(f.at, image.text[f.at], "String")
         /\ labels' = labels \cup {f.at}
         /\ Return(f)
  /\ UNCHANGED queued

NoPointerOrString(f) == f.count = 0 /\ (image.text[f.at] = 0 \/ Found(f.at) = {})

IsCode(f) == ~f.dataonly /\ SegmentOf(f.at).kind = "PureCode"

CodeFound ==
  /\ Located
  /\ LET f == Head(stack)
     IN  /\ NoPointerOrString(f) /\ IsCode(f)
         /\ labels' = labels \cup {f.at}
         /\ queued' = queued \cup {f.at}
         /\ Return(f)
  /\ UNCHANGED blocks

DataFound ==
  /\ Located
  /\ LET f == Head(stack)
     IN  /\ NoPointerOrString(f) /\ ~IsCode(f)
         /\ MarkAt(f.at, f.size, "Data")
         /\ labels' = labels \cup Known(f.at)
         /\ Return(f)
  /\ UNCHANGED queued

(* Where there is no table, the Algorithm asks for the location.            *)
TableEnd ==
  /\ stack # <<>> /\ ~More(Head(stack)) /\ Head(stack).kind \notin {"location", "slot"}
  /\ LET f == Head(stack)
     IN  IF f.count > 0 THEN stack' = Tail(stack) /\ UNCHANGED net
         ELSE CheckLocation(Tail(stack), net, labels, pointers,
                            "location", f.from, f.at, f.size, FALSE)
  /\ UNCHANGED <<image, asked, labels, pointers, functions, queued, blocks>>

(* RDDocument_SetLabel and the like.                                        *)
SetLabel ==
  /\ stack = <<>> /\ asked < MaxRequests /\ image # NoImage
  /\ asked' = asked + 1
  /\ \E a \in Addrs : labels' = labels \cup {a}
  /\ UNCHANGED <<image, stack, pointers, functions, queued, blocks, net>>

(* Disassembler::load: the loader fills the segments.                       *)
Load ==
  /\ image = NoImage
  /\ image' \in Images
  /\ UNCHANGED <<asked, stack, document>>

Init ==
  /\ image = NoImage /\ asked = 0 /\ stack = <<>>
  /\ labels = {} /\ pointers = {} /\ functions = {} /\ queued = {}
  /\ blocks = [s \in Segments |-> {NewBlock(s.start, s.end, "Unknown", 0)}]
  /\ net = EmptyNet(Addrs)

Step ==
  \/ FollowPointer \/ TableEntry \/ TableEnd
  \/ PointerFound \/ StringFound \/ CodeFound \/ DataFound

Next == Load \/ Ask \/ SetLabel \/ Step

(* The thread that walks keeps running.  Spec states it with WF_vars(Step); *)
(* Step is enabled exactly when the thread is Working, and WorkingSpec says *)
(* the same without ENABLED, which TLC evaluates slowly.                    *)
Spec == Init /\ [][Next]_vars /\ WF_vars(Step)

Working == stack # <<>>

WorkingSpec == Init /\ [][Next]_vars /\ ([]<>~Working \/ []<><<Step>>_vars)
-----------------------------------------------------------------------------
Frames == [kind : RequestKinds, from : Addrs \cup {Loader}, at : Addrs, pos : Nat,
           count : Nat, limit : Nat \cup {Unlimited}, size : Nat \ {0}, dataonly : BOOLEAN, first : Addrs]

(* Only what checkPointer's callback asks for is asked from inside.         *)
TypeOK ==
  /\ image \in [byte : [Addrs -> Nat], text : [Addrs -> Nat]] \cup {NoImage}
  /\ asked \in 0 .. MaxRequests
  /\ stack \in Seq(Frames)
  /\ \A i \in 1 .. Len(stack) :
        /\ stack[i].from = Loader => stack[i].kind = "location"
        /\ i < Len(stack) => stack[i].kind = "location"
        /\ i > 1 => stack[i].kind \in Walking
  /\ labels \subseteq Addrs /\ pointers \subseteq labels /\ functions \subseteq labels
  /\ queued \subseteq labels
  /\ blocks \in [Segments -> SUBSET Block]
  /\ net \in NetType(Addrs)

(* The walk never enters an address that it is still walking from, whatever *)
(* cycles the pointers in memory make: setPointer names an address before   *)
(* checkLocation looks at the next.                                         *)
NoAddressTwice ==
  \A i, j \in 1 .. Len(stack) : stack[i].at = stack[j].at => i = j

(* So checkLocation recurses no deeper than there are addresses.            *)
DepthBounded == Len(stack) <= Cardinality(Addrs)

(* Every pointer found refers to where it points, and a location known by a *)
(* pointer has a label or is going to get one; only a table of branches or  *)
(* calls ends with a pointer that leads to no code and is left alone.       *)
PointersLead ==
  \A p \in pointers :
     /\ Points(image, p) /\ p \in net.refs[Value(image, p)]
     /\ \/ Value(image, p) \in labels
        \/ \E i \in 1 .. Len(stack) :
              stack[i].kind = "location" /\ stack[i].at = Value(image, p)
        \/ ~Code(Value(image, p))

(* Whatever a walk finds at an address, who asked refers to it at the end.  *)
CallerRefers ==
  [][stack # <<>> /\ stack' = Tail(stack) =>
       LET f == Head(stack)
       IN  f.from \in {Loader, f.at} \/ f.from \in net'.refs[f.at]]_vars

(* FunctionGraph gives up with an error where an address has no block.      *)
EveryAddressHasBlock == \A a \in Addrs : Found(a) # {}

(* The memories and requests for which no item reaches past its segment: a  *)
(* pointer lies in its segment and leads to where another would fit.        *)
InSegment(a, n) == a + n <= SegmentOf(a).end

ImageFits(m) ==
  \A a \in Addrs :
     /\ InSegment(a, m.text[a])
     /\ CanRead(a) /\ Value(m, a) \in Addrs =>
          InSegment(a, Width) /\ InSegment(Value(m, a), Width)

RequestFits(r) ==
  InSegment(r.at, IF r.kind \in {"branches", "calls"} THEN Width ELSE r.size)

(* A walk comes to its end.                                                 *)
Terminates == stack # <<>> ~> stack = <<>>
=============================================================================
