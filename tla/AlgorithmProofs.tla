--------------------------- MODULE AlgorithmProofs ---------------------------
(***************************************************************************)
(* What decoding leaves behind, for segments of any size, any program and  *)
(* any requests of other threads, as long as nobody sweeps a block and no  *)
(* datum an instruction names reaches past the segment: the blocks tile    *)
(* the segment, every code block is one instruction, every link has both   *)
(* ends, and all that decoded code leads to was decoded or looked at when  *)
(* the queue is empty.                                                     *)
(***************************************************************************)
EXTENDS Exploration, Lemmas

(* A result whose datum stays in the segment. *)
DataSize(r) == IF r.size = 0 THEN Width ELSE r.size

Fitting == {r \in Results : r.to \in Addrs => r.to + DataSize(r) <= Limit}

DataFits ==
  \A p \in Programs : \A a \in Addrs : p[a].results \in Seq(Fitting)

(* A call of decode: it decodes what the program has at its address, and    *)
(* until it has marked it, it goes on right behind it.                      *)
Sane(f) ==
  /\ f.in = program[f.at] /\ f.left \in Seq(Fitting)
  /\ ~f.marked => f.in.size > 0 /\ f.next = f.at + f.in.size /\ f.next <= Limit

GoodFrames == {f \in Frames : Sane(f)}

(* All calls but the innermost wait for a delay slot. *)
Waiting(f) == f.marked /\ f.slots > 0

Stacked(s) == s \in Seq(GoodFrames) /\ \A i \in 2 .. Len(s) : Waiting(s[i])

LoaderInv ==
  driver = "loader" =>
    /\ stack = <<>> /\ facts = {} /\ strings = {}
    /\ blocks = {NewBlock(Base, Limit, "Unknown", 0)}

ControlInv ==
  /\ program \in Programs \cup {NoProgram}
  /\ driver \in {"loader", "none", "engine", "user"} /\ sweep = NoSweep
  /\ pending \in Seq(Addrs)
  /\ Stacked(stack)

LabelInv ==
  facts \subseteq labels /\ strings \subseteq labels /\ functions \subseteq labels
    /\ labels \subseteq Addrs

BlockInv ==
  Tiles(blocks, Base, Limit) /\ CodeIsInstruction /\ \A b \in blocks : b.info \in {0, 1}

NetInv == net \in NetType(Linked) /\ LinksHaveBothEnds

IInv == ControlInv /\ LoaderInv /\ LabelInv /\ BlockInv /\ NetInv
-----------------------------------------------------------------------------
(* The stack of calls: push, replace and pop. *)
LEMMA StackPop == ASSUME NEW s, Stacked(s), s # <<>> PROVE Stacked(Tail(s))
<1>1. /\ Tail(s) \in Seq(GoodFrames) /\ Len(s) \in Nat /\ Len(Tail(s)) = Len(s) - 1
      /\ \A i \in 1 .. Len(s) - 1 : Tail(s)[i] = s[i + 1]
  BY HeadTail DEF Stacked
<1>2. ASSUME NEW i \in 2 .. Len(Tail(s)) PROVE Waiting(Tail(s)[i])
  <2>1. i + 1 \in 2 .. Len(s) /\ Tail(s)[i] = s[i + 1]
    BY <1>1
  <2>. QED BY <2>1 DEF Stacked
<1>. QED BY <1>1, <1>2 DEF Stacked

LEMMA StackPush ==
  ASSUME NEW s, Stacked(s), s # <<>> => Waiting(Head(s)), NEW f \in GoodFrames
  PROVE  Stacked(<<f>> \o s)
<1> DEFINE t == <<f>> \o s
<1>1. /\ s \in Seq(GoodFrames) /\ t \in Seq(GoodFrames) /\ Len(s) \in Nat /\ Len(t) = Len(s) + 1
      /\ \A i \in 1 .. Len(s) : t[i + 1] = s[i]
  BY Pushed DEF Stacked
<1> HIDE DEF t
<1>2. ASSUME NEW i \in 2 .. Len(t) PROVE Waiting(t[i])
  <2>1. i - 1 \in 1 .. Len(s) /\ t[i] = s[i - 1]
    <3>1. i - 1 \in 1 .. Len(s)
      BY <1>1
    <3>2. t[(i - 1) + 1] = s[i - 1]
      BY <1>1, <3>1
    <3>. QED BY <3>1, <3>2
  <2>2. CASE i = 2
    <3>1. s # <<>> /\ s[1] = Head(s)
      BY <2>1, <2>2, <1>1, HeadTail
    <3>. QED BY <3>1, <2>1, <2>2
  <2>3. CASE i # 2
    BY <2>1, <2>3, <1>1 DEF Stacked
  <2>. QED BY <2>2, <2>3
<1>. QED BY <1>1, <1>2 DEF Stacked, t

LEMMA StackReplace ==
  ASSUME NEW s, Stacked(s), s # <<>>, NEW f \in GoodFrames
  PROVE  Stacked(<<f>> \o Tail(s))
<1>1. /\ Tail(s) \in Seq(GoodFrames) /\ Len(s) \in Nat /\ Len(Tail(s)) = Len(s) - 1
      /\ \A i \in 1 .. Len(s) - 1 : Tail(s)[i] = s[i + 1]
  BY HeadTail DEF Stacked
<1>2. ASSUME Tail(s) # <<>> PROVE Waiting(Head(Tail(s)))
  <2>1. Len(Tail(s)) > 0 /\ Head(Tail(s)) = Tail(s)[1]
    BY <1>1, <1>2, HeadTail
  <2>2. 2 \in 2 .. Len(s) /\ Head(Tail(s)) = s[2]
    BY <1>1, <2>1
  <2>. QED BY <2>2 DEF Stacked
<1>. QED BY <1>2, StackPop, StackPush
-----------------------------------------------------------------------------
(* The links: each operation keeps the types and both ends. *)
Symmetric(n) == \A a \in Linked :
  /\ n.next[a] # NoNext => a \in n.prev[n.next[a]]
  /\ \A b \in n.jumps[a] \cup n.skips[a] \cup n.calls[a] : a \in n.from[b]

GoodNet(n) == n \in NetType(Linked) /\ Symmetric(n)

LEMMA NetInvIsGoodNet == (NetInv <=> GoodNet(net)) /\ (NetInv' <=> GoodNet(net'))
BY DEF NetInv, GoodNet, Symmetric, LinksHaveBothEnds

LEMMA LinkedFacts == Addrs \subseteq Linked /\ NoNext \notin Linked /\ Base .. Limit \subseteq Linked
BY SegmentAssumption DEF Addrs, Linked, NoNext

Out(n, x) == n.jumps[x] \cup n.skips[x] \cup n.calls[x]

LEMMA FlowKept ==
  ASSUME NEW n, GoodNet(n), NEW a \in Linked, NEW b \in Linked,
         NEW m \in NetType(Linked), m.next = n.next, m.prev = n.prev,
         \A x \in Linked : \A y \in Out(m, x) : y \in Out(n, x) \/ (x = a /\ y = b),
         \A y \in Linked : n.from[y] \subseteq m.from[y],
         a \in m.from[b]
  PROVE  GoodNet(m)
<1>1. ASSUME NEW x \in Linked, NEW y \in Out(m, x) PROVE x \in m.from[y]
  <2>1. y \in Linked
    BY DEF Out, NetType
  <2>2. CASE y \in Out(n, x)
    BY <2>1, <2>2 DEF GoodNet, Symmetric, Out
  <2>3. CASE y \notin Out(n, x)
    BY <2>3, <1>1
  <2>. QED BY <2>2, <2>3
<1>. QED BY <1>1 DEF GoodNet, Symmetric, Out

With(f, a, b) == [f EXCEPT ![a] = @ \cup {b}]

Extends(g, f, a, b) == \A x \in Linked : g[x] = (IF x = a THEN f[x] \cup {b} ELSE f[x])

LEMMA Extended ==
  ASSUME NEW f \in [Linked -> SUBSET Linked], NEW a \in Linked, NEW b
  PROVE  Extends(With(f, a, b), f, a, b)
BY DEF With, Extends

LEMMA NetFields ==
  ASSUME NEW n, GoodNet(n)
  PROVE  /\ n.jumps \in [Linked -> SUBSET Linked] /\ n.skips \in [Linked -> SUBSET Linked]
         /\ n.calls \in [Linked -> SUBSET Linked] /\ n.from \in [Linked -> SUBSET Linked]
         /\ n.refs \in [Linked -> SUBSET Linked] /\ n.prev \in [Linked -> SUBSET Linked]
         /\ n.next \in [Linked -> Linked \cup {NoNext}]
BY DEF GoodNet, NetType

LEMMA LinksKeep ==
  ASSUME NEW n, GoodNet(n), NEW a \in Linked, NEW b \in Linked
  PROVE  /\ GoodNet(LinkNext(n, a, b)) /\ GoodNet(LinkJump(n, a, b))
         /\ GoodNet(LinkSkip(n, a, b)) /\ GoodNet(LinkCall(n, a, b))
         /\ GoodNet(AddRef(n, a, b))
<1>1. GoodNet(LinkNext(n, a, b))
  <2> DEFINE m == LinkNext(n, a, b)
  <2>1. /\ m \in NetType(Linked) /\ m.jumps = n.jumps /\ m.skips = n.skips
        /\ m.calls = n.calls /\ m.from = n.from
        /\ m.next = [n.next EXCEPT ![a] = b] /\ m.prev = [n.prev EXCEPT ![b] = @ \cup {a}]
    <3>1. /\ [n.next EXCEPT ![a] = b] \in [Linked -> Linked \cup {NoNext}]
          /\ [n.prev EXCEPT ![b] = @ \cup {a}] \in [Linked -> SUBSET Linked]
      BY NetFields
    <3>. QED BY <3>1 DEF LinkNext, GoodNet, NetType
  <2> HIDE DEF m
  <2>2. \A x \in Linked :
          /\ m.next[x] = (IF x = a THEN b ELSE n.next[x])
          /\ m.prev[x] = (IF x = b THEN n.prev[x] \cup {a} ELSE n.prev[x])
    <3>1. n.next \in [Linked -> Linked \cup {NoNext}] /\ n.prev \in [Linked -> SUBSET Linked]
      BY NetFields
    <3>2. m.prev = With(n.prev, b, a)
      BY <2>1 DEF With
    <3>3. Extends(m.prev, n.prev, b, a)
      BY <3>1, <3>2, Extended
    <3>4. \A x \in Linked : m.next[x] = (IF x = a THEN b ELSE n.next[x])
      BY <2>1, <3>1
    <3>. QED BY <3>3, <3>4 DEF Extends
  <2>3. \A x \in Linked : m.next[x] # NoNext => m.next[x] \in Linked
    BY <2>1 DEF NetType
  <2>4. \A x \in Linked : m.next[x] # NoNext => x \in m.prev[m.next[x]]
    BY <2>2, <2>3 DEF GoodNet, Symmetric
  <2>. QED BY <2>1, <2>4 DEF GoodNet, Symmetric, m
<1>2. GoodNet(LinkJump(n, a, b))
  <2> DEFINE m == LinkJump(n, a, b)
  <2>1. /\ m \in NetType(Linked) /\ m.next = n.next /\ m.prev = n.prev
        /\ m.skips = n.skips /\ m.calls = n.calls
        /\ m.jumps = [n.jumps EXCEPT ![a] = @ \cup {b}]
        /\ m.from = [n.from EXCEPT ![b] = @ \cup {a}]
    <3>1. /\ [n.jumps EXCEPT ![a] = @ \cup {b}] \in [Linked -> SUBSET Linked]
          /\ [n.from EXCEPT ![b] = @ \cup {a}] \in [Linked -> SUBSET Linked]
          /\ [n.refs EXCEPT ![b] = @ \cup {a}] \in [Linked -> SUBSET Linked]
      BY DEF GoodNet, NetType
    <3>. QED BY <3>1 DEF LinkJump, GoodNet, NetType
  <2> HIDE DEF m
  <2>2. /\ \A x \in Linked : m.jumps[x] = (IF x = a THEN n.jumps[x] \cup {b} ELSE n.jumps[x])
        /\ \A x \in Linked : m.from[x] = (IF x = b THEN n.from[x] \cup {a} ELSE n.from[x])
    <3>1. n.jumps \in [Linked -> SUBSET Linked] /\ n.from \in [Linked -> SUBSET Linked]
      BY NetFields
    <3>2. m.jumps = With(n.jumps, a, b) /\ m.from = With(n.from, b, a)
      BY <2>1 DEF With
    <3>3. Extends(m.jumps, n.jumps, a, b) /\ Extends(m.from, n.from, b, a)
      BY <3>1, <3>2, Extended
    <3>. QED BY <3>3 DEF Extends
  <2>3. \A x \in Linked : \A y \in Out(m, x) : y \in Out(n, x) \/ (x = a /\ y = b)
    BY <2>1, <2>2 DEF Out
  <2>4. a \in m.from[b] /\ \A y \in Linked : n.from[y] \subseteq m.from[y]
    BY <2>2
  <2>5. m \in NetType(Linked) /\ m.next = n.next /\ m.prev = n.prev
    BY <2>1
  <2>6. GoodNet(m)
    BY <2>3, <2>4, <2>5, FlowKept
  <2>. QED BY <2>6 DEF m
<1>3. GoodNet(LinkSkip(n, a, b))
  <2> DEFINE m == LinkSkip(n, a, b)
  <2>1. /\ m \in NetType(Linked) /\ m.next = n.next /\ m.prev = n.prev
        /\ m.jumps = n.jumps /\ m.calls = n.calls
        /\ m.skips = [n.skips EXCEPT ![a] = @ \cup {b}]
        /\ m.from = [n.from EXCEPT ![b] = @ \cup {a}]
    <3>1. /\ [n.skips EXCEPT ![a] = @ \cup {b}] \in [Linked -> SUBSET Linked]
          /\ [n.from EXCEPT ![b] = @ \cup {a}] \in [Linked -> SUBSET Linked]
      BY DEF GoodNet, NetType
    <3>. QED BY <3>1 DEF LinkSkip, GoodNet, NetType
  <2> HIDE DEF m
  <2>2. /\ \A x \in Linked : m.skips[x] = (IF x = a THEN n.skips[x] \cup {b} ELSE n.skips[x])
        /\ \A x \in Linked : m.from[x] = (IF x = b THEN n.from[x] \cup {a} ELSE n.from[x])
    <3>1. n.skips \in [Linked -> SUBSET Linked] /\ n.from \in [Linked -> SUBSET Linked]
      BY NetFields
    <3>2. m.skips = With(n.skips, a, b) /\ m.from = With(n.from, b, a)
      BY <2>1 DEF With
    <3>3. Extends(m.skips, n.skips, a, b) /\ Extends(m.from, n.from, b, a)
      BY <3>1, <3>2, Extended
    <3>. QED BY <3>3 DEF Extends
  <2>3. \A x \in Linked : \A y \in Out(m, x) : y \in Out(n, x) \/ (x = a /\ y = b)
    BY <2>1, <2>2 DEF Out
  <2>4. a \in m.from[b] /\ \A y \in Linked : n.from[y] \subseteq m.from[y]
    BY <2>2
  <2>5. m \in NetType(Linked) /\ m.next = n.next /\ m.prev = n.prev
    BY <2>1
  <2>6. GoodNet(m)
    BY <2>3, <2>4, <2>5, FlowKept
  <2>. QED BY <2>6 DEF m
<1>4. GoodNet(LinkCall(n, a, b))
  <2> DEFINE m == LinkCall(n, a, b)
  <2>1. /\ m \in NetType(Linked) /\ m.next = n.next /\ m.prev = n.prev
        /\ m.jumps = n.jumps /\ m.skips = n.skips
        /\ m.calls = [n.calls EXCEPT ![a] = @ \cup {b}]
        /\ m.from = [n.from EXCEPT ![b] = @ \cup {a}]
    <3>1. /\ [n.calls EXCEPT ![a] = @ \cup {b}] \in [Linked -> SUBSET Linked]
          /\ [n.from EXCEPT ![b] = @ \cup {a}] \in [Linked -> SUBSET Linked]
          /\ [n.refs EXCEPT ![b] = @ \cup {a}] \in [Linked -> SUBSET Linked]
      BY DEF GoodNet, NetType
    <3>. QED BY <3>1 DEF LinkCall, GoodNet, NetType
  <2> HIDE DEF m
  <2>2. /\ \A x \in Linked : m.calls[x] = (IF x = a THEN n.calls[x] \cup {b} ELSE n.calls[x])
        /\ \A x \in Linked : m.from[x] = (IF x = b THEN n.from[x] \cup {a} ELSE n.from[x])
    <3>1. n.calls \in [Linked -> SUBSET Linked] /\ n.from \in [Linked -> SUBSET Linked]
      BY NetFields
    <3>2. m.calls = With(n.calls, a, b) /\ m.from = With(n.from, b, a)
      BY <2>1 DEF With
    <3>3. Extends(m.calls, n.calls, a, b) /\ Extends(m.from, n.from, b, a)
      BY <3>1, <3>2, Extended
    <3>. QED BY <3>3 DEF Extends
  <2>3. \A x \in Linked : \A y \in Out(m, x) : y \in Out(n, x) \/ (x = a /\ y = b)
    BY <2>1, <2>2 DEF Out
  <2>4. a \in m.from[b] /\ \A y \in Linked : n.from[y] \subseteq m.from[y]
    BY <2>2
  <2>5. m \in NetType(Linked) /\ m.next = n.next /\ m.prev = n.prev
    BY <2>1
  <2>6. GoodNet(m)
    BY <2>3, <2>4, <2>5, FlowKept
  <2>. QED BY <2>6 DEF m
<1>5. GoodNet(AddRef(n, a, b))
  <2> DEFINE m == AddRef(n, a, b)
  <2>1. /\ m \in NetType(Linked) /\ m.next = n.next /\ m.prev = n.prev
        /\ m.jumps = n.jumps /\ m.skips = n.skips /\ m.calls = n.calls /\ m.from = n.from
    BY DEF AddRef, GoodNet, NetType
  <2> HIDE DEF m
  <2>. QED BY <2>1 DEF GoodNet, Symmetric, m
<1>. QED BY <1>1, <1>2, <1>3, <1>4, <1>5

LEMMA UnlinkPrevsKeeps ==
  ASSUME NEW n, GoodNet(n), NEW F \in SUBSET Linked
  PROVE  /\ GoodNet(UnlinkPrevs(n, F))
         /\ \A a \in Linked : UnlinkPrevs(n, F).next[a] \notin F
<1> DEFINE m == UnlinkPrevs(n, F)
<1>1. /\ m \in NetType(Linked)
      /\ m.jumps = n.jumps /\ m.skips = n.skips /\ m.calls = n.calls /\ m.from = n.from
      /\ \A p \in Linked :
           m.next[p] = IF \E f \in F : GoesOnTo(n, p, f) THEN NoNext ELSE n.next[p]
      /\ \A a \in Linked :
           m.prev[a] = IF a \in F THEN {p \in n.prev[a] : ~GoesOnTo(n, p, a)} ELSE n.prev[a]
  BY DEF UnlinkPrevs, GoodNet, NetType
<1> HIDE DEF m
<1>2. ASSUME NEW a \in Linked, m.next[a] # NoNext
      PROVE  a \in m.prev[m.next[a]] /\ m.next[a] \notin F
  <2>1. m.next[a] = n.next[a] /\ n.next[a] \in Linked /\ a \in n.prev[n.next[a]]
    BY <1>1, <1>2 DEF GoodNet, Symmetric, NetType
  <2>. QED BY <1>1, <1>2, <2>1 DEF GoesOnTo
<1>3. ASSUME NEW a \in Linked
      PROVE  \A b \in m.jumps[a] \cup m.skips[a] \cup m.calls[a] : a \in m.from[b]
  BY <1>1 DEF GoodNet, Symmetric
<1>. QED BY <1>1, <1>2, <1>3, LinkedFacts DEF GoodNet, Symmetric, m

(* The blocks: a mark inside the segment keeps the tiling, and the code     *)
(* blocks whole when the code it marks is.                                  *)
LEMMA MarkKeepsCode ==
  ASSUME BlockInv, NEW s \in Nat, NEW e \in Nat, Base <= s, s < e, e <= Limit,
         NEW t \in BlockTypes, NEW i \in {0, 1},
         t = "Code" => e = s + program[s].size /\ ~program[s].invalid,
         blocks' = Mark(blocks, s, e, t, i), program' = program
  PROVE  BlockInv'
<1>1. Marked(blocks, blocks', Base, Limit, s, e, t, i)
  BY MarkResult, SegmentAssumption DEF BlockInv
<1>2. \A b \in blocks' :
        \/ b \in blocks
        \/ b.type = "Unknown" /\ b.info = 0
        \/ b.type = t /\ b.info = i /\ (t # "Unknown" => b.start = s /\ b.end = e)
  BY <1>1 DEF Marked
<1>3. \A b \in blocks' : b.info \in {0, 1}
  BY <1>2 DEF BlockInv
<1>4. ASSUME NEW b \in blocks', b.type = "Code" PROVE IsWhole(b)
  <2>1. CASE b \in blocks
    BY <2>1, <1>4 DEF BlockInv, CodeIsInstruction
  <2>2. CASE b \notin blocks
    <3>1. t = "Code" /\ b.start = s /\ b.end = e
      BY <2>2, <1>2, <1>4
    <3>2. s \in Addrs
      BY SegmentAssumption DEF Addrs
    <3>. QED BY <3>1, <3>2 DEF IsWhole
  <2>. QED BY <2>1, <2>2
<1>5. CodeIsInstruction'
  BY <1>4 DEF CodeIsInstruction, IsWhole
<1>. QED BY <1>1, <1>3, <1>5 DEF BlockInv, Marked
-----------------------------------------------------------------------------
(* The control state: queue and calls. *)
LEMMA QueueKept ==
  ASSUME NEW q \in Seq(Addrs), NEW a, NEW ok, ok => a \in Addrs
  PROVE  Front(q, a, ok) \in Seq(Addrs) /\ Back(q, a, ok) \in Seq(Addrs)
<1>1. CASE ok
  <2>1. <<a>> \o q \in Seq(Addrs) /\ Append(q, a) \in Seq(Addrs)
    BY <1>1
  <2>. QED BY <2>1, <1>1 DEF Front, Back
<1>2. CASE ~ok
  BY <1>2 DEF Front, Back
<1>. QED BY <1>1, <1>2

LEMMA ValidInSegment == ASSUME NEW a, NEW w, NEW L, NEW F, Valid(a, w, L, F) PROVE a \in Addrs
BY DEF Valid

LEMMA ProgramFacts ==
  ASSUME ControlInv, DataFits, NEW a \in Addrs
  PROVE  program[a] \in Instr /\ program[a].results \in Seq(Fitting)
<1>1. CASE program \in Programs
  BY <1>1, ProgramsAssumption DEF DataFits
<1>2. CASE program = NoProgram
  <2>1. program[a] = [size |-> 0, invalid |-> FALSE, slots |-> 0, results |-> <<>>]
    BY <1>2 DEF NoProgram
  <2>. QED BY <2>1 DEF Instr
<1>. QED BY <1>1, <1>2 DEF ControlInv

LEMMA NewFrame ==
  ASSUME ControlInv, DataFits, NEW a, Accepts(a, program[a], Limit - a)
  PROVE  Frame(a, program[a]) \in GoodFrames
<1> DEFINE in == program[a]
           f == Frame(a, in)
<1>1. a \in Addrs
  BY ValidInSegment DEF Accepts
<1>2. in \in Instr /\ in.results \in Seq(Fitting)
  BY <1>1, ProgramFacts
<1>3. in.size \in Nat /\ in.slots \in Nat /\ in.results \in Seq(Results)
  BY <1>2 DEF Instr
<1>4. in.size > 0 /\ in.size <= Limit - a
  BY DEF Accepts
<1> HIDE DEF in
<1>5. /\ f.at = a /\ f.in = in /\ f.marked = FALSE /\ f.slots = in.slots
      /\ f.next = a + in.size /\ f.left = in.results
  BY DEF Frame
<1>6. a + in.size \in Linked /\ a + in.size <= Limit
  BY <1>1, <1>3, <1>4, SegmentAssumption DEF Addrs, Linked
<1>7. f \in Frames
  BY <1>1, <1>2, <1>3, <1>6 DEF Frame, Frames
<1>8. Sane(f)
  BY <1>2, <1>4, <1>5, <1>6 DEF Sane, in
<1>. QED BY <1>7, <1>8 DEF GoodFrames, in

LEMMA FrameUpdates ==
  ASSUME NEW f \in GoodFrames
  PROVE  /\ [f EXCEPT !.marked = TRUE] \in GoodFrames
         /\ f.left # <<>> => [f EXCEPT !.left = Tail(@)] \in GoodFrames
         /\ f.marked => \A n \in Nat, x \in Linked :
                           [f EXCEPT !.slots = n, !.next = x] \in GoodFrames
         /\ f.marked => [f EXCEPT !.slots = 0] \in GoodFrames
<1>1. f \in Frames /\ Sane(f)
  BY DEF GoodFrames
<1>2. [f EXCEPT !.marked = TRUE] \in GoodFrames
  BY <1>1 DEF GoodFrames, Frames, Sane
<1>3. ASSUME f.left # <<>> PROVE [f EXCEPT !.left = Tail(@)] \in GoodFrames
  <2>1. Tail(f.left) \in Seq(Fitting) /\ Tail(f.left) \in Seq(Results)
    BY <1>1, <1>3, HeadTail DEF Sane, Frames
  <2>. QED BY <1>1, <2>1 DEF GoodFrames, Frames, Sane
<1>4. ASSUME f.marked, NEW n \in Nat, NEW x \in Linked
      PROVE  [f EXCEPT !.slots = n, !.next = x] \in GoodFrames
  <2> DEFINE g == [f EXCEPT !.slots = n, !.next = x]
  <2>1. /\ g \in Frames /\ g.at = f.at /\ g.in = f.in /\ g.left = f.left
        /\ g.marked = f.marked
    BY <1>1 DEF Frames
  <2>. QED BY <1>1, <1>4, <2>1 DEF GoodFrames, Sane
<1>5. ASSUME f.marked PROVE [f EXCEPT !.slots = 0] \in GoodFrames
  BY <1>1, <1>5 DEF GoodFrames, Frames, Sane
<1>. QED BY <1>2, <1>3, <1>4, <1>5

LEMMA FramesSame ==
  ASSUME program' = program
  PROVE  GoodFrames' = GoodFrames /\ (Stacked(stack)' <=> Stacked(stack'))
<1>1. GoodFrames' = GoodFrames
  BY DEF GoodFrames, Sane
<1>. QED BY <1>1 DEF Stacked, Waiting

LEMMA DecodeKept ==
  ASSUME ControlInv, DataFits, stack # <<>> => Waiting(Head(stack)),
         NEW a, NEW Refused,
         Decode(a, program[a], Limit - a, Refused), Refused => Stacked(stack') /\ sweep' = sweep
  PROVE  Stacked(stack') /\ sweep' = sweep
<1>1. CASE Accepts(a, program[a], Limit - a)
  <2>1. stack' = <<Frame(a, program[a])>> \o stack /\ sweep' = sweep
    BY <1>1 DEF Decode
  <2>. QED BY <2>1, <1>1, NewFrame, StackPush DEF ControlInv
<1>2. CASE ~Accepts(a, program[a], Limit - a)
  BY <1>2 DEF Decode
<1>. QED BY <1>1, <1>2

LEMMA StepControl ==
  ASSUME IInv, Next, DataFits, "sweep" \notin Requests
  PROVE  ControlInv'
<1> USE DEF IInv, algorithm, document
<1>0. /\ Stacked(stack) /\ pending \in Seq(Addrs) /\ sweep = NoSweep
      /\ program \in Programs \cup {NoProgram}
      /\ driver \in {"loader", "none", "engine", "user"}
  BY DEF ControlInv
<1>1. CASE Load
  <2>1. stack' = <<>> /\ pending' \in Seq(Addrs)
    BY <1>1 DEF Load, LoaderInv
  <2>2. Stacked(stack)'
    BY <2>1 DEF Stacked
  <2>. QED BY <1>0, <1>1, <2>1, <2>2 DEF Load, ControlInv, NoSweep
<1>2. ASSUME program' = program, Stacked(stack'), sweep' = sweep, pending' \in Seq(Addrs),
             driver' \in {"loader", "none", "engine", "user"}
      PROVE  ControlInv'
  BY <1>0, <1>2, FramesSame DEF ControlInv, NoSweep, NoProgram
<1>3. ASSUME stack # <<>>
      PROVE  Head(stack) \in GoodFrames /\ Stacked(Tail(stack)) /\
             \A f \in GoodFrames : Stacked(<<f>> \o Tail(stack))
  BY <1>0, <1>3, HeadTail, StackPop, StackReplace DEF Stacked
<1>4. CASE Drain \/ Drained
  BY <1>0, <1>2, <1>4 DEF Drain, Drained
<1>5. CASE NextPending
  <2>1. pending' \in Seq(Addrs) /\ stack = <<>>
    BY <1>0, <1>5, HeadTail DEF NextPending
  <2>2. Stacked(stack') /\ sweep' = sweep
    BY <1>0, <1>5, <2>1, DecodeKept DEF NextPending
  <2>. QED BY <1>0, <1>2, <1>5, <2>1, <2>2 DEF NextPending
<1>6. CASE SetCode
  <2>1. Stacked(stack')
    BY <1>3, <1>6, FrameUpdates DEF SetCode
  <2>. QED BY <1>0, <1>2, <1>6, <2>1 DEF SetCode
<1>7. CASE DelaySlot
  <2> DEFINE a == Head(stack).next
             stop == /\ stack' = <<[Head(stack) EXCEPT !.slots = 0]>> \o Tail(stack)
                     /\ UNCHANGED sweep
  <2>1. stack # <<>> /\ Waiting(Head(stack))
    BY <1>7 DEF DelaySlot, Waiting
  <2>2. stop => Stacked(stack') /\ sweep' = sweep
    BY <1>3, <2>1, FrameUpdates DEF Waiting
  <2>3. IF a \in Addrs THEN Decode(a, program[a], Limit - a, stop) ELSE stop
    BY <1>7 DEF DelaySlot
  <2> HIDE DEF stop, a
  <2>4. Stacked(stack') /\ sweep' = sweep
    BY <2>1, <2>2, <2>3, DecodeKept
  <2>. QED BY <1>0, <1>2, <1>7, <2>4 DEF DelaySlot
<1>8. CASE ProcessResult
  <2>1. Stacked(stack')
    BY <1>3, <1>8, FrameUpdates DEF ProcessResult
  <2>2. pending' \in Seq(Addrs)
    BY <1>0, <1>8, QueueKept, ValidInSegment
    DEF ProcessResult, Branch, BranchFalse, Call, CheckLocation, CheckString
  <2>. QED BY <1>0, <1>2, <1>8, <2>1, <2>2 DEF ProcessResult
<1>9. CASE Finish
  <2> DEFINE f == Head(stack)
             rest == Tail(stack)
             flows == CanFlow(f.in)
             caller == Head(rest)
  <2>1. stack # <<>> /\ f \in GoodFrames /\ Stacked(rest)
    BY <1>3, <1>9 DEF Finish
  <2>2. CASE rest # <<>>
    <3>1. caller \in GoodFrames /\ Waiting(caller)
      <4>1. /\ stack \in Seq(GoodFrames) /\ rest \in Seq(GoodFrames)
            /\ Len(stack) \in Nat /\ Len(rest) = Len(stack) - 1 /\ Len(rest) > 0
            /\ \A i \in 1 .. Len(stack) - 1 : rest[i] = stack[i + 1]
            /\ caller \in GoodFrames /\ caller = rest[1]
        BY <1>0, <2>1, <2>2, HeadTail DEF Stacked
      <4>2. 2 \in 2 .. Len(stack) /\ caller = stack[2]
        BY <4>1
      <4>. QED BY <1>0, <4>1, <4>2 DEF Stacked
    <3>2. caller.slots - 1 \in Nat /\ f.next \in Linked /\ caller.next \in Linked
      <4>1. f \in Frames /\ caller \in Frames /\ caller.slots > 0
        BY <2>1, <3>1 DEF GoodFrames, Waiting
      <4>2. caller.slots \in Nat /\ f.next \in Linked /\ caller.next \in Linked
        BY <4>1 DEF Frames
      <4>3. \A n \in Nat : n > 0 => n - 1 \in Nat
        OBVIOUS
      <4>. QED BY <4>1, <4>2, <4>3, Zenon
    <3>3. [caller EXCEPT !.slots = IF flows THEN @ - 1 ELSE 0,
                         !.next = IF flows THEN f.next ELSE @] \in GoodFrames
      <4>1. CASE flows
        BY <3>1, <3>2, <4>1, FrameUpdates DEF Waiting
      <4>2. CASE ~flows
        BY <3>1, <3>2, <4>2, FrameUpdates DEF Waiting
      <4>. QED BY <4>1, <4>2
    <3>4. Stacked(stack')
      BY <1>9, <2>1, <2>2, <3>3, StackReplace DEF Finish
    <3>. QED BY <1>0, <1>2, <1>9, <2>2, <3>4 DEF Finish
  <2>3. CASE rest = <<>>
    <3>1. stack' = rest /\ ~(sweep.pos < sweep.end)
      BY <1>0, <1>9, <2>3, SegmentAssumption DEF Finish, NoSweep
    <3>2. sweep' = sweep /\ pending' \in Seq(Addrs)
      BY <1>0, <1>9, <2>3, <3>1, QueueKept, ValidInSegment DEF Finish
    <3>. QED BY <1>0, <1>2, <1>9, <2>1, <3>1, <3>2 DEF Finish
  <2>. QED BY <2>2, <2>3
<1>10. CASE SweepStep
  BY <1>0, <1>10 DEF SweepStep
<1>11. CASE Request
  <2>1. CASE FunctionBounds
    BY <1>0, <1>2, <2>1 DEF FunctionBounds
  <2>2. ASSUME NEW a \in Addrs, Enqueue(a) \/ DisassembleAt(a) PROVE ControlInv'
    BY <1>0, <1>2, <2>2, QueueKept, ValidInSegment DEF Enqueue, DisassembleAt
  <2>3. ASSUME NEW a \in Addrs, SetLabel(a) \/ SetData(a) \/ SetFunction(a) PROVE ControlInv'
    BY <1>0, <1>2, <2>3 DEF SetLabel, SetData, SetFunction
  <2>. QED BY <1>11, <2>1, <2>2, <2>3 DEF Request, DisassembleBlock
<1>. QED BY <1>1, <1>4, <1>5, <1>6, <1>7, <1>8, <1>9, <1>10, <1>11 DEF Next, Step
-----------------------------------------------------------------------------
(* The loader comes first, and nothing happens before it is done. *)
LEMMA LoaderFirst ==
  ASSUME IInv, Next
  PROVE  driver' # "loader" /\ (driver = "loader" => Load)
<1> USE DEF IInv, LoaderInv, algorithm, document
<1>1. CASE Load
  BY <1>1 DEF Load
<1>2. CASE Step
  BY <1>2 DEF Step, Drain, NextPending, SetCode, DelaySlot, ProcessResult, Finish,
              SweepStep, Drained, Draining
<1>3. CASE Request
  BY <1>3 DEF Request, FunctionBounds, Enqueue, DisassembleAt, DisassembleBlock,
              SetLabel, SetData, SetFunction
<1>. QED BY <1>1, <1>2, <1>3 DEF Next

LEMMA StepLoader == ASSUME IInv, Next PROVE LoaderInv'
BY LoaderFirst DEF LoaderInv

(* The labels. *)
LEMMA LabelsGrow ==
  ASSUME LabelInv, NEW t \in Addrs, NEW w,
         (labels' = labels /\ facts' = facts) \/ SetLabels({t}, w),
         strings' = strings \/ (strings' = strings \cup {t} /\ SetLabels({t}, w)),
         functions' = functions \/ (functions' = functions \cup {t} /\ SetLabels({t}, w))
  PROVE  LabelInv'
<1>1. SetLabels({t}, w) => labels' = labels \cup {t} /\ facts' \subseteq facts \cup {t}
  BY DEF SetLabels, Labelled
<1>. QED BY <1>1 DEF LabelInv

(* The result that decode processes next. *)
LEMMA NextResult ==
  ASSUME IInv, ProcessResult
  PROVE  Head(stack).at \in Addrs /\ Head(Head(stack).left) \in Fitting
<1>1. stack \in Seq(GoodFrames) /\ stack # <<>> /\ Head(stack).left # <<>>
  BY DEF IInv, ControlInv, Stacked, ProcessResult
<1>2. Head(stack) \in GoodFrames
  BY <1>1, HeadTail
<1>3. Head(stack).at \in Addrs /\ Head(stack).left \in Seq(Fitting)
  BY <1>2 DEF GoodFrames, Frames, Sane
<1>. QED BY <1>1, <1>3, HeadTail

LEMMA StepLabels == ASSUME IInv, Next PROVE LabelInv'
<1> USE DEF IInv, algorithm, document
<1>0. ASSUME UNCHANGED <<labels, facts, strings, functions>> PROVE LabelInv'
  BY <1>0 DEF LabelInv
<1>1. CASE Load
  <2>1. driver = "loader" /\ strings = {}
    BY <1>1 DEF Load, LoaderInv
  <2>. QED BY <1>1, <2>1 DEF Load, LabelInv
<1>2. CASE ProcessResult
  <2> DEFINE from == Head(stack).at
             r == Head(Head(stack).left)
  <2>1. CASE r.to \in Addrs
    <3>1. \/ UNCHANGED <<labels, facts, strings, functions>>
          \/ Branch(from, r.to) \/ BranchFalse(from, r.to) \/ Call(from, r.to)
          \/ CheckLocation(from, r.to, DataSize(r), r.kind = "RefData")
          \/ CheckString(from, r.to, r.size)
      BY <1>2 DEF ProcessResult, DataSize
    <3> HIDE DEF r, from
    <3>2. CASE UNCHANGED <<labels, facts, strings, functions>>
      BY <1>0, <3>2
    <3>3. CASE Branch(from, r.to) \/ BranchFalse(from, r.to)
      BY <2>1, <3>3, LabelsGrow DEF Branch, BranchFalse
    <3>4. CASE Call(from, r.to)
      BY <2>1, <3>4, LabelsGrow DEF Call
    <3>5. CASE CheckLocation(from, r.to, DataSize(r), r.kind = "RefData")
      BY <2>1, <3>5, LabelsGrow DEF CheckLocation
    <3>6. CASE CheckString(from, r.to, r.size)
      BY <2>1, <3>6, LabelsGrow DEF CheckString
    <3>. QED BY <3>1, <3>2, <3>3, <3>4, <3>5, <3>6
  <2>2. CASE r.to \notin Addrs
    BY <1>0, <1>2, <2>2 DEF ProcessResult
  <2>. QED BY <2>1, <2>2
<1>3. CASE Drain \/ NextPending \/ SetCode \/ DelaySlot \/ Finish \/ SweepStep \/ Drained
  BY <1>0, <1>3 DEF Drain, NextPending, SetCode, DelaySlot, Finish, SweepStep, Drained
<1>4. CASE Request
  <2>1. CASE FunctionBounds
    BY <1>0, <2>1 DEF FunctionBounds
  <2>2. ASSUME NEW a \in Addrs, Enqueue(a) \/ DisassembleAt(a) \/ DisassembleBlock(a)
        PROVE  LabelInv'
    BY <1>0, <2>2 DEF Enqueue, DisassembleAt, DisassembleBlock
  <2>3. ASSUME NEW a \in Addrs, SetLabel(a) \/ SetData(a) \/ SetFunction(a)
        PROVE  LabelInv'
    BY <2>3, LabelsGrow DEF SetLabel, SetData, SetFunction
  <2>. QED BY <1>4, <2>1, <2>2, <2>3 DEF Request
<1>. QED BY <1>1, <1>2, <1>3, <1>4 DEF Next, Step
-----------------------------------------------------------------------------
(* The blocks. *)
LEMMA StepBlocks ==
  ASSUME IInv, Next, "sweep" \notin Requests
  PROVE  BlockInv'
<1> USE DEF IInv, algorithm, document
<1>0. ASSUME UNCHANGED <<program, blocks>> PROVE BlockInv'
  BY <1>0 DEF BlockInv, CodeIsInstruction, IsWhole
<1>1. CASE Load
  <2>1. blocks = {NewBlock(Base, Limit, "Unknown", 0)} /\ blocks' = blocks
    BY <1>1 DEF Load, LoaderInv
  <2>2. CodeIsInstruction'
    BY <2>1 DEF CodeIsInstruction, NewBlock
  <2>. QED BY <2>1, <2>2 DEF BlockInv
<1>2. CASE SetCode
  <2> DEFINE f == Head(stack)
  <2>1. f \in GoodFrames /\ ~f.marked /\ program' = program
        /\ blocks' = IF f.in.invalid THEN blocks ELSE Mark(blocks, f.at, f.next, "Code", 1)
    BY <1>2, HeadTail DEF SetCode, ControlInv, Stacked
  <2> HIDE DEF f
  <2>2. /\ f.at \in Nat /\ f.in = program[f.at] /\ f.in.size \in Nat /\ f.in.size > 0
        /\ Base <= f.at /\ f.next = f.at + f.in.size /\ f.next <= Limit
    BY <2>1, SegmentAssumption DEF GoodFrames, Frames, Sane, Addrs, Instr
  <2>3. CASE f.in.invalid
    BY <1>0, <2>1, <2>3
  <2>4. CASE ~f.in.invalid
    <3>1. f.next \in Nat /\ f.at < f.next
      BY <2>2
    <3>2. blocks' = Mark(blocks, f.at, f.next, "Code", 1)
      BY <2>1, <2>4
    <3>. QED BY <2>1, <2>2, <2>4, <3>1, <3>2, MarkKeepsCode DEF BlockTypes
  <2>. QED BY <2>3, <2>4
<1>3. ASSUME NEW t \in Addrs, NEW n \in Nat \ {0}, t + n <= Limit,
             NEW type \in {"Data", "String"},
             blocks' = Mark(blocks, t, t + n, type, 0), program' = program
      PROVE  BlockInv'
  <2>1. t \in Nat /\ t + n \in Nat /\ Base <= t /\ t < t + n
    BY SegmentAssumption DEF Addrs
  <2>. QED BY <1>3, <2>1, MarkKeepsCode DEF BlockTypes
<1>4. CASE ProcessResult
  <2> DEFINE from == Head(stack).at
             r == Head(Head(stack).left)
  <2>1. /\ r \in Fitting /\ program' = program
        /\ \/ blocks' = blocks
           \/ r.to \in Addrs /\ CheckLocation(from, r.to, DataSize(r), r.kind = "RefData")
           \/ r.to \in Addrs /\ CheckString(from, r.to, r.size)
    BY <1>4, NextResult
    DEF ProcessResult, Branch, BranchFalse, Call, DataSize
  <2> HIDE DEF r, from
  <2>2. r.size \in Nat /\ DataSize(r) \in Nat \ {0} /\ (r.size # 0 => DataSize(r) = r.size)
    BY <2>1, SegmentAssumption DEF Fitting, Results, DataSize
  <2>3. r.to \in Addrs => r.to + DataSize(r) <= Limit
    BY <2>1 DEF Fitting
  <2>4. CASE blocks' = blocks
    BY <1>0, <2>1, <2>4
  <2>5. CASE r.to \in Addrs /\ CheckLocation(from, r.to, DataSize(r), r.kind = "RefData")
    BY <1>0, <1>3, <2>1, <2>2, <2>3, <2>5 DEF CheckLocation
  <2>6. CASE r.to \in Addrs /\ CheckString(from, r.to, r.size)
    BY <1>0, <1>3, <2>1, <2>2, <2>3, <2>6 DEF CheckString
  <2>. QED BY <2>1, <2>4, <2>5, <2>6
<1>5. CASE Drain \/ NextPending \/ DelaySlot \/ Finish \/ SweepStep \/ Drained
  BY <1>0, <1>5 DEF Drain, NextPending, DelaySlot, Finish, SweepStep, Drained
<1>6. CASE Request
  <2>1. ASSUME NEW a \in Addrs, SetData(a) PROVE BlockInv'
    <3>1. a + 1 <= Limit
      BY SegmentAssumption DEF Addrs
    <3>. QED BY <1>3, <2>1, <3>1 DEF SetData
  <2>. QED BY <1>0, <1>6, <2>1 DEF Request, FunctionBounds, Enqueue, DisassembleAt,
              DisassembleBlock, SetLabel, SetFunction
<1>. QED BY <1>1, <1>2, <1>4, <1>5, <1>6 DEF Next, Step

(* The links. *)
LEMMA StepNet == ASSUME IInv, Next PROVE GoodNet(net')
<1> USE DEF IInv, algorithm, document
<1>0. GoodNet(net) /\ functions \subseteq Linked
  BY NetInvIsGoodNet, LinkedFacts DEF LabelInv
<1>1. ASSUME stack # <<>> PROVE Head(stack).at \in Linked /\ Head(stack).next \in Linked
  <2>1. Head(stack) \in GoodFrames
    BY <1>1, HeadTail DEF ControlInv, Stacked
  <2>. QED BY <2>1, LinkedFacts DEF GoodFrames, Frames
<1>2. CASE SetCode
  BY <1>0, <1>1, <1>2, LinksKeep DEF SetCode
<1>3. CASE ProcessResult
  <2> DEFINE from == Head(stack).at
             r == Head(Head(stack).left)
  <2>1. from \in Linked
    BY <1>1, <1>3 DEF ProcessResult
  <2>2. \/ net' = net
        \/ /\ r.to \in Addrs
           /\ \/ net' = LinkJump(net, from, r.to) \/ net' = LinkSkip(net, from, r.to)
              \/ net' = LinkCall(net, from, r.to) \/ net' = AddRef(net, from, r.to)
    BY <1>3 DEF ProcessResult, Branch, BranchFalse, Call, CheckLocation, CheckString
  <2> HIDE DEF from, r
  <2>. QED BY <1>0, <2>1, <2>2, LinksKeep, LinkedFacts
<1>4. CASE Finish
  <2> DEFINE f == Head(stack)
             l == LinkNext(net, f.at, f.next)
  <2>1. f.at \in Linked /\ f.next \in Linked
    BY <1>1, <1>4 DEF Finish
  <2>2. net' = net \/ net' = l \/ net' = LinkNext(l, f.at, f.next)
    BY <1>4 DEF Finish
  <2> HIDE DEF f
  <2>3. GoodNet(l) /\ GoodNet(LinkNext(l, f.at, f.next))
    BY <1>0, <2>1, LinksKeep
  <2>. QED BY <1>0, <2>2, <2>3
<1>5. CASE Load \/ Drain \/ NextPending \/ DelaySlot \/ SweepStep \/ Drained
  BY <1>0, <1>5 DEF Load, Drain, NextPending, DelaySlot, SweepStep, Drained
<1>6. CASE Request
  <2>1. CASE FunctionBounds
    BY <1>0, <2>1, UnlinkPrevsKeeps DEF FunctionBounds
  <2>. QED BY <1>0, <1>6, <2>1 DEF Request, Enqueue, DisassembleAt, DisassembleBlock,
              SetLabel, SetData, SetFunction
<1>. QED BY <1>2, <1>3, <1>4, <1>5, <1>6 DEF Next, Step
-----------------------------------------------------------------------------
LEMMA InitIInv == ASSUME Init PROVE IInv
<1> DEFINE new == NewBlock(Base, Limit, "Unknown", 0)
<1>1. ControlInv /\ LoaderInv /\ LabelInv
  BY DEF Init, ControlInv, LoaderInv, LabelInv, Stacked
<1>2. BlockInv
  <2>1. /\ new \in Block /\ new.start = Base /\ new.end = Limit
        /\ new.type = "Unknown" /\ new.info = 0 /\ Base < Limit
    BY SegmentAssumption DEF NewBlock, Block, BlockTypes
  <2> HIDE DEF new
  <2>2. blocks = {new}
    BY DEF Init, new
  <2>3. Sound(blocks) /\ Within(blocks, Base, Limit)
    BY <2>1, <2>2, SegmentAssumption DEF Sound, Within
  <2>4. Covers(blocks, Base, Limit)
    BY <2>1, <2>2, SegmentAssumption DEF Covers, Contains
  <2>5. CodeIsInstruction /\ \A b \in blocks : b.info \in {0, 1}
    BY <2>1, <2>2 DEF CodeIsInstruction
  <2>. QED BY <2>3, <2>4, <2>5 DEF BlockInv, Tiles
<1>3. NetInv
  BY DEF Init, NetInv, LinksHaveBothEnds, EmptyNet, NetType
<1>. QED BY <1>1, <1>2, <1>3 DEF IInv

(* The invariant: decoding and all requests but sweeps keep it. *)
THEOREM Invariance == ASSUME DataFits, "sweep" \notin Requests PROVE Spec => []IInv
<1>1. ASSUME IInv, Next PROVE IInv'
  BY <1>1, StepControl, StepLoader, StepLabels, StepBlocks, StepNet, NetInvIsGoodNet DEF IInv
<1>2. ASSUME IInv, UNCHANGED vars PROVE IInv'
  BY <1>2 DEF IInv, ControlInv, LoaderInv, LabelInv, BlockInv, NetInv, vars, algorithm,
     document, Stacked, GoodFrames, Sane, Waiting, CodeIsInstruction, IsWhole,
     LinksHaveBothEnds
<1>3. IInv /\ [Next]_vars => IInv'
  BY <1>1, <1>2
<1>. QED BY InitIInv, <1>3, PTL DEF Spec

(* The state keeps its types: no decode, datum or string gets out of the    *)
(* segment.                                                                 *)
THEOREM TypeCorrect == ASSUME DataFits, "sweep" \notin Requests PROVE Spec => []TypeOK
<1>1. ASSUME IInv PROVE TypeOK
  <2>1. stack \in Seq(Frames) /\ \A i \in 2 .. Len(stack) : stack[i].slots > 0
    BY <1>1 DEF IInv, ControlInv, Stacked, GoodFrames, Waiting
  <2>2. sweep \in [at : Nat, pos : Base .. Limit, end : Base .. Limit]
    BY <1>1, SegmentAssumption DEF IInv, ControlInv, NoSweep
  <2>3. ControlType
    BY <1>1, <2>1, <2>2 DEF IInv, ControlInv, NetInv, ControlType
  <2>4. \A b \in blocks : b \in [start : Base .. Limit, end : Base .. Limit,
                                 type : BlockTypes, info : {0, 1}]
    <3> TAKE b \in blocks
    <3>1. b \in Block /\ b.start < b.end /\ Base <= b.start /\ b.end <= Limit /\ b.info \in {0, 1}
      BY <1>1 DEF IInv, BlockInv, Tiles, Sound, Within
    <3>2. b.start \in Base .. Limit /\ b.end \in Base .. Limit
      BY <3>1, SegmentAssumption DEF Block
    <3>. QED BY <3>1, <3>2 DEF Block
  <2>. QED BY <1>1, <2>3, <2>4 DEF TypeOK, DocumentType, IInv, LabelInv, LoaderInv
<1>. QED BY <1>1, Invariance, PTL

(* Every code block is one instruction of the program. *)
THEOREM CodeWhole == ASSUME DataFits, "sweep" \notin Requests PROVE Spec => []CodeIsInstruction
<1>1. IInv => CodeIsInstruction
  BY DEF IInv, BlockInv
<1>. QED BY <1>1, Invariance, PTL

(* Every link has both ends. *)
THEOREM BothEnds == ASSUME DataFits, "sweep" \notin Requests PROVE Spec => []LinksHaveBothEnds
<1>1. IInv => LinksHaveBothEnds
  BY DEF IInv, NetInv
<1>. QED BY <1>1, Invariance, PTL

(* After cfgStep nothing goes on into a function. *)
THEOREM FunctionsAlone ==
  ASSUME DataFits, "sweep" \notin Requests PROVE Spec => FunctionsStandAlone
<1>1. IInv /\ [Next]_vars
        => [FunctionBounds => \A a \in Linked : net'.next[a] \notin functions]_vars
  <2> SUFFICES ASSUME IInv, FunctionBounds
               PROVE  \A a \in Linked : net'.next[a] \notin functions
    OBVIOUS
  <2>1. GoodNet(net) /\ functions \in SUBSET Linked
    BY NetInvIsGoodNet, LinkedFacts DEF IInv, LabelInv
  <2>2. net' = UnlinkPrevs(net, functions)
    BY DEF FunctionBounds
  <2>. QED BY <2>1, <2>2, UnlinkPrevsKeeps
<1>. QED BY <1>1, Invariance, PTL DEF FunctionsStandAlone, Spec

-----------------------------------------------------------------------------
(* What is explored.  Everything that decoded code leads to was decoded,    *)
(* cannot be, or is still awaited: in the queue, about to be marked, or     *)
(* among what a call of decode has left to do.                              *)
InQueue(q, t) == \E i \in DOMAIN q : q[i] = t

Entered(s, t) == s # <<>> /\ ~s[1].marked /\ s[1].at = t

Awaited(t) == ~Missed(t) \/ InQueue(pending, t) \/ Entered(stack, t)

LeftOver(s, a, t) ==
  \E i \in 1 .. Len(s) : s[i].marked /\ s[i].at = a /\ t \in Forked(s[i].left)

GoesOn(s, a, t) ==
  s # <<>> /\ s[Len(s)].marked /\ s[Len(s)].at = a /\ s[Len(s)].next = t

ForksInv ==
  \A a \in past.decoded : \A t \in Forked(program[a].results) : Awaited(t) \/ LeftOver(stack, a, t)

FlowInv ==
  \A a \in past.taken : CanFlow(program[a]) =>
    Awaited(a + program[a].size) \/ GoesOn(stack, a, a + program[a].size)

(* A call that is not marked has all of its results left, and a call for a  *)
(* delay slot is where the one below it goes on.                            *)
Fresh(s) == \A i \in 1 .. Len(s) : s[i].marked \/ s[i].left = program[s[i].at].results

Linear(s) == \A i \in 1 .. Len(s) - 1 : s[i].at = s[i + 1].next

Recorded ==
  /\ Covered \subseteq past.covered
  /\ \A i \in 1 .. Len(stack) : stack[i].marked => stack[i].at \in past.decoded
  /\ stack # <<>> /\ stack[Len(stack)].marked => stack[Len(stack)].at \in past.taken

Idle ==
  /\ driver \in {"none", "loader"} => stack = <<>>
  /\ driver = "loader" => past = NoPast

EInv == ForksInv /\ FlowInv /\ Fresh(stack) /\ Linear(stack) /\ Recorded /\ Idle

LEMMA NoCalls == ASSUME NEW F, NEW s \in Seq(F) PROVE s = <<>> <=> Len(s) = 0
OBVIOUS

LEMMA StackFacts ==
  ASSUME IInv
  PROVE  /\ stack \in Seq(GoodFrames) /\ Len(stack) \in Nat /\ DOMAIN stack = 1 .. Len(stack)
         /\ stack # <<>> => Len(stack) > 0
         /\ pending \in Seq(Addrs)
BY DEF IInv, ControlInv, Stacked

(* What the history has gained in a step. *)
LEMMA PastGains ==
  ASSUME HistoryNext, stack' \in Seq(GoodFrames)
  PROVE  /\ past.covered \subseteq past'.covered /\ past.decoded \subseteq past'.decoded
         /\ past.taken \subseteq past'.taken
         /\ Recorded'
         /\ \A a \in past'.decoded :
              a \in past.decoded \/ \E i \in 1 .. Len(stack') : stack'[i].marked /\ stack'[i].at = a
         /\ \A a \in past'.taken :
              \/ a \in past.taken
              \/ stack' # <<>> /\ stack'[Len(stack')].marked /\ stack'[Len(stack')].at = a
<1>1. past' = [covered |-> past.covered \cup Covered',
               decoded |-> past.decoded \cup MarkedAt(DOMAIN stack)',
               taken |-> past.taken \cup MarkedAt({Len(stack)})']
  BY DEF HistoryNext, Remember
<1>2. /\ DOMAIN stack' = 1 .. Len(stack') /\ Len(stack') \in Nat
      /\ stack' # <<>> <=> Len(stack') > 0
  OBVIOUS
<1>3. MarkedAt(DOMAIN stack)' = {stack'[i].at : i \in {j \in 1 .. Len(stack') : stack'[j].marked}}
  BY <1>2 DEF MarkedAt
<1>4. MarkedAt({Len(stack)})' =
        {stack'[i].at : i \in {j \in (1 .. Len(stack')) \cap {Len(stack')} : stack'[j].marked}}
  BY <1>2 DEF MarkedAt
<1>5. \A a : a \in MarkedAt({Len(stack)})' <=>
        stack' # <<>> /\ stack'[Len(stack')].marked /\ stack'[Len(stack')].at = a
  <2> DEFINE n == Len(stack')
             I == {j \in (1 .. n) \cap {n} : stack'[j].marked}
  <2>1. \A j : j \in I <=> j = n /\ stack' # <<>> /\ stack'[n].marked
    BY <1>2
  <2>2. MarkedAt({Len(stack)})' = {stack'[i].at : i \in I}
    BY <1>4
  <2> HIDE DEF I, n
  <2>3. \A a : a \in {stack'[i].at : i \in I} <=> stack' # <<>> /\ stack'[n].marked /\ stack'[n].at = a
    BY <2>1
  <2>. QED BY <2>2, <2>3 DEF n
<1>. QED BY <1>1, <1>2, <1>3, <1>5 DEF Recorded

(* Queues. *)
LEMMA QueueGains ==
  ASSUME NEW q \in Seq(Addrs), NEW a, NEW ok \in BOOLEAN, ok => a \in Addrs
  PROVE  /\ \A t : InQueue(q, t) => InQueue(Front(q, a, ok), t) /\ InQueue(Back(q, a, ok), t)
         /\ ok => InQueue(Front(q, a, ok), a) /\ InQueue(Back(q, a, ok), a)
<1>1. CASE ok
  <2>1. /\ Front(q, a, ok) = <<a>> \o q /\ Back(q, a, ok) = Append(q, a)
        /\ Len(q) \in Nat /\ DOMAIN q = 1 .. Len(q)
    BY <1>1 DEF Front, Back
  <2>2. /\ DOMAIN (<<a>> \o q) = 1 .. Len(q) + 1 /\ (<<a>> \o q)[1] = a
        /\ \A i \in 1 .. Len(q) : (<<a>> \o q)[i + 1] = q[i]
    BY <1>1
  <2>3. /\ DOMAIN Append(q, a) = 1 .. Len(q) + 1 /\ Append(q, a)[Len(q) + 1] = a
        /\ \A i \in 1 .. Len(q) : Append(q, a)[i] = q[i]
    BY <1>1
  <2>4. \A i \in 1 .. Len(q) : i + 1 \in 1 .. Len(q) + 1 /\ i \in 1 .. Len(q) + 1
    BY <2>1
  <2>5. ASSUME NEW t, InQueue(q, t)
        PROVE  InQueue(Front(q, a, ok), t) /\ InQueue(Back(q, a, ok), t)
    <3>1. PICK i \in 1 .. Len(q) : q[i] = t
      BY <2>1, <2>5 DEF InQueue
    <3>2. (<<a>> \o q)[i + 1] = t /\ Append(q, a)[i] = t
      BY <2>2, <2>3, <3>1
    <3>. QED BY <2>1, <2>2, <2>3, <2>4, <3>2 DEF InQueue
  <2>6. 1 \in 1 .. Len(q) + 1 /\ Len(q) + 1 \in 1 .. Len(q) + 1
    BY <2>1
  <2>7. InQueue(Front(q, a, ok), a) /\ InQueue(Back(q, a, ok), a)
    BY <2>1, <2>2, <2>3, <2>6 DEF InQueue
  <2>. QED BY <2>5, <2>7
<1>2. CASE ~ok
  BY <1>2 DEF Front, Back
<1>. QED BY <1>1, <1>2

LEMMA QueueLoses ==
  ASSUME NEW q \in Seq(Addrs), q # <<>>, NEW t, InQueue(q, t)
  PROVE  t = Head(q) \/ InQueue(Tail(q), t)
<1>1. PICK i \in DOMAIN q : q[i] = t
  BY DEF InQueue
<1>2. /\ Head(q) = q[1] /\ DOMAIN q = 1 .. Len(q) /\ Len(q) \in Nat
      /\ DOMAIN Tail(q) = 1 .. Len(q) - 1
      /\ \A j \in 1 .. Len(q) - 1 : Tail(q)[j] = q[j + 1]
  OBVIOUS
<1>3. CASE i # 1
  <2>1. i - 1 \in 1 .. Len(q) - 1 /\ (i - 1) + 1 = i
    BY <1>1, <1>2, <1>3
  <2>. QED BY <1>1, <1>2, <2>1 DEF InQueue
<1>. QED BY <1>1, <1>2, <1>3

(* What isAddressValid refuses holds something. *)
LEMMA RefusedIsCovered ==
  ASSUME BlockInv, Covered \subseteq past.covered, NEW a \in Addrs,
         NEW w, NEW L, NEW F, ~Valid(a, w, L, F)
  PROVE  a \in past.covered
<1>1. PICK b \in blocks : Contains(b, a)
  BY DEF BlockInv, Tiles, Covers, Addrs
<1>2. {c \in blocks : Contains(c, a)} = {b}
  BY <1>1, HoldsOne, SegmentAssumption DEF BlockInv, Tiles, Addrs
<1>3. BlockAt(a) = b
  BY <1>2 DEF BlockAt, Get
<1>4. b.type # "Unknown"
  BY <1>3 DEF Valid
<1>5. a \in Covered
  BY <1>1, <1>4 DEF Covered, Contains
<1>. QED BY <1>5

(* What each step does to the queue and to the calls of decode.             *)
QueueKeeps == \A t : InQueue(pending, t) => InQueue(pending', t)

Pushes(a) == stack' = <<Frame(a, program[a])>> \o stack /\ Frame(a, program[a]) \in GoodFrames

Replaces(g) == stack' = <<g>> \o Tail(stack) /\ g \in GoodFrames

Quiet == stack' = stack /\ QueueKeeps

Takes ==
  /\ stack = <<>> /\ pending # <<>> /\ pending' = Tail(pending)
  /\ Pushes(Head(pending)) \/ (stack' = stack /\ ~Missed(Head(pending)))

Marks ==
  /\ stack # <<>> /\ ~stack[1].marked /\ QueueKeeps
  /\ Replaces([stack[1] EXCEPT !.marked = TRUE])

Slots ==
  /\ stack # <<>> /\ stack[1].marked /\ QueueKeeps
  /\ Pushes(stack[1].next) \/ Replaces([stack[1] EXCEPT !.slots = 0])

Handles ==
  /\ stack # <<>> /\ stack[1].marked /\ QueueKeeps /\ stack[1].left # <<>>
  /\ Replaces([stack[1] EXCEPT !.left = Tail(@)])
  /\ LET r == Head(stack[1].left)
     IN  r.kind \in Forks => InQueue(pending', r.to) \/ ~Missed(r.to)

Returns ==
  /\ stack # <<>> /\ stack[1].marked /\ QueueKeeps /\ stack[1].left = <<>>
  /\ \/ /\ Len(stack) > 1
        /\ \E g \in GoodFrames :
             /\ stack' = <<g>> \o Tail(Tail(stack))
             /\ g.at = stack[2].at /\ g.left = stack[2].left /\ g.marked /\ stack[2].marked
             /\ g.next = IF CanFlow(stack[1].in) THEN stack[1].next ELSE stack[2].next
     \/ /\ Len(stack) = 1 /\ stack' = <<>>
        /\ CanFlow(stack[1].in) => InQueue(pending', stack[1].next) \/ ~Missed(stack[1].next)

LEMMA DecodeGoes ==
  ASSUME IInv, EInv, DataFits, NEW a, NEW Refused, Decode(a, program[a], Limit - a, Refused)
  PROVE  Pushes(a) \/ (Refused /\ ~Missed(a))
<1>1. CASE Accepts(a, program[a], Limit - a)
  BY <1>1, NewFrame DEF Decode, Pushes, IInv
<1>2. CASE ~Accepts(a, program[a], Limit - a)
  <2>1. Refused
    BY <1>2 DEF Decode
  <2>2. ASSUME Missed(a) PROVE FALSE
    <3>1. a \in Addrs /\ program[a].size > 0 /\ a + program[a].size <= Limit /\ a \notin past.covered
      BY <2>2 DEF Missed
    <3>2. program[a].size \in Nat
      BY <3>1, ProgramFacts DEF IInv, Instr
    <3>3. program[a].size <= Limit - a
      BY <3>1, <3>2, SegmentAssumption DEF Addrs
    <3>4. ~Valid(a, Weak, labels, facts)
      BY <1>2, <3>1, <3>3 DEF Accepts
    <3>. QED BY <3>1, <3>4, RefusedIsCovered DEF IInv, EInv, Recorded
  <2>. QED BY <2>1, <2>2
<1>. QED BY <1>1, <1>2

LEMMA NothingMissed ==
  ASSUME IInv, EInv, NEW a, NEW w, NEW L, NEW F, ~Valid(a, w, L, F)
  PROVE  ~Missed(a)
BY RefusedIsCovered DEF IInv, EInv, Recorded, Missed

LEMMA HeadFacts ==
  ASSUME IInv, stack # <<>>
  PROVE  /\ Head(stack) = stack[1] /\ stack[1] \in GoodFrames /\ stack[1] \in Frames /\ Sane(stack[1])
         /\ stack[1].at \in Addrs /\ stack[1].left \in Seq(Fitting)
<1>1. Head(stack) = stack[1] /\ stack[1] \in GoodFrames
  BY StackFacts, HeadTail
<1>. QED BY <1>1 DEF GoodFrames, Frames, Sane

LEMMA RequestMoves ==
  ASSUME IInv, "sweep" \notin Requests, Drain \/ Drained \/ Request
  PROVE  program' = program /\ Quiet
<1> USE DEF algorithm, document
<1>1. CASE Drain \/ Drained
  BY <1>1 DEF Drain, Drained, Quiet, QueueKeeps
<1>2. ASSUME NEW a \in Addrs, Enqueue(a) \/ DisassembleAt(a)
      PROVE  program' = program /\ Quiet
  <2>1. /\ program' = program /\ stack' = stack
        /\ pending' = Front(pending, a, Valid(a, Weak, labels, facts))
    BY <1>2 DEF Enqueue, DisassembleAt
  <2>2. Valid(a, Weak, labels, facts) \in BOOLEAN
    BY DEF Valid
  <2>3. \A t : InQueue(pending, t) => InQueue(pending', t)
    BY <2>1, <2>2, StackFacts, QueueGains
  <2>. QED BY <2>1, <2>3 DEF Quiet, QueueKeeps
<1>3. ASSUME NEW a \in Addrs, SetLabel(a) \/ SetData(a) \/ SetFunction(a)
      PROVE  program' = program /\ Quiet
  BY <1>3 DEF SetLabel, SetData, SetFunction, Quiet, QueueKeeps
<1>4. CASE FunctionBounds
  BY <1>4 DEF FunctionBounds, Quiet, QueueKeeps
<1>. QED BY <1>1, <1>2, <1>3, <1>4 DEF Request, DisassembleBlock

LEMMA NextPendingMoves ==
  ASSUME IInv, EInv, DataFits, NextPending
  PROVE  program' = program /\ Takes
<1>1. /\ stack = <<>> /\ pending # <<>> /\ pending' = Tail(pending) /\ program' = program
      /\ Decode(Head(pending), program[Head(pending)], Limit - Head(pending),
                UNCHANGED <<stack, sweep>>)
  BY DEF NextPending
<1>2. Pushes(Head(pending)) \/ (UNCHANGED <<stack, sweep>> /\ ~Missed(Head(pending)))
  BY <1>1, DecodeGoes
<1>. QED BY <1>1, <1>2 DEF Takes

LEMMA SetCodeMoves ==
  ASSUME IInv, SetCode
  PROVE  program' = program /\ Marks
<1>1. [stack[1] EXCEPT !.marked = TRUE] \in GoodFrames
  BY HeadFacts, FrameUpdates DEF SetCode
<1>. QED BY <1>1, HeadFacts DEF SetCode, Marks, Replaces, QueueKeeps

LEMMA DelaySlotMoves ==
  ASSUME IInv, EInv, DataFits, DelaySlot
  PROVE  program' = program /\ Slots
<1> DEFINE a == Head(stack).next
           stop == /\ stack' = <<[Head(stack) EXCEPT !.slots = 0]>> \o Tail(stack)
                   /\ UNCHANGED sweep
<1>1. /\ stack # <<>> /\ Head(stack).marked /\ pending' = pending /\ program' = program
      /\ IF a \in Addrs THEN Decode(a, program[a], Limit - a, stop) ELSE stop
  BY DEF DelaySlot
<1>2. Head(stack) = stack[1] /\ [Head(stack) EXCEPT !.slots = 0] \in GoodFrames
  BY <1>1, HeadFacts, FrameUpdates
<1>3. stop => Replaces([stack[1] EXCEPT !.slots = 0])
  BY <1>2 DEF Replaces
<1> HIDE DEF stop, a
<1>4. Pushes(a) \/ stop
  BY <1>1, DecodeGoes
<1>. QED BY <1>1, <1>2, <1>3, <1>4 DEF Slots, QueueKeeps, a

LEMMA ProcessResultMoves ==
  ASSUME IInv, EInv, ProcessResult
  PROVE  program' = program /\ Handles
<1> DEFINE from == Head(stack).at
           r == Head(Head(stack).left)
<1>1. /\ stack # <<>> /\ Head(stack).marked /\ Head(stack).left # <<>> /\ program' = program
      /\ stack' = <<[Head(stack) EXCEPT !.left = Tail(@)]>> \o Tail(stack)
  BY DEF ProcessResult
<1>2. \/ pending' = pending /\ (r.to \notin Addrs \/ r.kind = "Return")
      \/ /\ r.to \in Addrs
         /\ \/ r.kind \in {"Branch", "BranchTrue"} /\ Branch(from, r.to)
            \/ r.kind = "BranchFalse" /\ BranchFalse(from, r.to)
            \/ r.kind = "Call" /\ Call(from, r.to)
            \/ /\ r.kind \notin Forks
               /\ \E size : CheckLocation(from, r.to, size, r.kind = "RefData")
                              \/ CheckString(from, r.to, size)
  BY DEF ProcessResult, Forks
<1>3. /\ Head(stack) = stack[1] /\ [Head(stack) EXCEPT !.left = Tail(@)] \in GoodFrames
      /\ ~Missed(from)
  <2>1. Head(stack) = stack[1] /\ [Head(stack) EXCEPT !.left = Tail(@)] \in GoodFrames
    BY <1>1, HeadFacts, FrameUpdates
  <2>2. stack[1].at \in past.decoded
    BY <1>1, <2>1, StackFacts, SMTT(30) DEF EInv, Recorded
  <2>. QED BY <2>1, <2>2 DEF Missed
<1> HIDE DEF from, r
<1>4. QueueKeeps /\ (r.kind \in Forks => InQueue(pending', r.to) \/ ~Missed(r.to))
  <2>0. \A a, w, L, F : Valid(a, w, L, F) \in BOOLEAN /\ (Valid(a, w, L, F) => a \in Addrs)
    BY DEF Valid
  <2>1. CASE pending' = pending /\ (r.to \notin Addrs \/ r.kind = "Return")
    BY <2>1 DEF QueueKeeps, Missed, Forks
  <2>2. CASE r.to \in Addrs /\ Branch(from, r.to)
    <3> DEFINE ok == r.to # from /\ Valid(r.to, Weak, labels', facts')
    <3>1. ok \in BOOLEAN /\ (ok => r.to \in Addrs) /\ pending' = Front(pending, r.to, ok)
      BY <2>0, <2>2 DEF Branch
    <3>2. ~ok => ~Missed(r.to)
      BY <1>3, NothingMissed
    <3> HIDE DEF ok
    <3>. QED BY <3>1, <3>2, StackFacts, QueueGains DEF QueueKeeps
  <2>3. CASE r.to \in Addrs /\ BranchFalse(from, r.to)
    <3> DEFINE ok == Valid(r.to, Weak, labels, facts)
    <3>1. ok \in BOOLEAN /\ (ok => r.to \in Addrs) /\ pending' = Front(pending, r.to, ok)
      BY <2>0, <2>3 DEF BranchFalse
    <3>2. ~ok => ~Missed(r.to)
      BY NothingMissed
    <3> HIDE DEF ok
    <3>. QED BY <3>1, <3>2, StackFacts, QueueGains DEF QueueKeeps
  <2>4. CASE r.to \in Addrs /\ Call(from, r.to)
    <3> DEFINE ok == Valid(r.to, Weak, labels', facts')
    <3>1. ok \in BOOLEAN /\ (ok => r.to \in Addrs) /\ pending' = Back(pending, r.to, ok)
      BY <2>0, <2>4 DEF Call
    <3>2. ~ok => ~Missed(r.to)
      BY NothingMissed
    <3> HIDE DEF ok
    <3>. QED BY <3>1, <3>2, StackFacts, QueueGains DEF QueueKeeps
  <2>5. CASE r.kind \notin Forks /\ \E size : CheckLocation(from, r.to, size, r.kind = "RefData")
                                               \/ CheckString(from, r.to, size)
    <3>1. pending' = pending \/ \E ok \in BOOLEAN : pending' = Front(pending, r.to, ok) /\ (ok => r.to \in Addrs)
      BY <2>0, <2>5 DEF CheckLocation, CheckString
    <3>. QED BY <2>5, <3>1, StackFacts, QueueGains DEF QueueKeeps
  <2>. QED BY <1>2, <2>1, <2>2, <2>3, <2>4, <2>5
<1>. QED BY <1>1, <1>3, <1>4 DEF Handles, Replaces, r

LEMMA FinishMoves ==
  ASSUME IInv, EInv, "sweep" \notin Requests, Finish
  PROVE  program' = program /\ Returns
<1> DEFINE f == Head(stack)
           rest == Tail(stack)
           flows == CanFlow(f.in)
           caller == Head(rest)
<1>1. /\ stack # <<>> /\ f.marked /\ f.left = <<>> /\ program' = program
      /\ f = stack[1] /\ f \in Frames /\ Stacked(rest)
  BY HeadFacts, StackPop DEF Finish, IInv, ControlInv
<1>2. flows \in BOOLEAN
  BY DEF CanFlow
<1>3. CASE rest # <<>>
  <2>1. /\ pending' = pending
        /\ stack' = <<[caller EXCEPT !.slots = IF flows THEN @ - 1 ELSE 0,
                                     !.next = IF flows THEN f.next ELSE @]>> \o Tail(rest)
    BY <1>3 DEF Finish
  <2>2. /\ Len(stack) > 1 /\ caller = stack[2] /\ caller \in GoodFrames /\ Waiting(caller)
    <3>1. /\ Len(rest) = Len(stack) - 1 /\ Len(rest) > 0 /\ Len(stack) \in Nat
          /\ caller = rest[1] /\ \A i \in 1 .. Len(stack) - 1 : rest[i] = stack[i + 1]
          /\ caller \in GoodFrames
      BY <1>1, <1>3, StackFacts, HeadTail DEF Stacked
    <3>2. 2 \in 2 .. Len(stack) /\ caller = stack[2]
      BY <3>1
    <3>. QED BY <3>1, <3>2 DEF IInv, ControlInv, Stacked
  <2> DEFINE n == IF flows THEN caller.slots - 1 ELSE 0
             x == IF flows THEN f.next ELSE caller.next
             g == [caller EXCEPT !.slots = n, !.next = x]
  <2>3. n \in Nat /\ x \in Linked
    BY <1>1, <2>2 DEF GoodFrames, Frames, Waiting
  <2>4. stack' = <<g>> \o Tail(rest)
    BY <2>1
  <2>5. /\ DOMAIN caller = {"at", "in", "marked", "slots", "next", "left"}
        /\ x = IF flows THEN f.next ELSE caller.next
    BY <2>2 DEF GoodFrames, Frames
  <2> HIDE DEF n, x
  <2>6. g \in GoodFrames
    BY <2>2, <2>3, FrameUpdates DEF Waiting
  <2>7. g.at = caller.at /\ g.left = caller.left /\ g.marked = caller.marked /\ g.next = x
    BY <2>5
  <2> HIDE DEF g
  <2>. QED BY <1>1, <2>1, <2>2, <2>4, <2>5, <2>6, <2>7 DEF Returns, QueueKeeps, Waiting
<1>4. CASE rest = <<>>
  <2>1. Len(stack) = 1
    <3>1. Len(Tail(stack)) = Len(stack) - 1 /\ Len(stack) \in Nat
      BY <1>1, StackFacts, HeadTail
    <3>2. Len(Tail(stack)) = 0
      BY <1>1, <1>4, NoCalls DEF Stacked
    <3>. QED BY <3>1, <3>2
  <2>2. ~(sweep.pos < sweep.end)
    BY SegmentAssumption DEF IInv, ControlInv, NoSweep
  <2> DEFINE ok == flows /\ Valid(f.next, driver = "engine", labels, facts)
  <2>3. stack' = <<>> /\ pending' = Front(pending, f.next, ok)
    BY <1>4, <2>2 DEF Finish
  <2>4. ok \in BOOLEAN /\ (ok => f.next \in Addrs)
    BY <1>2 DEF Valid
  <2>5. flows /\ ~ok => ~Missed(f.next)
    BY NothingMissed
  <2> HIDE DEF ok
  <2>6. QueueKeeps /\ (ok => InQueue(pending', f.next))
    BY <2>3, <2>4, StackFacts, QueueGains DEF QueueKeeps
  <2>. QED BY <1>1, <2>1, <2>3, <2>5, <2>6 DEF Returns
<1>. QED BY <1>3, <1>4

LEMMA StepMoves ==
  ASSUME IInv, EInv, DataFits, "sweep" \notin Requests, Next, ~Load
  PROVE  program' = program /\ (Quiet \/ Takes \/ Marks \/ Slots \/ Handles \/ Returns)
<1>1. ~SweepStep
  BY DEF SweepStep, IInv, ControlInv
<1>. QED BY <1>1, RequestMoves, NextPendingMoves, SetCodeMoves, DelaySlotMoves,
            ProcessResultMoves, FinishMoves DEF Next, Step

(* What a replaced head and a new one do to the calls.                      *)
LEMMA ReplacedStack ==
  ASSUME NEW s \in Seq(GoodFrames), s # <<>>, NEW g \in GoodFrames, NEW m, m = <<g>> \o Tail(s)
  PROVE  /\ m \in Seq(GoodFrames) /\ m # <<>> /\ Len(m) = Len(s) /\ Len(s) \in Nat /\ Len(s) > 0
         /\ m[1] = g /\ \A i \in 2 .. Len(s) : m[i] = s[i]
<1>1. /\ Tail(s) \in Seq(GoodFrames) /\ Len(s) \in Nat /\ Len(s) > 0 /\ Len(Tail(s)) = Len(s) - 1
      /\ \A i \in 1 .. Len(s) - 1 : Tail(s)[i] = s[i + 1]
  BY HeadTail
<1>2. /\ m \in Seq(GoodFrames) /\ m # <<>> /\ Len(m) = Len(Tail(s)) + 1 /\ m[1] = g
      /\ \A i \in 1 .. Len(Tail(s)) : m[i + 1] = Tail(s)[i]
  BY <1>1, Pushed
<1>3. ASSUME NEW i \in 2 .. Len(s) PROVE m[i] = s[i]
  <2>1. i - 1 \in 1 .. Len(s) - 1 /\ (i - 1) + 1 = i
    BY <1>1
  <2>2. m[(i - 1) + 1] = Tail(s)[i - 1] /\ Tail(s)[i - 1] = s[(i - 1) + 1]
    BY <1>1, <1>2, <2>1
  <2>. QED BY <2>1, <2>2
<1>. QED BY <1>1, <1>2, <1>3

LEMMA PushedStack ==
  ASSUME NEW s \in Seq(GoodFrames), NEW g \in GoodFrames, NEW m, m = <<g>> \o s
  PROVE  /\ m \in Seq(GoodFrames) /\ m # <<>> /\ Len(m) = Len(s) + 1 /\ Len(s) \in Nat
         /\ m[1] = g /\ \A i \in 2 .. Len(m) : m[i] = s[i - 1]
<1>1. /\ m \in Seq(GoodFrames) /\ m # <<>> /\ Len(m) = Len(s) + 1 /\ m[1] = g /\ Len(s) \in Nat
      /\ \A i \in 1 .. Len(s) : m[i + 1] = s[i]
  BY Pushed
<1>2. ASSUME NEW i \in 2 .. Len(m) PROVE m[i] = s[i - 1]
  <2>1. i - 1 \in 1 .. Len(s) /\ (i - 1) + 1 = i
    BY <1>1
  <2>2. m[(i - 1) + 1] = s[i - 1]
    BY <1>1, <2>1
  <2>. QED BY <2>1, <2>2
<1>. QED BY <1>1, <1>2

Popped(s, g) == <<g>> \o Tail(Tail(s))

IsPopped(m, s, g) ==
  /\ m \in Seq(GoodFrames) /\ Len(m) = Len(s) - 1 /\ m[1] = g
  /\ \A i \in 2 .. Len(m) : m[i] = s[i + 1]

LEMMA PoppedStack ==
  ASSUME NEW s \in Seq(GoodFrames), Len(s) > 1, NEW g \in GoodFrames, NEW m, m = Popped(s, g)
  PROVE  IsPopped(m, s, g)
<1>1. /\ Tail(s) \in Seq(GoodFrames) /\ Len(s) \in Nat /\ Len(Tail(s)) = Len(s) - 1 /\ Tail(s) # <<>>
      /\ \A i \in 1 .. Len(s) - 1 : Tail(s)[i] = s[i + 1]
  <2>1. s # <<>>
    OBVIOUS
  <2>2. /\ Tail(s) \in Seq(GoodFrames) /\ Len(s) \in Nat /\ Len(Tail(s)) = Len(s) - 1
        /\ \A i \in 1 .. Len(s) - 1 : Tail(s)[i] = s[i + 1]
    BY <2>1, HeadTail
  <2>3. Tail(s) = <<>> => Len(Tail(s)) = 0
    BY <2>2, NoCalls
  <2>. QED BY <2>2, <2>3
<1>2. /\ m \in Seq(GoodFrames) /\ m # <<>> /\ Len(m) = Len(Tail(s)) /\ m[1] = g
      /\ \A i \in 2 .. Len(Tail(s)) : m[i] = Tail(s)[i]
  BY <1>1, ReplacedStack DEF Popped
<1>3. ASSUME NEW i \in 2 .. Len(m) PROVE m[i] = s[i + 1]
  BY <1>1, <1>2
<1>. QED BY <1>1, <1>2, <1>3 DEF IsPopped

LEMMA StackGoes ==
  ASSUME IInv, EInv, Quiet \/ Takes \/ Marks \/ Slots \/ Handles \/ Returns
  PROVE  stack' \in Seq(GoodFrames) /\ Fresh(stack') /\ Linear(stack')
<1>0. /\ stack \in Seq(GoodFrames) /\ Len(stack) \in Nat /\ Fresh(stack) /\ Linear(stack)
      /\ stack # <<>> => Len(stack) > 0
  BY StackFacts DEF EInv
<1>1. ASSUME NEW g \in GoodFrames, stack # <<>>, Replaces(g),
             g.at = stack[1].at, g.next = stack[1].next,
             g.marked \/ g.left = program[g.at].results
      PROVE  stack' \in Seq(GoodFrames) /\ Fresh(stack') /\ Linear(stack')
  <2>1. /\ stack' \in Seq(GoodFrames) /\ Len(stack') = Len(stack) /\ stack'[1] = g
        /\ \A i \in 2 .. Len(stack) : stack'[i] = stack[i]
    BY <1>0, <1>1, ReplacedStack DEF Replaces
  <2>2. Fresh(stack')
    <3> SUFFICES ASSUME NEW i \in 1 .. Len(stack')
                 PROVE  stack'[i].marked \/ stack'[i].left = program[stack'[i].at].results
      BY DEF Fresh
    <3>1. CASE i = 1
      BY <1>1, <2>1, <3>1
    <3>2. CASE i # 1
      BY <1>0, <2>1, <3>2 DEF Fresh
    <3>. QED BY <3>1, <3>2
  <2>3. Linear(stack')
    <3> SUFFICES ASSUME NEW i \in 1 .. Len(stack') - 1 PROVE stack'[i].at = stack'[i + 1].next
      BY DEF Linear
    <3>1. stack'[i + 1] = stack[i + 1] /\ stack[i].at = stack[i + 1].next
      BY <1>0, <2>1 DEF Linear
    <3>2. stack'[i].at = stack[i].at
      BY <1>0, <1>1, <2>1
    <3>. QED BY <3>1, <3>2
  <2>. QED BY <2>1, <2>2, <2>3
<1>2. ASSUME NEW a, Pushes(a), stack # <<>> => a = stack[1].next
      PROVE  stack' \in Seq(GoodFrames) /\ Fresh(stack') /\ Linear(stack')
  <2> DEFINE g == Frame(a, program[a])
  <2>0. g \in GoodFrames /\ stack' = <<g>> \o stack
    BY <1>2 DEF Pushes
  <2>1. g.at = a /\ g.left = program[a].results
    BY DEF Frame
  <2> HIDE DEF g
  <2>2. /\ stack' \in Seq(GoodFrames) /\ Len(stack') = Len(stack) + 1 /\ stack'[1] = g
        /\ \A i \in 2 .. Len(stack') : stack'[i] = stack[i - 1]
    BY <1>0, <2>0, PushedStack
  <2>3. Fresh(stack')
    <3> SUFFICES ASSUME NEW i \in 1 .. Len(stack')
                 PROVE  stack'[i].marked \/ stack'[i].left = program[stack'[i].at].results
      BY DEF Fresh
    <3>1. CASE i = 1
      BY <2>1, <2>2, <3>1
    <3>2. CASE i # 1
      <4>1. stack'[i] = stack[i - 1] /\ i - 1 \in 1 .. Len(stack)
        BY <1>0, <2>2, <3>2
      <4>. QED BY <1>0, <4>1 DEF Fresh
    <3>. QED BY <3>1, <3>2
  <2>4. Linear(stack')
    <3> SUFFICES ASSUME NEW i \in 1 .. Len(stack') - 1 PROVE stack'[i].at = stack'[i + 1].next
      BY DEF Linear
    <3>1. stack'[i + 1] = stack[i] /\ i \in 1 .. Len(stack)
      BY <1>0, <2>2
    <3>2. CASE i = 1
      <4>1. stack # <<>>
        BY <1>0, <3>1, NoCalls
      <4>. QED BY <1>2, <2>1, <2>2, <3>1, <3>2, <4>1
    <3>3. CASE i # 1
      <4>1. stack'[i] = stack[i - 1] /\ i - 1 \in 1 .. Len(stack) - 1 /\ (i - 1) + 1 = i
        BY <1>0, <2>2, <3>3
      <4>2. stack[i - 1].at = stack[(i - 1) + 1].next
        BY <1>0, <4>1 DEF Linear
      <4>. QED BY <3>1, <4>1, <4>2
    <3>. QED BY <3>2, <3>3
  <2>. QED BY <2>2, <2>3, <2>4
<1>3. CASE Quiet
  BY <1>0, <1>3 DEF Quiet
<1>4. CASE Takes
  BY <1>0, <1>2, <1>4 DEF Takes
<1>5. ASSUME stack # <<>> PROVE stack[1] \in Frames /\ DOMAIN stack[1] = {"at", "in", "marked", "slots", "next", "left"}
  BY <1>5, HeadFacts DEF Frames
<1>6. CASE Marks
  <2> DEFINE g == [stack[1] EXCEPT !.marked = TRUE]
  <2>1. stack # <<>> /\ Replaces(g) /\ g \in GoodFrames
    BY <1>6 DEF Marks, Replaces
  <2>2. g.at = stack[1].at /\ g.next = stack[1].next /\ g.marked
    BY <1>5, <2>1
  <2> HIDE DEF g
  <2>. QED BY <1>1, <2>1, <2>2
<1>7. CASE Slots
  <2> DEFINE g == [stack[1] EXCEPT !.slots = 0]
  <2>1. stack # <<>> /\ stack[1].marked /\ (Pushes(stack[1].next) \/ Replaces(g))
    BY <1>7 DEF Slots
  <2>2. g.at = stack[1].at /\ g.next = stack[1].next /\ g.marked
    BY <1>5, <2>1
  <2> HIDE DEF g
  <2>3. CASE Replaces(g)
    BY <1>1, <2>1, <2>2, <2>3 DEF Replaces
  <2>. QED BY <1>2, <2>1, <2>3
<1>8. CASE Handles
  <2> DEFINE g == [stack[1] EXCEPT !.left = Tail(@)]
  <2>1. stack # <<>> /\ stack[1].marked /\ Replaces(g) /\ g \in GoodFrames
    BY <1>8 DEF Handles, Replaces
  <2>2. g.at = stack[1].at /\ g.next = stack[1].next /\ g.marked
    BY <1>5, <2>1
  <2> HIDE DEF g
  <2>. QED BY <1>1, <2>1, <2>2
<1>9. CASE Returns
  <2>1. CASE stack' = <<>>
    BY <2>1 DEF Fresh, Linear
  <2>2. CASE stack' # <<>>
    <3>1. PICK g \in GoodFrames :
            /\ Len(stack) > 1 /\ stack' = <<g>> \o Tail(Tail(stack))
            /\ g.at = stack[2].at /\ g.marked
      BY <1>9, <2>2 DEF Returns
    <3>2. /\ stack' \in Seq(GoodFrames) /\ Len(stack') = Len(stack) - 1 /\ stack'[1] = g
          /\ \A i \in 2 .. Len(stack') : stack'[i] = stack[i + 1]
      <4>1. stack' = Popped(stack, g)
        BY <3>1 DEF Popped
      <4>2. stack \in Seq(GoodFrames) /\ Len(stack) > 1
        BY <1>0, <3>1
      <4>3. \A t \in Seq(GoodFrames) : \A h \in GoodFrames :
              Len(t) > 1 => IsPopped(Popped(t, h), t, h)
        BY PoppedStack
      <4>4. IsPopped(Popped(stack, g), stack, g)
        BY <4>2, <4>3
      <4>. QED BY <4>1, <4>4 DEF IsPopped
    <3>3. Fresh(stack')
      <4> SUFFICES ASSUME NEW i \in 1 .. Len(stack')
                   PROVE  stack'[i].marked \/ stack'[i].left = program[stack'[i].at].results
        BY DEF Fresh
      <4>1. CASE i = 1
        BY <3>1, <3>2, <4>1
      <4>2. CASE i # 1
        <5>1. stack'[i] = stack[i + 1] /\ i + 1 \in 1 .. Len(stack)
          BY <1>0, <3>2, <4>2
        <5>. QED BY <1>0, <5>1 DEF Fresh
      <4>. QED BY <4>1, <4>2
    <3>4. Linear(stack')
      <4> SUFFICES ASSUME NEW i \in 1 .. Len(stack') - 1 PROVE stack'[i].at = stack'[i + 1].next
        BY DEF Linear
      <4>1. stack'[i + 1] = stack[(i + 1) + 1] /\ i + 1 \in 1 .. Len(stack) - 1
        BY <1>0, <3>2
      <4>2. stack[i + 1].at = stack[(i + 1) + 1].next
        BY <1>0, <4>1 DEF Linear
      <4>3. stack'[i].at = stack[i + 1].at
        BY <1>0, <3>1, <3>2
      <4>. QED BY <4>1, <4>2, <4>3
    <3>. QED BY <3>2, <3>3, <3>4
  <2>. QED BY <2>1, <2>2
<1>. QED BY <1>3, <1>4, <1>6, <1>7, <1>8, <1>9

(* The calls after a step, for a call that was there before it. *)
LEMMA HeadReplaced ==
  ASSUME IInv, stack # <<>>, NEW g, Replaces(g)
  PROVE  /\ stack' # <<>> /\ Len(stack') = Len(stack) /\ Len(stack) \in Nat /\ Len(stack) > 0
         /\ stack'[1] = g /\ \A i \in 2 .. Len(stack) : stack'[i] = stack[i]
<1>1. stack \in Seq(GoodFrames) /\ g \in GoodFrames /\ stack' = <<g>> \o Tail(stack)
  BY StackFacts DEF Replaces
<1>. QED BY <1>1, ReplacedStack

LEMMA CallPushed ==
  ASSUME IInv, NEW a, Pushes(a)
  PROVE  /\ stack' # <<>> /\ Len(stack') = Len(stack) + 1 /\ Len(stack) \in Nat
         /\ stack'[1].at = a /\ ~stack'[1].marked
         /\ \A i \in 1 .. Len(stack) : stack'[i + 1] = stack[i]
<1> DEFINE g == Frame(a, program[a])
<1>1. stack \in Seq(GoodFrames) /\ g \in GoodFrames /\ stack' = <<g>> \o stack
  BY StackFacts DEF Pushes
<1>2. g.at = a /\ ~g.marked
  BY DEF Frame
<1> HIDE DEF g
<1>3. /\ stack' # <<>> /\ Len(stack') = Len(stack) + 1 /\ Len(stack) \in Nat /\ stack'[1] = g
      /\ \A i \in 1 .. Len(stack) : stack'[i + 1] = stack[i]
  BY <1>1, Pushed, StackFacts
<1>. QED BY <1>2, <1>3

LEMMA CallPopped ==
  ASSUME IInv, Returns, Len(stack) # 1
  PROVE  /\ Len(stack) \in Nat /\ Len(stack) > 1 /\ Len(stack') = Len(stack) - 1 /\ stack' # <<>>
         /\ stack'[1].at = stack[2].at /\ stack'[1].left = stack[2].left
         /\ stack'[1].marked /\ stack[2].marked
         /\ stack'[1].next = IF CanFlow(stack[1].in) THEN stack[1].next ELSE stack[2].next
         /\ \A i \in 3 .. Len(stack) : stack'[i - 1] = stack[i]
<1>1. PICK g \in GoodFrames :
        /\ Len(stack) > 1 /\ stack' = <<g>> \o Tail(Tail(stack))
        /\ g.at = stack[2].at /\ g.left = stack[2].left /\ g.marked /\ stack[2].marked
        /\ g.next = IF CanFlow(stack[1].in) THEN stack[1].next ELSE stack[2].next
  BY DEF Returns
<1>2. stack' = Popped(stack, g)
  BY <1>1 DEF Popped
<1>3. stack \in Seq(GoodFrames) /\ Len(stack) \in Nat /\ Len(stack) > 1
  BY <1>1, StackFacts
<1>4. \A t \in Seq(GoodFrames) : \A h \in GoodFrames : Len(t) > 1 => IsPopped(Popped(t, h), t, h)
  BY PoppedStack
<1>5. IsPopped(stack', stack, g)
  BY <1>2, <1>3, <1>4
<1>6. /\ stack' \in Seq(GoodFrames) /\ Len(stack') = Len(stack) - 1 /\ stack'[1] = g
      /\ \A i \in 2 .. Len(stack') : stack'[i] = stack[i + 1]
  BY <1>5 DEF IsPopped
<1>7. ASSUME NEW i \in 3 .. Len(stack) PROVE stack'[i - 1] = stack[i]
  <2>1. i - 1 \in 2 .. Len(stack') /\ (i - 1) + 1 = i
    BY <1>3, <1>6
  <2>. QED BY <1>6, <2>1
<1>8. stack' # <<>>
  BY <1>3, <1>6, NoCalls
<1>9. /\ stack'[1].at = stack[2].at /\ stack'[1].left = stack[2].left
      /\ stack'[1].marked /\ stack[2].marked
      /\ stack'[1].next = IF CanFlow(stack[1].in) THEN stack[1].next ELSE stack[2].next
  <2> HIDE DEF CanFlow
  <2>. QED BY <1>1, <1>6
<1>. QED BY <1>3, <1>6, <1>7, <1>8, <1>9

(* What a replaced head keeps. *)
LEMMA HeadKeeps ==
  ASSUME IInv, stack # <<>>
  PROVE  /\ [stack[1] EXCEPT !.marked = TRUE].at = stack[1].at
         /\ [stack[1] EXCEPT !.marked = TRUE].next = stack[1].next
         /\ [stack[1] EXCEPT !.marked = TRUE].left = stack[1].left
         /\ [stack[1] EXCEPT !.marked = TRUE].marked
         /\ [stack[1] EXCEPT !.slots = 0].at = stack[1].at
         /\ [stack[1] EXCEPT !.slots = 0].next = stack[1].next
         /\ [stack[1] EXCEPT !.slots = 0].left = stack[1].left
         /\ [stack[1] EXCEPT !.slots = 0].marked = stack[1].marked
         /\ [stack[1] EXCEPT !.left = Tail(@)].at = stack[1].at
         /\ [stack[1] EXCEPT !.left = Tail(@)].next = stack[1].next
         /\ [stack[1] EXCEPT !.left = Tail(@)].left = Tail(stack[1].left)
         /\ [stack[1] EXCEPT !.left = Tail(@)].marked = stack[1].marked
<1> DEFINE f == stack[1]
           rest == Tail(f.left)
<1>1. DOMAIN f = {"at", "in", "marked", "slots", "next", "left"}
  BY HeadFacts DEF Frames
<1>2. /\ [f EXCEPT !.marked = TRUE].at = f.at /\ [f EXCEPT !.marked = TRUE].next = f.next
      /\ [f EXCEPT !.marked = TRUE].left = f.left /\ [f EXCEPT !.marked = TRUE].marked
  <2> HIDE DEF f
  <2>. QED BY <1>1
<1>3. /\ [f EXCEPT !.slots = 0].at = f.at /\ [f EXCEPT !.slots = 0].next = f.next
      /\ [f EXCEPT !.slots = 0].left = f.left /\ [f EXCEPT !.slots = 0].marked = f.marked
  <2> HIDE DEF f
  <2>. QED BY <1>1
<1>4. /\ [f EXCEPT !.left = rest].at = f.at /\ [f EXCEPT !.left = rest].next = f.next
      /\ [f EXCEPT !.left = rest].left = rest /\ [f EXCEPT !.left = rest].marked = f.marked
  <2> HIDE DEF f, rest
  <2>. QED BY <1>1
<1>. QED BY <1>2, <1>3, <1>4

(* What was awaited still is, or was decoded or looked at.                  *)
Moves == program' = program /\ (Quiet \/ Takes \/ Marks \/ Slots \/ Handles \/ Returns)

Remembers ==
  /\ past.covered \subseteq past'.covered /\ past.decoded \subseteq past'.decoded
  /\ Recorded'

LEMMA NeverMissed ==
  ASSUME program' = program, Remembers, NEW t, ~Missed(t)
  PROVE  ~Missed(t)'
BY DEF Missed, Remembers

LEMMA AwaitedStep ==
  ASSUME IInv, EInv, Moves, Remembers, NEW t, Awaited(t)
  PROVE  Awaited(t)'
<1>1. CASE ~Missed(t)
  BY <1>1, NeverMissed DEF Moves, Awaited
<1>2. CASE InQueue(pending, t)
  <2>1. CASE Takes
    <3>1. /\ stack = <<>> /\ pending # <<>> /\ pending' = Tail(pending) /\ pending \in Seq(Addrs)
          /\ Pushes(Head(pending)) \/ (stack' = stack /\ ~Missed(Head(pending)))
      BY <2>1, StackFacts DEF Takes
    <3>2. t = Head(pending) \/ InQueue(pending', t)
      BY <1>2, <3>1, QueueLoses
    <3>3. CASE t = Head(pending) /\ Pushes(t)
      <4>1. stack' # <<>> /\ ~stack'[1].marked /\ stack'[1].at = t
        BY <3>3, CallPushed
      <4>. QED BY <4>1 DEF Awaited, Entered
    <3>4. CASE t = Head(pending) /\ ~Missed(t)
      BY <3>4, NeverMissed DEF Moves, Awaited
    <3>. QED BY <3>1, <3>2, <3>3, <3>4 DEF Awaited
  <2>2. CASE ~Takes
    <3>1. QueueKeeps
      BY <2>2 DEF Moves, Quiet, Marks, Slots, Handles, Returns
    <3>. QED BY <1>2, <3>1 DEF QueueKeeps, Awaited
  <2>. QED BY <2>1, <2>2
<1>3. CASE Entered(stack, t)
  <2>1. stack # <<>> /\ ~stack[1].marked /\ stack[1].at = t
    BY <1>3 DEF Entered
  <2>2. CASE Quiet
    BY <2>1, <2>2 DEF Quiet, Awaited, Entered
  <2>3. CASE Marks
    <3>1. Replaces([stack[1] EXCEPT !.marked = TRUE])
      BY <2>3 DEF Marks
    <3>2. /\ Len(stack') \in Nat /\ Len(stack') > 0
          /\ stack'[1] = [stack[1] EXCEPT !.marked = TRUE]
      BY <2>1, <3>1, HeadReplaced
    <3>3. stack'[1].at = t /\ stack'[1].marked
      BY <2>1, <3>2, HeadKeeps
    <3>4. \A i \in 1 .. Len(stack') : stack'[i].marked => stack'[i].at \in past'.decoded
      BY DEF Remembers, Recorded
    <3>5. 1 \in 1 .. Len(stack')
      BY <3>2
    <3>6. t \in past'.decoded
      BY <3>3, <3>4, <3>5
    <3>. QED BY <3>6 DEF Awaited, Missed
  <2>. QED BY <2>1, <2>2, <2>3 DEF Moves, Takes, Slots, Handles, Returns
<1>. QED BY <1>1, <1>2, <1>3 DEF Awaited

LEMMA ForkedRest ==
  ASSUME NEW s \in Seq(Fitting), s # <<>>, NEW t \in Forked(s)
  PROVE  t \in Forked(Tail(s)) \/ (Head(s).kind \in Forks /\ t = Head(s).to)
<1>1. PICK i \in DOMAIN s : s[i].kind \in Forks /\ t = s[i].to
  BY DEF Forked
<1>2. /\ Head(s) = s[1] /\ DOMAIN s = 1 .. Len(s) /\ Len(s) \in Nat
      /\ DOMAIN Tail(s) = 1 .. Len(s) - 1
      /\ \A j \in 1 .. Len(s) - 1 : Tail(s)[j] = s[j + 1]
  OBVIOUS
<1>3. CASE i # 1
  <2>1. i - 1 \in DOMAIN Tail(s) /\ Tail(s)[i - 1] = s[i]
    BY <1>1, <1>2, <1>3
  <2>. QED BY <1>1, <2>1 DEF Forked
<1>. QED BY <1>1, <1>2, <1>3

LEMMA LeftStep ==
  ASSUME IInv, EInv, Moves, Remembers, NEW a, NEW t, LeftOver(stack, a, t)
  PROVE  LeftOver(stack', a, t) \/ Awaited(t)'
<1>1. PICK i \in 1 .. Len(stack) :
        stack[i].marked /\ stack[i].at = a /\ t \in Forked(stack[i].left)
  BY DEF LeftOver
<1>2. stack \in Seq(GoodFrames) /\ Len(stack) \in Nat /\ stack # <<>>
  BY <1>1, StackFacts, NoCalls
<1>3. CASE Quiet
  BY <1>3 DEF Quiet
<1>4. ASSUME NEW g, Replaces(g), i = 1 => g.marked /\ g.at = a /\ t \in Forked(g.left)
      PROVE  LeftOver(stack', a, t)
  <2>1. /\ Len(stack') = Len(stack) /\ stack'[1] = g
        /\ \A j \in 2 .. Len(stack) : stack'[j] = stack[j]
    BY <1>2, <1>4, HeadReplaced
  <2>2. stack'[i].marked /\ stack'[i].at = a /\ t \in Forked(stack'[i].left)
    <3>1. CASE i = 1
      BY <1>4, <2>1, <3>1
    <3>2. CASE i # 1
      BY <1>1, <1>2, <2>1, <3>2
    <3>. QED BY <3>1, <3>2
  <2>. QED BY <2>1, <2>2 DEF LeftOver
<1>5. CASE Marks
  BY <1>1, <1>4, <1>5 DEF Marks
<1>6. CASE Slots
  <2>1. CASE Pushes(stack[1].next)
    <3>1. Len(stack') = Len(stack) + 1 /\ stack'[i + 1] = stack[i] /\ i + 1 \in 1 .. Len(stack')
      BY <1>2, <2>1, CallPushed
    <3>. QED BY <1>1, <3>1 DEF LeftOver
  <2>2. CASE Replaces([stack[1] EXCEPT !.slots = 0])
    BY <1>1, <1>2, <1>4, <2>2, HeadKeeps
  <2>. QED BY <1>6, <2>1, <2>2 DEF Slots
<1>7. CASE Handles
  <2> DEFINE r == Head(stack[1].left)
             g == [stack[1] EXCEPT !.left = Tail(@)]
  <2>1. /\ stack[1].left # <<>> /\ stack[1].left \in Seq(Fitting) /\ Replaces(g)
        /\ r.kind \in Forks => InQueue(pending', r.to) \/ ~Missed(r.to)
    BY <1>2, <1>7, HeadFacts DEF Handles
  <2>2. CASE i = 1 /\ r.kind \in Forks /\ t = r.to
    <3>1. InQueue(pending', t) \/ ~Missed(t)
      BY <2>1, <2>2
    <3>. QED BY <3>1, NeverMissed DEF Moves, Awaited
  <2>3. CASE i # 1 \/ t \in Forked(Tail(stack[1].left))
    <3>1. /\ g.at = stack[1].at /\ g.marked = stack[1].marked
          /\ g.left = Tail(stack[1].left)
      BY <1>2, HeadKeeps
    <3> HIDE DEF g
    <3>2. i = 1 => g.marked /\ g.at = a /\ t \in Forked(g.left)
      BY <1>1, <2>3, <3>1
    <3>. QED BY <1>4, <2>1, <3>2
  <2>. QED BY <1>1, <2>1, <2>2, <2>3, ForkedRest
<1>8. CASE Returns
  <2>1. i # 1
    BY <1>1, <1>8 DEF Returns, Forked
  <2>2. Len(stack) # 1
    BY <1>1, <1>2, <2>1
  <2>3. /\ Len(stack') = Len(stack) - 1
        /\ stack'[1].at = stack[2].at /\ stack'[1].left = stack[2].left /\ stack'[1].marked
        /\ \A j \in 3 .. Len(stack) : stack'[j - 1] = stack[j]
    BY <1>8, <2>2, CallPopped
  <2>4. CASE i = 2
    <3>1. 1 \in 1 .. Len(stack')
      BY <1>2, <2>3, <2>4
    <3>. QED BY <1>1, <2>3, <2>4, <3>1 DEF LeftOver
  <2>5. CASE i # 2
    <3>1. i - 1 \in 1 .. Len(stack') /\ stack'[i - 1] = stack[i]
      BY <1>2, <2>1, <2>3, <2>5
    <3>. QED BY <1>1, <3>1 DEF LeftOver
  <2>. QED BY <2>4, <2>5
<1>9. ~Takes
  BY <1>2 DEF Takes
<1>. QED BY <1>3, <1>5, <1>6, <1>7, <1>8, <1>9 DEF Moves

(* The instruction that was taken out of the queue goes on.                 *)
LEMMA GoesOnStep ==
  ASSUME IInv, EInv, Moves, Remembers, NEW a, CanFlow(program[a]), NEW t, GoesOn(stack, a, t)
  PROVE  GoesOn(stack', a, t) \/ Awaited(t)'
<1> DEFINE n == Len(stack)
<1>1. /\ stack # <<>> /\ stack[n].marked /\ stack[n].at = a /\ stack[n].next = t
      /\ stack \in Seq(GoodFrames) /\ n \in Nat /\ n > 0
  BY StackFacts DEF GoesOn
<1>2. CASE Quiet
  BY <1>2 DEF Quiet
<1>3. ASSUME NEW g, Replaces(g), n = 1 => g.marked /\ g.at = a /\ g.next = t
      PROVE  GoesOn(stack', a, t)
  <2>1. /\ stack' # <<>> /\ Len(stack') = n /\ stack'[1] = g
        /\ \A j \in 2 .. n : stack'[j] = stack[j]
    BY <1>1, <1>3, HeadReplaced
  <2>2. stack'[n].marked /\ stack'[n].at = a /\ stack'[n].next = t
    <3>1. CASE n = 1
      BY <1>3, <2>1, <3>1
    <3>2. CASE n # 1
      <4>1. stack'[n] = stack[n]
        BY <1>1, <2>1, <3>2
      <4>. QED BY <1>1, <4>1
    <3>. QED BY <3>1, <3>2
  <2>. QED BY <2>1, <2>2 DEF GoesOn
<1>4. CASE Marks
  BY <1>1, <1>3, <1>4 DEF Marks
<1>5. CASE Slots
  <2>1. CASE Pushes(stack[1].next)
    <3>1. stack' # <<>> /\ Len(stack') = n + 1 /\ stack'[n + 1] = stack[n]
      BY <1>1, <2>1, CallPushed
    <3>. QED BY <1>1, <3>1 DEF GoesOn
  <2>2. CASE Replaces([stack[1] EXCEPT !.slots = 0])
    BY <1>1, <1>3, <2>2, HeadKeeps
  <2>. QED BY <1>5, <2>1, <2>2 DEF Slots
<1>6. CASE Handles
  <2>1. Replaces([stack[1] EXCEPT !.left = Tail(@)])
    BY <1>6 DEF Handles
  <2>2. /\ [stack[1] EXCEPT !.left = Tail(@)].at = stack[1].at
        /\ [stack[1] EXCEPT !.left = Tail(@)].next = stack[1].next
        /\ [stack[1] EXCEPT !.left = Tail(@)].marked = stack[1].marked
    BY <1>1, HeadKeeps
  <2> DEFINE g == [stack[1] EXCEPT !.left = Tail(@)]
  <2> HIDE DEF g
  <2>3. Replaces(g) /\ g.at = stack[1].at /\ g.next = stack[1].next /\ g.marked = stack[1].marked
    BY <2>1, <2>2 DEF g
  <2>. QED BY <1>1, <1>3, <2>3
<1>7. CASE Returns
  <2>1. CASE n = 1
    <3>1. stack[1].in = program[a]
      BY <1>1, <2>1, HeadFacts DEF Sane
    <3>2. InQueue(pending', t) \/ ~Missed(t)
      BY <1>1, <1>7, <2>1, <3>1 DEF Returns
    <3>. QED BY <3>2, NeverMissed DEF Moves, Awaited
  <2>2. CASE n = 2
    <3>1. /\ Len(stack') = 1 /\ stack' # <<>> /\ stack'[1].at = a /\ stack'[1].marked
          /\ stack'[1].next = stack[1].next \/ stack'[1].next = t
      BY <1>1, <1>7, <2>2, CallPopped
    <3>2. stack[1].marked /\ 1 \in 1 .. n /\ 1 \in 1 .. n - 1
      BY <1>7, <2>2 DEF Returns
    <3>3. stack[1].at = t /\ t \in past.decoded
      <4>1. stack[1].at = stack[1 + 1].next
        BY <3>2 DEF EInv, Linear
      <4>2. stack[1].at \in past.decoded
        BY <3>2 DEF EInv, Recorded
      <4>. QED BY <1>1, <2>2, <4>1, <4>2
    <3>4. ~Missed(t)
      BY <3>3 DEF Missed
    <3>. QED BY <3>4, NeverMissed DEF Moves, Awaited
  <2>3. CASE n > 2
    <3>1. stack' # <<>> /\ Len(stack') = n - 1 /\ stack'[n - 1] = stack[n]
      BY <1>1, <1>7, <2>3, CallPopped
    <3>. QED BY <1>1, <3>1 DEF GoesOn
  <2>4. n \in Nat /\ n > 0
    BY <1>1
  <2> HIDE DEF n
  <2>5. n = 1 \/ n = 2 \/ n > 2
    BY <2>4
  <2>. QED BY <2>1, <2>2, <2>3, <2>5
<1>8. ~Takes
  BY <1>1 DEF Takes
<1>. QED BY <1>2, <1>4, <1>5, <1>6, <1>7, <1>8 DEF Moves

(* What a step marks is what decoding just entered.                         *)
LEMMA NewlyMarked ==
  ASSUME IInv, EInv, Moves, NEW i \in 1 .. Len(stack'), stack'[i].marked
  PROVE  \/ stack'[i].at \in past.decoded
         \/ i = 1 /\ stack'[1].left = program[stack'[1].at].results
<1>0. stack \in Seq(GoodFrames) /\ Len(stack) \in Nat /\ (stack # <<>> => Len(stack) > 0)
  BY StackFacts
<1>1. \A j \in 1 .. Len(stack) : stack[j].marked => stack[j].at \in past.decoded
  BY DEF EInv, Recorded
<1>2. CASE stack' = stack
  BY <1>1, <1>2
<1>3. ASSUME NEW g, stack # <<>>, Replaces(g), g.at = stack[1].at,
             \/ stack[1].marked
             \/ g.left = program[stack[1].at].results
      PROVE  \/ stack'[i].at \in past.decoded
             \/ i = 1 /\ stack'[1].left = program[stack'[1].at].results
  <2>1. /\ Len(stack') = Len(stack) /\ stack'[1] = g
        /\ \A j \in 2 .. Len(stack) : stack'[j] = stack[j]
    BY <1>3, HeadReplaced
  <2>2. CASE i # 1
    <3>1. i \in 1 .. Len(stack) /\ stack'[i] = stack[i]
      BY <1>0, <2>1, <2>2
    <3>. QED BY <1>1, <3>1
  <2>3. CASE i = 1
    <3>1. 1 \in 1 .. Len(stack)
      BY <1>0, <1>3
    <3>. QED BY <1>1, <1>3, <2>1, <2>3, <3>1
  <2>. QED BY <2>2, <2>3
<1>4. ASSUME NEW b, Pushes(b) PROVE stack'[i].at \in past.decoded
  <2>1. /\ Len(stack') = Len(stack) + 1 /\ ~stack'[1].marked
        /\ \A j \in 1 .. Len(stack) : stack'[j + 1] = stack[j]
    BY <1>4, CallPushed
  <2>2. i - 1 \in 1 .. Len(stack) /\ (i - 1) + 1 = i
    BY <1>0, <2>1
  <2>3. stack'[i] = stack[i - 1]
    BY <2>1, <2>2
  <2>. QED BY <1>1, <2>2, <2>3
<1>5. CASE Takes
  BY <1>2, <1>4, <1>5 DEF Takes
<1>6. CASE Marks
  <2> DEFINE g == [stack[1] EXCEPT !.marked = TRUE]
  <2>1. stack # <<>> /\ ~stack[1].marked /\ Replaces(g) /\ 1 \in 1 .. Len(stack)
    BY <1>0, <1>6 DEF Marks
  <2>2. g.at = stack[1].at /\ g.left = stack[1].left
    BY <2>1, HeadKeeps
  <2> HIDE DEF g
  <2>3. g.left = program[stack[1].at].results
    BY <2>1, <2>2 DEF EInv, Fresh
  <2>. QED BY <1>3, <2>1, <2>2, <2>3
<1>7. CASE Slots
  <2> DEFINE g == [stack[1] EXCEPT !.slots = 0]
  <2>1. stack # <<>> /\ stack[1].marked /\ (Pushes(stack[1].next) \/ Replaces(g))
    BY <1>7 DEF Slots
  <2>2. g.at = stack[1].at
    BY <2>1, HeadKeeps
  <2> HIDE DEF g
  <2>. QED BY <1>3, <1>4, <2>1, <2>2
<1>8. CASE Handles
  <2> DEFINE g == [stack[1] EXCEPT !.left = Tail(@)]
  <2>1. stack # <<>> /\ stack[1].marked /\ Replaces(g)
    BY <1>8 DEF Handles
  <2>2. g.at = stack[1].at
    BY <2>1, HeadKeeps
  <2> HIDE DEF g
  <2>. QED BY <1>3, <2>1, <2>2
<1>9. CASE Returns
  <2>1. CASE Len(stack) = 1
    <3>1. stack' = <<>>
      BY <1>9, <2>1 DEF Returns
    <3>. QED BY <3>1
  <2>2. CASE Len(stack) # 1
    <3>1. /\ Len(stack) > 1 /\ Len(stack') = Len(stack) - 1
          /\ stack'[1].at = stack[2].at /\ stack[2].marked
          /\ \A j \in 3 .. Len(stack) : stack'[j - 1] = stack[j]
      BY <1>9, <2>2, CallPopped
    <3>2. i + 1 \in 1 .. Len(stack) /\ 2 \in 1 .. Len(stack)
      BY <1>0, <3>1
    <3>3. CASE i = 1
      BY <1>1, <3>1, <3>2, <3>3
    <3>4. CASE i # 1
      <4>1. i + 1 \in 3 .. Len(stack) /\ (i + 1) - 1 = i
        BY <1>0, <3>1, <3>4
      <4>2. stack'[i] = stack[i + 1]
        BY <3>1, <4>1
      <4>. QED BY <1>1, <3>2, <4>2
    <3>. QED BY <3>3, <3>4
  <2>. QED BY <2>1, <2>2
<1>. QED BY <1>2, <1>5, <1>6, <1>7, <1>8, <1>9 DEF Moves, Quiet

LEMMA NewlyTaken ==
  ASSUME IInv, EInv, Moves, stack' # <<>>, NEW f, f = stack'[Len(stack')], f.marked
  PROVE  f.at \in past.taken \/ f.next = f.at + program[f.at].size
<1> DEFINE n == Len(stack)
<1>0. stack \in Seq(GoodFrames) /\ n \in Nat /\ (stack # <<>> => n > 0)
  BY StackFacts
<1>1. stack # <<>> /\ stack[n].marked => stack[n].at \in past.taken
  BY DEF EInv, Recorded
<1>2. CASE stack' = stack
  BY <1>1, <1>2
<1>3. ASSUME NEW g, stack # <<>>, Replaces(g), g.at = stack[1].at,
             stack[1].marked \/ g.next = stack[1].at + program[stack[1].at].size
      PROVE  f.at \in past.taken \/ f.next = f.at + program[f.at].size
  <2>1. /\ Len(stack') = n /\ stack'[1] = g /\ \A j \in 2 .. n : stack'[j] = stack[j]
    BY <1>3, HeadReplaced
  <2>2. CASE n # 1
    <3>1. stack'[n] = stack[n]
      BY <1>0, <1>3, <2>1, <2>2
    <3>. QED BY <1>1, <1>3, <2>1, <3>1
  <2>3. CASE n = 1
    BY <1>1, <1>3, <2>1, <2>3
  <2>. QED BY <2>2, <2>3
<1>4. ASSUME NEW b, Pushes(b) PROVE f.at \in past.taken
  <2>1. /\ Len(stack') = n + 1 /\ ~stack'[1].marked
        /\ \A j \in 1 .. n : stack'[j + 1] = stack[j]
    BY <1>4, CallPushed
  <2>2. n # 0
    BY <2>1
  <2>3. stack'[n + 1] = stack[n] /\ stack # <<>>
    BY <1>0, <2>1, <2>2, NoCalls
  <2>. QED BY <1>1, <2>1, <2>3
<1>5. CASE Takes
  BY <1>2, <1>4, <1>5 DEF Takes
<1>6. CASE Marks
  <2> DEFINE g == [stack[1] EXCEPT !.marked = TRUE]
  <2>1. stack # <<>> /\ ~stack[1].marked /\ Replaces(g)
    BY <1>6 DEF Marks
  <2>2. g.at = stack[1].at /\ g.next = stack[1].next
    BY <2>1, HeadKeeps
  <2> HIDE DEF g
  <2>3. g.next = stack[1].at + program[stack[1].at].size
    BY <2>1, <2>2, HeadFacts DEF Sane
  <2>. QED BY <1>3, <2>1, <2>2, <2>3
<1>7. CASE Slots
  <2> DEFINE g == [stack[1] EXCEPT !.slots = 0]
  <2>1. stack # <<>> /\ stack[1].marked /\ (Pushes(stack[1].next) \/ Replaces(g))
    BY <1>7 DEF Slots
  <2>2. g.at = stack[1].at
    BY <2>1, HeadKeeps
  <2> HIDE DEF g
  <2>. QED BY <1>3, <1>4, <2>1, <2>2
<1>8. CASE Handles
  <2> DEFINE g == [stack[1] EXCEPT !.left = Tail(@)]
  <2>1. stack # <<>> /\ stack[1].marked /\ Replaces(g)
    BY <1>8 DEF Handles
  <2>2. g.at = stack[1].at
    BY <2>1, HeadKeeps
  <2> HIDE DEF g
  <2>. QED BY <1>3, <2>1, <2>2
<1>9. CASE Returns
  <2>0. n = 1 => stack' = <<>>
    BY <1>9 DEF Returns
  <2>1. n # 1
    BY <2>0
  <2>2. /\ n > 1 /\ Len(stack') = n - 1 /\ stack'[1].at = stack[2].at /\ stack[2].marked
        /\ \A j \in 3 .. n : stack'[j - 1] = stack[j]
    BY <1>9, <2>1, CallPopped
  <2>3. stack # <<>>
    BY <1>9 DEF Returns
  <2>4. CASE n = 2
    BY <1>1, <2>2, <2>3, <2>4
  <2>5. CASE n # 2
    <3>1. stack'[n - 1] = stack[n]
      BY <1>0, <2>2, <2>5
    <3>. QED BY <1>1, <2>2, <2>3, <3>1
  <2>. QED BY <2>4, <2>5
<1>. QED BY <1>2, <1>5, <1>6, <1>7, <1>8, <1>9 DEF Moves, Quiet

(* Who has the Algorithm. *)
LEMMA StepIdle ==
  ASSUME IInv, EInv, "sweep" \notin Requests, Next, driver' \in {"none", "loader"}
  PROVE  stack' = <<>>
<1> USE DEF algorithm, document
<1>0. driver \in {"none", "loader"} => stack = <<>>
  BY DEF EInv, Idle
<1>1. CASE Load
  BY <1>0, <1>1 DEF Load
<1>2. CASE Drain
  BY <1>2 DEF Drain
<1>3. CASE Drained
  BY <1>3 DEF Drained
<1>4. CASE NextPending
  BY <1>4 DEF NextPending, Draining
<1>5. CASE SetCode \/ DelaySlot \/ ProcessResult \/ Finish
  <2>1. stack # <<>> /\ driver' = driver
    BY <1>5 DEF SetCode, DelaySlot, ProcessResult, Finish
  <2>. QED BY <1>0, <2>1
<1>6. CASE SweepStep
  BY <1>6 DEF SweepStep
<1>7. CASE FunctionBounds
  BY <1>0, <1>7 DEF FunctionBounds
<1>8. ASSUME NEW a \in Addrs,
             Enqueue(a) \/ DisassembleAt(a) \/ SetLabel(a) \/ SetData(a) \/ SetFunction(a)
      PROVE  stack' = <<>>
  <2>1. stack' = stack /\ (driver' = driver \/ driver' = "user")
    BY <1>8 DEF Enqueue, DisassembleAt, SetLabel, SetData, SetFunction
  <2>. QED BY <1>0, <2>1
<1>9. \A a \in Addrs : ~DisassembleBlock(a)
  BY DEF DisassembleBlock
<1>. QED BY <1>1, <1>2, <1>3, <1>4, <1>5, <1>6, <1>7, <1>8, <1>9 DEF Next, Step, Request

LEMMA StepForks ==
  ASSUME IInv, EInv, Moves, Remembers,
         \A a \in past'.decoded :
           a \in past.decoded \/ \E i \in 1 .. Len(stack') : stack'[i].marked /\ stack'[i].at = a
  PROVE  ForksInv'
<1>1. program' = program
  BY DEF Moves
<1>2. ASSUME NEW a \in past.decoded, NEW t \in Forked(program[a].results)
      PROVE  Awaited(t)' \/ LeftOver(stack', a, t)
  <2>1. Awaited(t) \/ LeftOver(stack, a, t)
    BY <1>2 DEF EInv, ForksInv
  <2>. QED BY <2>1, AwaitedStep, LeftStep
<1>3. ASSUME NEW i \in 1 .. Len(stack'), stack'[i].marked,
             NEW t \in Forked(program[stack'[i].at].results)
      PROVE  Awaited(t)' \/ LeftOver(stack', stack'[i].at, t)
  <2>1. CASE stack'[i].at \in past.decoded
    BY <1>2, <1>3, <2>1
  <2>2. CASE i = 1 /\ stack'[1].left = program[stack'[1].at].results
    BY <1>3, <2>2 DEF LeftOver
  <2>. QED BY <1>3, <2>1, <2>2, NewlyMarked
<1>4. ASSUME NEW a \in past'.decoded, NEW t \in Forked(program[a].results)
      PROVE  Awaited(t)' \/ LeftOver(stack', a, t)
  <2>1. CASE a \in past.decoded
    BY <1>2, <1>4, <2>1
  <2>2. CASE a \notin past.decoded
    <3>1. PICK i \in 1 .. Len(stack') : stack'[i].marked /\ stack'[i].at = a
      BY <1>4, <2>2
    <3>. QED BY <1>3, <1>4, <3>1
  <2>. QED BY <2>1, <2>2
<1>. QED BY <1>1, <1>4 DEF ForksInv

LEMMA StepFlow ==
  ASSUME IInv, EInv, Moves, Remembers,
         \A a \in past'.taken :
           \/ a \in past.taken
           \/ stack' # <<>> /\ stack'[Len(stack')].marked /\ stack'[Len(stack')].at = a
  PROVE  FlowInv'
<1>1. program' = program
  BY DEF Moves
<1>2. ASSUME NEW a \in past'.taken, CanFlow(program[a]), NEW t, t = a + program[a].size
      PROVE  Awaited(t)' \/ GoesOn(stack', a, t)
  <2>1. CASE a \in past.taken
    <3>1. Awaited(t) \/ GoesOn(stack, a, t)
      BY <1>2, <2>1 DEF EInv, FlowInv
    <3>. QED BY <1>2, <3>1, AwaitedStep, GoesOnStep
  <2>2. CASE a \notin past.taken
    <3>1. stack' # <<>> /\ stack'[Len(stack')].marked /\ stack'[Len(stack')].at = a
      BY <1>2, <2>2
    <3>2. stack'[Len(stack')].next = t
      BY <1>2, <2>2, <3>1, NewlyTaken
    <3>. QED BY <3>1, <3>2 DEF GoesOn
  <2>. QED BY <2>1, <2>2
<1>3. ASSUME NEW a \in past'.taken, CanFlow(program'[a])
      PROVE  Awaited(a + program[a].size)' \/ GoesOn(stack', a, a + program'[a].size)
  <2>1. \A t : t = a + program[a].size => Awaited(t)' \/ GoesOn(stack', a, t)
    BY <1>1, <1>2, <1>3
  <2>. QED BY <1>1, <2>1
<1>. QED BY <1>3 DEF FlowInv

LEMMA ExplorationStep ==
  ASSUME IInv, EInv, DataFits, "sweep" \notin Requests, HistoryNext
  PROVE  EInv'
<1>0. Next /\ driver' # "loader" /\ (driver = "loader" => Load)
  BY LoaderFirst DEF HistoryNext
<1>1. Idle'
  BY <1>0, StepIdle DEF Idle
<1>2. CASE Load
  <2>1. /\ stack = <<>> /\ stack' = <<>> /\ past.decoded = {} /\ past.taken = {}
        /\ stack' \in Seq(GoodFrames) /\ Len(stack') = 0
    BY <1>2 DEF Load, EInv, Idle, NoPast
  <2>2. Recorded' /\ past'.decoded = {} /\ past'.taken = {}
    <3>1. /\ Recorded'
          /\ \A a \in past'.decoded :
               \/ a \in past.decoded
               \/ \E i \in 1 .. Len(stack') : stack'[i].marked /\ stack'[i].at = a
          /\ \A a \in past'.taken :
               \/ a \in past.taken
               \/ stack' # <<>> /\ stack'[Len(stack')].marked /\ stack'[Len(stack')].at = a
      BY <2>1, PastGains
    <3>. QED BY <2>1, <3>1
  <2>3. ForksInv' /\ FlowInv'
    BY <2>2 DEF ForksInv, FlowInv
  <2>4. Fresh(stack)' /\ Linear(stack)'
    BY <2>1 DEF Fresh, Linear
  <2>. QED BY <1>1, <2>2, <2>3, <2>4 DEF EInv
<1>3. CASE ~Load
  <2>1. Moves
    BY <1>0, <1>3, StepMoves DEF Moves
  <2>2. stack' \in Seq(GoodFrames) /\ Fresh(stack') /\ Linear(stack')
    BY <2>1, StackGoes DEF Moves
  <2>3. Fresh(stack)' /\ Linear(stack)'
    BY <2>1, <2>2 DEF Moves, Fresh, Linear
  <2>4. /\ Remembers
        /\ \A a \in past'.decoded :
             \/ a \in past.decoded
             \/ \E i \in 1 .. Len(stack') : stack'[i].marked /\ stack'[i].at = a
        /\ \A a \in past'.taken :
             \/ a \in past.taken
             \/ stack' # <<>> /\ stack'[Len(stack')].marked /\ stack'[Len(stack')].at = a
    BY <2>2, PastGains DEF Remembers
  <2>5. ForksInv'
    BY <2>1, <2>4, StepForks
  <2>6. FlowInv'
    BY <2>1, <2>4, StepFlow
  <2>7. Recorded'
    BY <2>4 DEF Remembers
  <2>. QED BY <1>1, <2>3, <2>5, <2>6, <2>7 DEF EInv
<1>. QED BY <1>2, <1>3

LEMMA InitEInv == ASSUME HistoryInit PROVE EInv
<1> DEFINE new == NewBlock(Base, Limit, "Unknown", 0)
<1>1. stack = <<>> /\ past = NoPast /\ blocks = {new}
  BY DEF HistoryInit, Init
<1>2. Len(stack) = 0
  BY <1>1
<1>3. new.type = "Unknown"
  BY DEF NewBlock
<1> HIDE DEF new
<1>4. Covered = {}
  BY <1>1, <1>3 DEF Covered
<1>5. ForksInv /\ FlowInv
  BY <1>1 DEF ForksInv, FlowInv, NoPast
<1>6. Fresh(stack) /\ Linear(stack) /\ Recorded /\ Idle
  BY <1>1, <1>2, <1>4 DEF Fresh, Linear, Recorded, Idle
<1>. QED BY <1>5, <1>6 DEF EInv

(* Nothing that decoded code leads to is missed: however the requests of    *)
(* other threads, guesses and facts, delay slots and branches into the      *)
(* middle of an instruction follow each other, when the queue is empty each *)
(* target of a decoded instruction was decoded or looked at.                *)
THEOREM AllExplored ==
  ASSUME DataFits, "sweep" \notin Requests PROVE HistorySpec => []Explored
<1>1. ASSUME IInv /\ EInv, [HistoryNext]_historyVars PROVE (IInv /\ EInv)'
  <2>1. CASE HistoryNext
    <3>1. IInv'
      BY <1>1, <2>1, StepControl, StepLoader, StepLabels, StepBlocks, StepNet, NetInvIsGoodNet
      DEF IInv, HistoryNext
    <3>. QED BY <1>1, <2>1, <3>1, ExplorationStep
  <2>2. CASE UNCHANGED historyVars
    <3>1. UNCHANGED vars /\ past' = past
      BY <2>2 DEF historyVars
    <3>2. IInv'
      BY <1>1, <3>1 DEF IInv, ControlInv, LoaderInv, LabelInv, BlockInv, NetInv, vars, algorithm,
         document, Stacked, GoodFrames, Sane, Waiting, CodeIsInstruction, IsWhole,
         LinksHaveBothEnds
    <3>3. EInv'
      BY <1>1, <3>1 DEF EInv, ForksInv, FlowInv, Awaited, Missed, Fresh, Linear, Recorded,
         Covered, Idle, vars, algorithm, document
    <3>. QED BY <3>2, <3>3
  <2>. QED BY <1>1, <2>1, <2>2
<1>2. HistoryInit => IInv /\ EInv
  BY InitIInv, InitEInv DEF HistoryInit
<1>3. IInv /\ EInv => Explored
  <2> SUFFICES ASSUME IInv, EInv, driver = "none", pending = <<>> PROVE Explored
    BY DEF Explored
  <2>1. stack = <<>>
    BY DEF EInv, Idle
  <2>2. \A t : Awaited(t) => ~Missed(t)
    BY <2>1 DEF Awaited, InQueue, Entered
  <2>3. \A a, t : ~LeftOver(stack, a, t) /\ ~GoesOn(stack, a, t)
    BY <2>1 DEF LeftOver, GoesOn
  <2>4. \A a \in past.decoded : \A t \in Forked(program[a].results) : ~Missed(t)
    BY <2>2, <2>3 DEF EInv, ForksInv
  <2>5. \A a \in past.taken : CanFlow(program[a]) => ~Missed(a + program[a].size)
    BY <2>2, <2>3 DEF EInv, FlowInv
  <2>. QED BY <2>4, <2>5 DEF Explored
<1>. QED BY <1>1, <1>2, <1>3, PTL DEF HistorySpec
=============================================================================
