--------------------------- MODULE LocationsProofs ---------------------------
(***************************************************************************)
(* What the walk over pointers and tables never does, for segments,        *)
(* memories and requests of any size, as long as no item reaches past the  *)
(* end of its segment: it never enters an address twice, so it is no       *)
(* deeper than there are addresses, and it leaves no reference out.        *)
(***************************************************************************)
EXTENDS Locations, AddressSpace, Lemmas

DataFits == (\A m \in Images : ImageFits(m)) /\ (\A r \in Requests : RequestFits(r))

Callers == Addrs \cup {Loader}

(* A call of checkTable.  Once it found a pointer, its address has a label  *)
(* and refers to who asked.                                                 *)
GoodFrames ==
  {f \in Frames :
     /\ InSegment(f.at, f.size)
     /\ f.from = Loader => f.kind = "location"
     /\ f.count = 0 => f.pos = f.at}

Referred(n, from, a) == from \in {Loader, a} \/ from \in n.refs[a]

Begun(f, L, n) == f.count > 0 => f.at \in L /\ Referred(n, f.from, f.at)

(* A call that waits for the walk from one of its pointers.                 *)
Waiting(f, L) == f.at \in L /\ f.kind \in Walking

Stacked(S, L, n) ==
  /\ S \in Seq(GoodFrames)
  /\ \A i \in 1 .. Len(S) : Begun(S[i], L, n)
  /\ \A i \in 1 .. Len(S) : i > 1 => Waiting(S[i], L)
  /\ \A i \in 1 .. Len(S) : i < Len(S) => S[i].kind = "location"
  /\ \A i, j \in 1 .. Len(S) : S[i].at = S[j].at => i = j

(* Where the walk looks for a pointer, a string, code or data. *)
Pending(S) == {a \in Addrs : \E i \in 1 .. Len(S) : S[i].kind = "location" /\ S[i].at = a}

Leads(m, p, S, L, n) ==
  /\ Points(m, p) /\ p \in n.refs[Value(m, p)]
  /\ Value(m, p) \in L \cup Pending(S) \/ ~Code(Value(m, p))

Grows(n, m) == \A a \in Addrs : n.refs[a] \subseteq m.refs[a]

MemoryInv ==
  /\ image \in Images \cup {NoImage}
  /\ image = NoImage => stack = <<>> /\ pointers = {}

LabelInv ==
  /\ labels \subseteq Addrs /\ pointers \subseteq labels
  /\ functions \subseteq labels /\ queued \subseteq labels

BlockInv ==
  /\ blocks \in [Segments -> SUBSET Block]
  /\ \A s \in Segments : Tiles(blocks[s], s.start, s.end)

WalkInv ==
  /\ Stacked(stack, labels, net) /\ net \in NetType(Addrs)
  /\ \A p \in pointers : Leads(image, p, stack, labels, net)

IInv == asked \in 0 .. MaxRequests /\ MemoryInv /\ LabelInv /\ BlockInv /\ WalkInv
-----------------------------------------------------------------------------
(* Segments and the addresses in them. *)
LEMMA SegmentFacts ==
  /\ Addrs \subseteq Nat /\ Loader \notin Addrs
  /\ \A a \in Addrs : /\ SegmentOf(a) \in Segments
                      /\ SegmentOf(a).start <= a /\ a < SegmentOf(a).end
  /\ \A a \in Addrs : \A s \in Segments : s.start <= a /\ a < s.end => s = SegmentOf(a)
  /\ \A s \in Segments : /\ s.start \in Nat /\ s.end \in Nat
                         /\ \A a \in Nat : s.start <= a /\ a < s.end => a \in Addrs
<1>1. \A s \in Segments : s.start \in 1 .. Top /\ s.end \in 1 .. Top /\ Top \in Nat
  BY SegmentsAssumption
<1>2. Addrs \subseteq Nat /\ Loader \notin Addrs
  BY DEF Addrs, Loader, NoNext
<1>3. ASSUME NEW a \in Addrs
      PROVE  /\ SegmentOf(a) \in Segments
             /\ SegmentOf(a).start <= a /\ a < SegmentOf(a).end
  BY DEF Addrs, SegmentOf
<1>4. ASSUME NEW a \in Addrs, NEW s \in Segments, s.start <= a, a < s.end
      PROVE  s = SegmentOf(a)
  <2>1. \A t, u \in Segments : t = u \/ t.end <= u.start \/ u.end <= t.start
    BY SegmentsAssumption
  <2>2. s = SegmentOf(a) \/ s.end <= SegmentOf(a).start \/ SegmentOf(a).end <= s.start
    BY <1>3, <2>1
  <2>3. SegmentOf(a).start <= a /\ a < SegmentOf(a).end
    BY <1>3
  <2>4. SegmentOf(a).start \in Nat /\ SegmentOf(a).end \in Nat /\ s.start \in Nat
        /\ s.end \in Nat /\ a \in Nat
    BY <1>1, <1>2, <1>3
  <2>. QED BY <1>4, <2>2, <2>3, <2>4
<1>5. ASSUME NEW s \in Segments, NEW a \in Nat, s.start <= a, a < s.end
      PROVE  a \in Addrs
  <2>1. s.start \in 1 .. Top /\ s.end \in 1 .. Top
    BY <1>1
  <2>2. a \in 1 .. Top
    BY <1>5, <2>1, SegmentsAssumption
  <2>. QED BY <1>5, <2>2 DEF Addrs
<1>6. \A s \in Segments : s.start \in Nat /\ s.end \in Nat
  BY <1>1
<1>. QED BY <1>2, <1>3, <1>4, <1>5, <1>6

(* A pointer lies in its segment and leads to where another fits. *)
LEMMA PointsFacts ==
  ASSUME NEW m \in Images, ImageFits(m), NEW a, Points(m, a)
  PROVE  /\ a \in Addrs /\ a # Loader /\ Value(m, a) \in Addrs
         /\ InSegment(a, Width) /\ InSegment(Value(m, a), Width)
BY SegmentFacts DEF Points, CanRead, ImageFits
-----------------------------------------------------------------------------
(* The stack: what grows with labels and references, push, replace, pop. *)
LEMMA StackGrows ==
  ASSUME NEW S, NEW L, NEW n, Stacked(S, L, n), NEW M, L \subseteq M,
         NEW m, Grows(n, m)
  PROVE  Stacked(S, M, m)
<1>1. \A i \in 1 .. Len(S) : S[i] \in GoodFrames /\ S[i].at \in Addrs
  BY DEF Stacked, GoodFrames, Frames
<1>2. \A i \in 1 .. Len(S) : Begun(S[i], M, m)
  BY <1>1 DEF Stacked, Begun, Referred, Grows
<1>3. \A i \in 1 .. Len(S) : i > 1 => Waiting(S[i], M)
  BY DEF Stacked, Waiting
<1>. QED BY <1>2, <1>3 DEF Stacked

LEMMA StackPop ==
  ASSUME NEW S, NEW L, NEW n, Stacked(S, L, n), S # <<>>
  PROVE  Stacked(Tail(S), L, n)
<1>1. /\ Tail(S) \in Seq(GoodFrames) /\ Len(S) \in Nat /\ Len(Tail(S)) = Len(S) - 1
      /\ \A i \in 1 .. Len(S) - 1 : Tail(S)[i] = S[i + 1]
  BY HeadTail DEF Stacked
<1>2. \A i \in 1 .. Len(Tail(S)) : Tail(S)[i] = S[i + 1] /\ i + 1 \in 1 .. Len(S)
  BY <1>1
<1>3. \A i \in 1 .. Len(Tail(S)) : Begun(Tail(S)[i], L, n)
  BY <1>2 DEF Stacked
<1>4. \A i \in 1 .. Len(Tail(S)) : i > 1 => Waiting(Tail(S)[i], L)
  <2>1. \A i \in 1 .. Len(Tail(S)) : i + 1 > 1
    OBVIOUS
  <2>. QED BY <1>2, <2>1 DEF Stacked
<1>5. \A i \in 1 .. Len(Tail(S)) : i < Len(Tail(S)) => Tail(S)[i].kind = "location"
  <2>1. \A i \in 1 .. Len(Tail(S)) : i < Len(Tail(S)) => i + 1 < Len(S)
    BY <1>1
  <2>. QED BY <1>2, <2>1 DEF Stacked
<1>6. \A i, j \in 1 .. Len(Tail(S)) : Tail(S)[i].at = Tail(S)[j].at => i = j
  <2>1. \A i, j \in 1 .. Len(Tail(S)) : i + 1 = j + 1 => i = j
    OBVIOUS
  <2>2. \A i, j \in 1 .. Len(Tail(S)) : Tail(S)[i].at = Tail(S)[j].at => i + 1 = j + 1
    BY <1>2 DEF Stacked
  <2>. QED BY <2>1, <2>2
<1>. QED BY <1>1, <1>3, <1>4, <1>5, <1>6 DEF Stacked

LEMMA StackPush ==
  ASSUME NEW S, NEW L, NEW n, Stacked(S, L, n), NEW f \in GoodFrames, Begun(f, L, n),
         S # <<>> => Waiting(Head(S), L) /\ f.kind = "location",
         \A i \in 1 .. Len(S) : S[i].at # f.at
  PROVE  Stacked(<<f>> \o S, L, n)
<1> DEFINE T == <<f>> \o S
<1>1. /\ S \in Seq(GoodFrames) /\ T \in Seq(GoodFrames) /\ Len(S) \in Nat /\ Len(T) = Len(S) + 1
      /\ T[1] = f /\ \A i \in 1 .. Len(S) : T[i + 1] = S[i]
  BY Pushed DEF Stacked
<1> HIDE DEF T
<1>2. ASSUME NEW i \in 1 .. Len(T), i # 1
      PROVE  i - 1 \in 1 .. Len(S) /\ T[i] = S[i - 1]
  <2>1. i - 1 \in 1 .. Len(S) /\ (i - 1) + 1 = i
    BY <1>1, <1>2
  <2>2. T[(i - 1) + 1] = S[i - 1]
    BY <1>1, <2>1
  <2>. QED BY <2>1, <2>2
<1>3. \A i \in 1 .. Len(T) : Begun(T[i], L, n)
  BY <1>1, <1>2 DEF Stacked
<1>4. ASSUME NEW i \in 1 .. Len(T), i > 1 PROVE Waiting(T[i], L)
  <2>1. i - 1 \in 1 .. Len(S) /\ T[i] = S[i - 1]
    BY <1>2, <1>4
  <2>2. CASE i = 2
    <3>1. S # <<>> /\ S[1] = Head(S)
      BY <2>1, <2>2, <1>1, HeadTail
    <3>. QED BY <3>1, <2>1, <2>2
  <2>3. CASE i # 2
    <3>1. i - 1 > 1
      BY <1>4, <2>3
    <3>. QED BY <2>1, <3>1 DEF Stacked
  <2>. QED BY <2>2, <2>3
<1>5. ASSUME NEW i \in 1 .. Len(T), i < Len(T) PROVE T[i].kind = "location"
  <2>1. CASE i = 1
    <3>1. S # <<>>
      BY <1>1, <1>5, <2>1
    <3>. QED BY <3>1, <2>1, <1>1
  <2>2. CASE i # 1
    <3>1. i - 1 \in 1 .. Len(S) /\ T[i] = S[i - 1] /\ i - 1 < Len(S)
      BY <1>1, <1>2, <1>5, <2>2
    <3>. QED BY <3>1 DEF Stacked
  <2>. QED BY <2>1, <2>2
<1>6. ASSUME NEW i \in 1 .. Len(T), NEW j \in 1 .. Len(T), T[i].at = T[j].at PROVE i = j
  <2>1. CASE i = 1 \/ j = 1
    BY <1>1, <1>2, <1>6, <2>1
  <2>2. CASE i # 1 /\ j # 1
    <3>1. S[i - 1].at = S[j - 1].at /\ i - 1 \in 1 .. Len(S) /\ j - 1 \in 1 .. Len(S)
      BY <1>2, <1>6, <2>2
    <3>2. i - 1 = j - 1
      BY <3>1 DEF Stacked
    <3>. QED BY <3>2
  <2>. QED BY <2>1, <2>2
<1>. QED BY <1>1, <1>3, <1>4, <1>5, <1>6 DEF Stacked, T

(* The innermost call and those that wait for it. *)
LEMMA StackHead ==
  ASSUME NEW S, NEW L, NEW n, Stacked(S, L, n), S # <<>>
  PROVE  /\ Head(S) \in GoodFrames /\ Begun(Head(S), L, n)
         /\ Tail(S) # <<>> => Waiting(Head(Tail(S)), L) /\ Head(S).kind = "location"
         /\ \A i \in 1 .. Len(Tail(S)) : Tail(S)[i].at # Head(S).at /\ Tail(S)[i].at \in L
<1>1. /\ S \in Seq(GoodFrames) /\ Head(S) \in GoodFrames /\ Head(S) = S[1]
      /\ Tail(S) \in Seq(GoodFrames) /\ Len(S) \in Nat /\ Len(S) > 0 /\ Len(Tail(S)) = Len(S) - 1
      /\ \A i \in 1 .. Len(S) - 1 : Tail(S)[i] = S[i + 1]
  BY HeadTail DEF Stacked
<1>2. 1 \in 1 .. Len(S)
  BY <1>1
<1>3. ASSUME NEW i \in 1 .. Len(Tail(S))
      PROVE  Tail(S)[i] = S[i + 1] /\ i + 1 \in 1 .. Len(S) /\ i + 1 > 1 /\ i + 1 # 1
  BY <1>1
<1>4. ASSUME Tail(S) # <<>>
      PROVE  Head(Tail(S)) = Tail(S)[1] /\ 1 \in 1 .. Len(Tail(S)) /\ 1 < Len(S)
  BY <1>1, <1>4, HeadTail
<1>5. Tail(S) # <<>> => Waiting(Head(Tail(S)), L) /\ Head(S).kind = "location"
  BY <1>1, <1>2, <1>3, <1>4 DEF Stacked
<1>6. ASSUME NEW i \in 1 .. Len(Tail(S))
      PROVE  Tail(S)[i].at # Head(S).at /\ Tail(S)[i].at \in L
  BY <1>1, <1>2, <1>3 DEF Stacked, Waiting
<1>. QED BY <1>1, <1>2, <1>5, <1>6 DEF Stacked

LEMMA StackReplace ==
  ASSUME NEW S, NEW L, NEW n, Stacked(S, L, n), S # <<>>,
         NEW f \in GoodFrames, Begun(f, L, n), f.at = Head(S).at, f.kind = Head(S).kind
  PROVE  Stacked(<<f>> \o Tail(S), L, n)
BY StackPop, StackPush, StackHead

LEMMA PendingPushed ==
  ASSUME NEW S \in Seq(GoodFrames), NEW f \in GoodFrames
  PROVE  Pending(<<f>> \o S) = Pending(S) \cup IF f.kind = "location" THEN {f.at} ELSE {}
<1> DEFINE T == <<f>> \o S
<1>1. /\ Len(S) \in Nat /\ Len(T) = Len(S) + 1 /\ T[1] = f
      /\ \A i \in 1 .. Len(S) : T[i + 1] = S[i]
  BY Pushed
<1>2. f.at \in Addrs
  BY DEF GoodFrames, Frames
<1> HIDE DEF T
<1>3. ASSUME NEW a \in Pending(T), ~(f.kind = "location" /\ f.at = a) PROVE a \in Pending(S)
  <2>1. PICK i \in 1 .. Len(T) : T[i].kind = "location" /\ T[i].at = a
    BY DEF Pending
  <2>2. i # 1
    BY <1>1, <1>3, <2>1
  <2>3. i - 1 \in 1 .. Len(S) /\ (i - 1) + 1 = i
    BY <1>1, <2>2
  <2>4. T[(i - 1) + 1] = S[i - 1]
    BY <1>1, <2>3
  <2>. QED BY <2>1, <2>3, <2>4 DEF Pending
<1>4. ASSUME NEW a \in Pending(S) PROVE a \in Pending(T)
  <2>1. PICK i \in 1 .. Len(S) : S[i].kind = "location" /\ S[i].at = a
    BY DEF Pending
  <2>2. i + 1 \in 1 .. Len(T) /\ T[i + 1] = S[i]
    BY <1>1
  <2>. QED BY <2>1, <2>2 DEF Pending
<1>5. f.kind = "location" => f.at \in Pending(T)
  <2>1. 1 \in 1 .. Len(T)
    BY <1>1
  <2>. QED BY <1>1, <1>2, <2>1 DEF Pending
<1>. QED BY <1>3, <1>4, <1>5 DEF T

LEMMA PendingHead ==
  ASSUME NEW S \in Seq(GoodFrames), S # <<>>
  PROVE  Pending(S) = Pending(Tail(S)) \cup
                      IF Head(S).kind = "location" THEN {Head(S).at} ELSE {}
<1>1. S = <<Head(S)>> \o Tail(S) /\ Head(S) \in GoodFrames /\ Tail(S) \in Seq(GoodFrames)
  BY HeadTail, Repushed
<1>. QED BY <1>1, PendingPushed
-----------------------------------------------------------------------------
(* References and links only add to the references there are. *)
LEMMA ReferKeeps ==
  ASSUME NEW n \in NetType(Addrs), NEW from \in Callers, NEW B \in SUBSET Addrs
  PROVE  /\ Refer(n, from, B) \in NetType(Addrs) /\ Grows(n, Refer(n, from, B))
         /\ \A b \in B : from = Loader \/ from \in Refer(n, from, B).refs[b]
<1>1. CASE from = Loader
  BY <1>1 DEF Refer, Grows
<1>2. CASE from # Loader
  <2> DEFINE R == [b \in DOMAIN n.refs |-> IF b \in B THEN n.refs[b] \cup {from} ELSE n.refs[b]]
  <2>1. from \in Addrs
    BY <1>2 DEF Callers
  <2>2. n.refs \in [Addrs -> SUBSET Addrs]
    BY DEF NetType
  <2>3. /\ R \in [Addrs -> SUBSET Addrs]
        /\ \A b \in Addrs : n.refs[b] \subseteq R[b]
        /\ \A b \in B : from \in R[b]
    BY <2>1, <2>2
  <2>4. Refer(n, from, B) = [n EXCEPT !.refs = R]
    BY <1>2 DEF Refer
  <2> HIDE DEF R
  <2>5. [n EXCEPT !.refs = R] \in NetType(Addrs) /\ [n EXCEPT !.refs = R].refs = R
    BY <2>3 DEF NetType
  <2>. QED BY <2>3, <2>4, <2>5 DEF Grows
<1>. QED BY <1>1, <1>2

LEMMA LinkKeeps ==
  ASSUME NEW n \in NetType(Addrs), NEW a \in Addrs, NEW b \in Addrs
  PROVE  /\ LinkCall(n, a, b) \in NetType(Addrs) /\ Grows(n, LinkCall(n, a, b))
         /\ LinkJump(n, a, b) \in NetType(Addrs) /\ Grows(n, LinkJump(n, a, b))
<1>1. /\ [n.calls EXCEPT ![a] = @ \cup {b}] \in [Addrs -> SUBSET Addrs]
      /\ [n.jumps EXCEPT ![a] = @ \cup {b}] \in [Addrs -> SUBSET Addrs]
      /\ [n.from EXCEPT ![b] = @ \cup {a}] \in [Addrs -> SUBSET Addrs]
      /\ [n.refs EXCEPT ![b] = @ \cup {a}] \in [Addrs -> SUBSET Addrs]
  BY DEF NetType
<1>2. LinkCall(n, a, b) \in NetType(Addrs)
      /\ LinkCall(n, a, b).refs = [n.refs EXCEPT ![b] = @ \cup {a}]
  BY <1>1 DEF LinkCall, NetType
<1>3. LinkJump(n, a, b) \in NetType(Addrs)
      /\ LinkJump(n, a, b).refs = [n.refs EXCEPT ![b] = @ \cup {a}]
  BY <1>1 DEF LinkJump, NetType
<1>4. \A x \in Addrs : n.refs[x] \subseteq [n.refs EXCEPT ![b] = @ \cup {a}][x]
  BY DEF NetType
<1>. QED BY <1>2, <1>3, <1>4 DEF Grows

LEMMA GrowsTwice ==
  ASSUME NEW n, NEW m, NEW l, Grows(n, m), Grows(m, l)
  PROVE  Grows(n, l)
BY DEF Grows

(* What checkLocation is called with, over the calls in S. *)
Callable(S, L, n, kind, from, a, size, dataonly) ==
  /\ L \in SUBSET Addrs /\ n \in NetType(Addrs) /\ Stacked(S, L, n)
  /\ from \in Callers /\ a \in Addrs /\ size \in Nat \ {0} /\ InSegment(a, size)
  /\ kind \in {"location", "slot"} /\ dataonly \in BOOLEAN
  /\ from = Loader => kind = "location"
  /\ S # <<>> => Waiting(Head(S), L) /\ kind = "location"
  /\ \A i \in 1 .. Len(S) : S[i].at # a \/ a \in L

(* What it does before it walks on: nothing, a reference, or the call of    *)
(* checkTable.                                                              *)
Checked(S, L, n, kind, from, a, T, m) ==
  /\ Stacked(T, L, m) /\ m \in NetType(Addrs) /\ Grows(n, m)
  /\ \/ T = S /\ Referred(m, from, a)
     \/ Len(T) = Len(S) + 1
  /\ Pending(S) \subseteq Pending(T)
  /\ from = a \/ a \in L \/ (kind = "location" => a \in Pending(T))

LEMMA CheckLocationKeeps ==
  ASSUME NEW S, NEW L, NEW n, NEW P, NEW kind, NEW from, NEW a, NEW size, NEW dataonly,
         Callable(S, L, n, kind, from, a, size, dataonly),
         CheckLocation(S, n, L, P, kind, from, a, size, dataonly)
  PROVE  Checked(S, L, n, kind, from, a, stack', net')
<1> USE DEF Callable
<1>1. CASE from = a
  BY <1>1 DEF CheckLocation, Grows, Checked, Referred
<1>2. CASE from # a /\ a \in L
  <2> DEFINE B == {a} \cup IF a \in P /\ Points(image, a) THEN {Value(image, a)} ELSE {}
             m == Refer(n, from, B)
  <2>1. B \in SUBSET Addrs /\ a \in B
    BY DEF Points
  <2>2. stack' = S /\ net' = IF kind = "slot" THEN LinkCall(m, from, a) ELSE m
    BY <1>2 DEF CheckLocation
  <2> HIDE DEF B
  <2>3. m \in NetType(Addrs) /\ Grows(n, m) /\ (from = Loader \/ from \in m.refs[a])
    BY <2>1, ReferKeeps
  <2> HIDE DEF m
  <2>4. kind = "slot" => from \in Addrs
    BY DEF Callers
  <2>5. net' \in NetType(Addrs) /\ Grows(m, net') /\ Grows(n, net')
    <3>1. CASE kind = "slot"
      BY <2>2, <2>3, <2>4, <3>1, LinkKeeps, GrowsTwice
    <3>2. CASE kind # "slot"
      BY <2>2, <2>3, <3>2 DEF Grows
    <3>. QED BY <3>1, <3>2
  <2>6. Referred(net', from, a)
    BY <2>3, <2>5 DEF Referred, Grows
  <2>7. Stacked(S, L, net')
    BY <2>5, StackGrows
  <2>. QED BY <1>2, <2>2, <2>5, <2>6, <2>7 DEF Checked
<1>3. CASE from # a /\ a \notin L
  <2> DEFINE f == Frame(kind, from, a, size, dataonly, PointerLimit(size))
  <2>1. stack' = <<f>> \o S /\ net' = n
    BY <1>3 DEF CheckLocation
  <2>2. PointerLimit(size) \in Nat \cup {Unlimited} /\ a \in Nat /\ kind \in RequestKinds
    BY SegmentFacts DEF PointerLimit, RequestKinds
  <2>3. f \in GoodFrames /\ f.count = 0 /\ f.at = a /\ f.kind = kind
    BY <2>2 DEF Frame, GoodFrames, Frames, Callers
  <2> HIDE DEF f
  <2>4. Begun(f, L, n)
    BY <2>3 DEF Begun
  <2>5. Stacked(<<f>> \o S, L, n)
    BY <1>3, <2>3, <2>4, StackPush
  <2>6. Pending(<<f>> \o S) = Pending(S) \cup IF f.kind = "location" THEN {f.at} ELSE {}
    BY <2>3, PendingPushed DEF Stacked
  <2>7. Len(<<f>> \o S) = Len(S) + 1
    BY <2>3, Pushed DEF Stacked
  <2>. QED BY <2>1, <2>3, <2>5, <2>6, <2>7 DEF Checked, Grows
<1>. QED BY <1>1, <1>2, <1>3
-----------------------------------------------------------------------------
(* The blocks: an item inside a segment keeps them whole, so every address  *)
(* has a block, and every address that is marked gets its label.            *)
LEMMA FoundOne ==
  ASSUME BlockInv, NEW a \in Addrs
  PROVE  Found(a) = {SegmentOf(a)} /\ Known(a) = {a}
<1>1. a \in Nat /\ SegmentOf(a) \in Segments /\ SegmentOf(a).start <= a /\ a < SegmentOf(a).end
      /\ SegmentOf(a).start \in Nat /\ SegmentOf(a).end \in Nat
  BY SegmentFacts
<1>2. SegmentOf(a) \in Found(a)
  <2>1. a \in SegmentOf(a).start .. SegmentOf(a).end - 1
    BY <1>1
  <2>. QED BY <1>1, <2>1 DEF BlockInv, Tiles, Covers, Found
<1>3. ASSUME NEW s \in Found(a) PROVE s = SegmentOf(a)
  <2>1. s \in Segments /\ \E b \in blocks[s] : Contains(b, a)
    BY DEF Found
  <2>2. PICK b \in blocks[s] : Contains(b, a)
    BY <2>1
  <2>3. b \in Block /\ s.start <= b.start /\ b.end <= s.end
    BY <2>1 DEF BlockInv, Tiles, Within
  <2>4. b.start \in Nat /\ b.end \in Nat /\ s.start \in Nat /\ s.end \in Nat
    BY <2>1, <2>3, SegmentFacts DEF Block
  <2>5. s.start <= a /\ a < s.end
    BY <1>1, <2>2, <2>3, <2>4 DEF Contains
  <2>. QED BY <2>1, <2>5, SegmentFacts
<1>. QED BY <1>2, <1>3 DEF Known

LEMMA MarkAtKeeps ==
  ASSUME BlockInv, NEW a \in Addrs, NEW n \in Nat \ {0}, InSegment(a, n),
         NEW type \in BlockTypes, MarkAt(a, n, type)
  PROVE  BlockInv'
<1> DEFINE s == SegmentOf(a)
<1>1. /\ s \in Segments /\ a \in Nat /\ a + n \in Nat /\ s.start \in Nat /\ s.end \in Nat
      /\ s.start <= a /\ a < a + n /\ a + n <= s.end
  <2>1. s \in Segments /\ a \in Nat /\ s.start <= a /\ a + n <= s.end
        /\ s.start \in Nat /\ s.end \in Nat
    BY SegmentFacts DEF InSegment
  <2>. QED BY <2>1
<1>2. blocks' = [blocks EXCEPT ![s] = Mark(@, a, a + n, type, 0)]
  BY FoundOne DEF MarkAt
<1> HIDE DEF s
<1>3. Tiles(Mark(blocks[s], a, a + n, type, 0), s.start, s.end)
  <2>1. Tiles(blocks[s], s.start, s.end)
    BY <1>1 DEF BlockInv
  <2>2. Marked(blocks[s], Mark(blocks[s], a, a + n, type, 0), s.start, s.end, a, a + n, type, 0)
    BY <1>1, <2>1, MarkResult
  <2>. QED BY <2>2 DEF Marked
<1>4. Mark(blocks[s], a, a + n, type, 0) \in SUBSET Block
  BY <1>3 DEF Tiles, Sound
<1> HIDE DEF Tiles
<1>5. blocks' \in [Segments -> SUBSET Block]
  BY <1>1, <1>2, <1>4 DEF BlockInv
<1>6. \A t \in Segments : Tiles(blocks'[t], t.start, t.end)
  BY <1>1, <1>2, <1>3 DEF BlockInv
<1>. QED BY <1>5, <1>6 DEF BlockInv, Tiles
-----------------------------------------------------------------------------
(* The steps.  One lemma for each action. *)
LEMMA LeadsGrows ==
  ASSUME NEW m, NEW p, NEW S, NEW L, NEW n, Leads(m, p, S, L, n),
         NEW T, NEW M, NEW k, L \subseteq M, Grows(n, k), Pending(S) \subseteq M \cup Pending(T)
  PROVE  Leads(m, p, T, M, k)
<1>1. Value(m, p) \in Addrs
  BY DEF Leads, Points
<1>. QED BY <1>1 DEF Leads, Grows

(* While a walk goes on, the memory is there, and what it reads from it     *)
(* fits.                                                                    *)
LEMMA WalkFacts ==
  ASSUME IInv, DataFits, stack # <<>>
  PROVE  /\ image # NoImage /\ image \in Images /\ ImageFits(image)
         /\ Stacked(stack, labels, net) /\ stack \in Seq(GoodFrames)
         /\ Head(stack) \in GoodFrames /\ Head(stack) \in Frames
         /\ Head(stack).at \in Addrs /\ Head(stack).from \in Callers
         /\ net \in NetType(Addrs) /\ labels \in SUBSET Addrs
<1>1. image # NoImage /\ image \in Images /\ Stacked(stack, labels, net) /\ net \in NetType(Addrs) /\ labels \in SUBSET Addrs
  BY DEF IInv, MemoryInv, WalkInv, LabelInv
<1>2. Head(stack) \in GoodFrames
  BY <1>1, StackHead
<1>. QED BY <1>1, <1>2 DEF DataFits, Stacked, GoodFrames, Frames, Callers

LEMMA EntryKeeps ==
  ASSUME net \in NetType(Addrs), NEW f \in GoodFrames, f.pos \in Addrs, NEW t \in Addrs
  PROVE  /\ Entry(f, t) \in NetType(Addrs) /\ Grows(net, Entry(f, t))
         /\ f.pos \in Entry(f, t).refs[t]
         /\ f.count = 0 => Referred(Entry(f, t), f.from, f.at)
<1> DEFINE m == IF f.count = 0 THEN Refer(net, f.from, {f.pos}) ELSE net
<1>1. f.from \in Callers /\ f.pos \in Callers /\ f.pos # Loader
  BY SegmentFacts DEF GoodFrames, Frames, Callers
<1>2. /\ m \in NetType(Addrs) /\ Grows(net, m)
      /\ f.count = 0 => f.from = Loader \/ f.from \in m.refs[f.pos]
  <2>1. CASE f.count = 0
    BY <1>1, <2>1, ReferKeeps
  <2>2. CASE f.count # 0
    BY <2>2 DEF Grows
  <2>. QED BY <2>1, <2>2
<1>3. Entry(f, t) = Refer(m, f.pos, {t})
  BY DEF Entry
<1> HIDE DEF m
<1>4. Refer(m, f.pos, {t}) \in NetType(Addrs) /\ Grows(m, Refer(m, f.pos, {t}))
      /\ f.pos \in Refer(m, f.pos, {t}).refs[t]
  BY <1>1, <1>2, ReferKeeps
<1>5. f.count = 0 => f.pos = f.at
  BY DEF GoodFrames
<1>. QED BY <1>2, <1>3, <1>4, <1>5, GrowsTwice DEF Referred, Grows

LEMMA AdvancedKeeps ==
  ASSUME NEW f \in GoodFrames, NEW t \in Addrs
  PROVE  /\ Advanced(f, t) \in GoodFrames /\ Advanced(f, t).count > 0
         /\ Advanced(f, t).at = f.at /\ Advanced(f, t).kind = f.kind
         /\ Advanced(f, t).from = f.from
<1> DEFINE pos == f.pos + Width
           count == IF f.limit = Unlimited THEN 1 ELSE f.count + 1
           first == IF f.count = 0 THEN t ELSE f.first
<1>1. f \in Frames /\ InSegment(f.at, f.size) /\ (f.from = Loader => f.kind = "location")
  BY DEF GoodFrames
<1>2. f.pos \in Nat /\ f.count \in Nat /\ f.first \in Addrs
  BY <1>1 DEF Frames
<1>3. pos \in Nat /\ count \in Nat /\ count > 0 /\ first \in Addrs
  BY <1>2, ImagesAssumption
<1>4. Advanced(f, t) = [f EXCEPT !.pos = pos, !.count = count, !.first = first]
  BY <1>1 DEF Advanced, Frames
<1> HIDE DEF pos, count, first
<1>5. count # 0
  BY <1>3
<1>. QED BY <1>1, <1>3, <1>4, <1>5 DEF GoodFrames, Frames

(* setPointer keeps the blocks and gives the pointer a label. *)
LEMMA SetPointerKeeps ==
  ASSUME LabelInv, BlockInv, NEW a \in Addrs, InSegment(a, Width), NEW L \in SUBSET Addrs,
         SetPointer(a, L)
  PROVE  /\ BlockInv' /\ labels' = labels \cup {a} \cup L /\ pointers' = pointers \cup {a}
         /\ labels' \in SUBSET Addrs /\ labels \subseteq labels'
<1>1. Known(a) = {a} /\ MarkAt(a, Width, "Data")
  BY FoundOne DEF SetPointer
<1>2. BlockInv'
  BY <1>1, MarkAtKeeps, ImagesAssumption DEF BlockTypes
<1>. QED BY <1>1, <1>2 DEF SetPointer, LabelInv

(* The walk after a pass: the frame on top has found a pointer. *)
LEMMA TopKeeps ==
  ASSUME NEW S, NEW L, NEW n, Stacked(S, L, n), S # <<>>,
         NEW M, L \subseteq M, NEW k, Grows(n, k),
         NEW g \in GoodFrames, Begun(g, M, k), g.at = Head(S).at, g.kind = Head(S).kind
  PROVE  Stacked(<<g>> \o Tail(S), M, k) /\ Pending(<<g>> \o Tail(S)) = Pending(S)
<1>1. Stacked(S, M, k) /\ S \in Seq(GoodFrames)
  BY StackGrows DEF Stacked
<1>2. Stacked(<<g>> \o Tail(S), M, k)
  BY <1>1, StackReplace
<1>3. Tail(S) \in Seq(GoodFrames)
  BY <1>1, HeadTail
<1>. QED BY <1>1, <1>2, <1>3, PendingHead, PendingPushed

LEMMA StepFollowPointer == ASSUME IInv, DataFits, FollowPointer PROVE IInv'
<1> DEFINE f == Head(stack)
           t == Value(image, f.pos)
           g == Advanced(f, t)
           n == IF f.count = 0 THEN Refer(Entry(f, t), f.from, {t}) ELSE Entry(f, t)
           S == <<g>> \o Tail(stack)
<1>1. /\ stack # <<>> /\ Points(image, f.pos) /\ f.kind \in Walking
      /\ SetPointer(f.pos, {})
      /\ CheckLocation(S, n, labels', pointers', "location", f.pos, t, Width, FALSE)
      /\ image' = image /\ asked' = asked /\ functions' = functions /\ queued' = queued
  BY DEF FollowPointer, More
<1>2. /\ image # NoImage /\ image \in Images /\ Stacked(stack, labels, net) /\ f \in GoodFrames
      /\ f.at \in Addrs /\ f.from \in Callers /\ net \in NetType(Addrs)
  BY <1>1, WalkFacts
<1>3. /\ f.pos \in Addrs /\ f.pos # Loader /\ t \in Addrs
      /\ InSegment(f.pos, Width) /\ InSegment(t, Width)
  BY <1>1, <1>2, WalkFacts, PointsFacts
<1>4. /\ BlockInv' /\ labels' = labels \cup {f.pos} /\ pointers' = pointers \cup {f.pos}
      /\ labels' \in SUBSET Addrs /\ labels \subseteq labels'
  BY <1>1, <1>3, SetPointerKeeps DEF IInv
<1>5. /\ n \in NetType(Addrs) /\ Grows(net, n) /\ f.pos \in n.refs[t]
      /\ f.count = 0 => Referred(n, f.from, f.at)
  <2>1. /\ Entry(f, t) \in NetType(Addrs) /\ Grows(net, Entry(f, t))
        /\ f.pos \in Entry(f, t).refs[t]
        /\ f.count = 0 => Referred(Entry(f, t), f.from, f.at)
    BY <1>2, <1>3, EntryKeeps
  <2>2. /\ Refer(Entry(f, t), f.from, {t}) \in NetType(Addrs)
        /\ Grows(Entry(f, t), Refer(Entry(f, t), f.from, {t}))
    BY <1>2, <1>3, <2>1, ReferKeeps
  <2>3. CASE f.count = 0
    BY <1>2, <1>3, <2>1, <2>2, <2>3, GrowsTwice DEF Grows, Referred
  <2>4. CASE f.count # 0
    BY <2>1, <2>4
  <2>. QED BY <2>3, <2>4
<1>6. g \in GoodFrames /\ g.at = f.at /\ g.kind = f.kind /\ g.from = f.from /\ g.count > 0
  BY <1>2, <1>3, AdvancedKeeps
<1> HIDE DEF t, n, g
<1>7. Waiting(g, labels') /\ Begun(g, labels', n)
  <2>1. Begun(f, labels, net)
    BY <1>1, <1>2, StackHead
  <2>2. f.count \in Nat /\ (f.count = 0 => f.pos = f.at)
    BY <1>2 DEF GoodFrames, Frames
  <2>3. CASE f.count = 0
    BY <1>1, <1>4, <1>5, <1>6, <2>2, <2>3 DEF Begun, Waiting, Referred
  <2>4. CASE f.count # 0
    BY <1>1, <1>2, <1>4, <1>5, <1>6, <2>1, <2>2, <2>4 DEF Begun, Waiting, Referred, Grows
  <2>. QED BY <2>3, <2>4
<1>8. Stacked(S, labels', n) /\ Pending(S) = Pending(stack)
  BY <1>1, <1>2, <1>4, <1>5, <1>6, <1>7, TopKeeps
<1>9. Head(S) = g /\ S \in Seq(GoodFrames) /\ \A i \in 1 .. Len(S) : S[i].at \in labels'
  <2>1. Tail(stack) \in Seq(GoodFrames)
    BY <1>1, <1>2, HeadTail DEF Stacked
  <2>2. Head(S) = g /\ S[1] = g /\ S \in Seq(GoodFrames)
    BY <1>6, <2>1, Pushed
  <2>3. \A i \in 1 .. Len(S) : i = 1 \/ i > 1
    OBVIOUS
  <2>. QED BY <1>7, <1>8, <2>2, <2>3 DEF Stacked, Waiting
<1> HIDE DEF S
<1>10. /\ Stacked(stack', labels', net') /\ net' \in NetType(Addrs) /\ Grows(n, net')
       /\ Pending(S) \subseteq Pending(stack')
       /\ f.pos = t \/ t \in labels' \/ t \in Pending(stack')
  <2>1. \A i \in 1 .. Len(S) : S[i].at # t \/ t \in labels'
    BY <1>9
  <2>2. S # <<>> => Waiting(Head(S), labels')
    BY <1>7, <1>9
  <2>3. f.pos \in Callers /\ Width \in Nat \ {0}
    BY <1>3, ImagesAssumption DEF Callers
  <2>4. Callable(S, labels', n, "location", f.pos, t, Width, FALSE)
    BY <1>3, <1>4, <1>5, <1>8, <2>1, <2>2, <2>3 DEF Callable
  <2>5. Checked(S, labels', n, "location", f.pos, t, stack', net')
    BY <1>1, <2>4, CheckLocationKeeps
  <2>. QED BY <2>5 DEF Checked
<1>11. ASSUME NEW p \in pointers' PROVE Leads(image', p, stack', labels', net')
  <2>1. CASE p \in pointers
    <3>1. Leads(image, p, stack, labels, net)
      BY <2>1 DEF IInv, WalkInv
    <3>2. Grows(net, net')
      BY <1>5, <1>10, GrowsTwice
    <3>. QED BY <1>1, <1>4, <1>8, <1>10, <3>1, <3>2, LeadsGrows
  <2>2. CASE p = f.pos
    BY <1>1, <1>3, <1>4, <1>5, <1>10, <2>2 DEF Leads, Grows, t
  <2>. QED BY <1>4, <2>1, <2>2
<1>12. LabelInv'
  BY <1>1, <1>4 DEF IInv, LabelInv
<1>. QED BY <1>1, <1>2, <1>4, <1>10, <1>11, <1>12 DEF IInv, MemoryInv, WalkInv

(* A pass of the Algorithm's tables leaves g on top and labels L. *)
LEMMA TableEntryKeeps ==
  ASSUME IInv, DataFits, TableEntry,
         NEW f, f = Head(stack), NEW t, t = Value(image, f.pos),
         NEW g \in GoodFrames, g.at = f.at, g.kind = f.kind, g.from = f.from,
         NEW L \in SUBSET Addrs, SetPointer(f.pos, L), t \in L \/ ~Code(t),
         stack' = <<g>> \o Tail(stack), net' \in NetType(Addrs), Grows(Entry(f, t), net'),
         functions' \subseteq functions \cup L, queued' \subseteq queued \cup L
  PROVE  IInv'
<1>1. stack # <<>> /\ Points(image, f.pos) /\ image' = image /\ asked' = asked
  BY DEF TableEntry, More
<1>2. /\ image # NoImage /\ image \in Images /\ Stacked(stack, labels, net) /\ f \in GoodFrames
      /\ net \in NetType(Addrs) /\ Begun(f, labels, net)
  BY <1>1, WalkFacts, StackHead
<1>3. f.pos \in Addrs /\ t \in Addrs /\ InSegment(f.pos, Width)
  BY <1>1, <1>2, WalkFacts, PointsFacts
<1>4. /\ Grows(net, net') /\ f.pos \in net'.refs[t]
      /\ f.count = 0 => Referred(net', f.from, f.at)
  <2>1. /\ Entry(f, t) \in NetType(Addrs) /\ Grows(net, Entry(f, t))
        /\ f.pos \in Entry(f, t).refs[t]
        /\ f.count = 0 => Referred(Entry(f, t), f.from, f.at)
    BY <1>2, <1>3, EntryKeeps
  <2>2. f.at \in Addrs
    BY <1>2 DEF GoodFrames, Frames
  <2>. QED BY <1>3, <2>1, <2>2, GrowsTwice DEF Grows, Referred
<1>5. /\ BlockInv' /\ labels' = labels \cup {f.pos} \cup L /\ pointers' = pointers \cup {f.pos}
      /\ labels' \in SUBSET Addrs /\ labels \subseteq labels'
  BY <1>3, SetPointerKeeps DEF IInv
<1>6. Begun(g, labels', net')
  <2>1. f.count \in Nat /\ (f.count = 0 => f.pos = f.at) /\ f.at \in Addrs
    BY <1>2 DEF GoodFrames, Frames
  <2>2. CASE f.count = 0
    BY <1>4, <1>5, <2>1, <2>2 DEF Begun, Referred
  <2>3. CASE f.count # 0
    BY <1>2, <1>4, <1>5, <2>1, <2>3 DEF Begun, Referred, Grows
  <2>. QED BY <2>2, <2>3
<1>7. Stacked(stack', labels', net') /\ Pending(stack') = Pending(stack)
  BY <1>1, <1>2, <1>4, <1>5, <1>6, TopKeeps
<1>8. ASSUME NEW p \in pointers' PROVE Leads(image', p, stack', labels', net')
  <2>1. CASE p \in pointers
    <3>1. Leads(image, p, stack, labels, net)
      BY <2>1 DEF IInv, WalkInv
    <3>. QED BY <1>1, <1>4, <1>5, <1>7, <3>1, LeadsGrows
  <2>2. CASE p = f.pos
    BY <1>1, <1>4, <1>5, <2>2 DEF Leads
  <2>. QED BY <1>5, <2>1, <2>2
<1>9. LabelInv'
  BY <1>5 DEF IInv, LabelInv
<1>. QED BY <1>1, <1>2, <1>5, <1>7, <1>8, <1>9 DEF IInv, MemoryInv, WalkInv

LEMMA StepTableEntry == ASSUME IInv, DataFits, TableEntry PROVE IInv'
<1> DEFINE f == Head(stack)
           t == Value(image, f.pos)
           g == [f EXCEPT !.limit = f.count]
<1>1. stack # <<>> /\ Points(image, f.pos) /\ f.kind \notin Walking
  BY DEF TableEntry, More
<1>2. /\ f \in GoodFrames /\ f.from \in Addrs /\ net \in NetType(Addrs)
      /\ f.pos \in Addrs /\ t \in Addrs
  BY <1>1, WalkFacts, PointsFacts DEF Callers, GoodFrames, Walking
<1>3. Entry(f, t) \in NetType(Addrs)
  BY <1>2, EntryKeeps
<1>4. CASE /\ SetPointer(f.pos, {t})
           /\ stack' = <<Advanced(f, t)>> \o Tail(stack)
           /\ net' = IF f.kind = "calls" THEN LinkCall(Entry(f, t), f.from, t)
                     ELSE LinkJump(Entry(f, t), f.from, t)
           /\ functions' = IF f.kind = "calls" THEN functions \cup {t} ELSE functions
           /\ queued' = queued \cup {t}
  <2>1. /\ Advanced(f, t) \in GoodFrames /\ Advanced(f, t).from = f.from
        /\ Advanced(f, t).at = f.at /\ Advanced(f, t).kind = f.kind
    BY <1>2, AdvancedKeeps
  <2>2. net' \in NetType(Addrs) /\ Grows(Entry(f, t), net')
    BY <1>2, <1>3, <1>4, LinkKeeps
  <2>3. functions' \subseteq functions \cup {t} /\ queued' \subseteq queued \cup {t}
    BY <1>4
  <2>4. {t} \in SUBSET Addrs /\ (t \in {t} \/ ~Code(t))
    BY <1>2
  <2> HIDE DEF f, t
  <2>. QED BY <1>4, <2>1, <2>2, <2>3, <2>4, TableEntryKeeps DEF f, t
<1>5. CASE /\ ~Code(t) /\ SetPointer(f.pos, {})
           /\ stack' = <<g>> \o Tail(stack) /\ net' = Entry(f, t)
           /\ UNCHANGED <<functions, queued>>
  <2>1. g \in GoodFrames /\ g.from = f.from /\ g.at = f.at /\ g.kind = f.kind
    BY <1>2 DEF GoodFrames, Frames
  <2>2. Grows(Entry(f, t), net')
    BY <1>5 DEF Grows
  <2> HIDE DEF f, t, g
  <2>. QED BY <1>3, <1>5, <2>1, <2>2, TableEntryKeeps DEF f, t
<1>. QED BY <1>4, <1>5 DEF TableEntry

(* A call ends: its address has a label and refers to who asked. *)
LEMMA PopKeeps ==
  ASSUME IInv, DataFits, stack # <<>>, NEW f, f = Head(stack),
         stack' = Tail(stack), net' \in NetType(Addrs), Grows(net, net'),
         labels' \in SUBSET Addrs, labels \subseteq labels', f.kind = "location" => f.at \in labels',
         UNCHANGED <<image, asked, pointers, functions>>,
         queued' \subseteq queued \cup labels', BlockInv'
  PROVE  IInv'
<1>1. Stacked(stack, labels, net) /\ image # NoImage /\ image \in Images /\ stack \in Seq(GoodFrames)
  BY WalkFacts
<1>2. Stacked(stack', labels', net')
  BY <1>1, StackGrows, StackPop
<1>3. Pending(stack) \subseteq labels' \cup Pending(stack')
  BY <1>1, PendingHead
<1>4. ASSUME NEW p \in pointers' PROVE Leads(image', p, stack', labels', net')
  <2>1. Leads(image, p, stack, labels, net) /\ image' = image
    BY DEF IInv, WalkInv
  <2>. QED BY <1>3, <2>1, LeadsGrows
<1>5. LabelInv'
  BY DEF IInv, LabelInv
<1>. QED BY <1>1, <1>2, <1>4, <1>5 DEF IInv, MemoryInv, WalkInv

LEMMA ReturnKeeps ==
  ASSUME IInv, DataFits, Located, Return(Head(stack))
  PROVE  /\ stack # <<>> /\ stack' = Tail(stack)
         /\ net' \in NetType(Addrs) /\ Grows(net, net')
         /\ Referred(net', Head(stack).from, Head(stack).at)
         /\ UNCHANGED <<image, asked, pointers, functions>>
<1> DEFINE f == Head(stack)
           n == Refer(net, f.from, {f.at})
<1>1. stack # <<>> /\ f \in GoodFrames /\ f.from \in Callers /\ f.at \in Addrs
      /\ net \in NetType(Addrs) /\ f.first \in Addrs
  BY WalkFacts DEF Located, Frames
<1>2. f.kind = "slot" => f.from \in Addrs
  BY <1>1 DEF GoodFrames, Callers
<1>3. n \in NetType(Addrs) /\ Grows(net, n) /\ (f.from = Loader \/ f.from \in n.refs[f.at])
  BY <1>1, ReferKeeps
<1>4. net' = IF f.kind = "slot" THEN LinkCall(n, f.from, f.first) ELSE n
  BY DEF Return
<1> HIDE DEF f, n
<1>5. net' \in NetType(Addrs) /\ Grows(n, net')
  <2>1. CASE f.kind = "slot"
    BY <1>1, <1>2, <1>3, <1>4, <2>1, LinkKeeps
  <2>2. CASE f.kind # "slot"
    BY <1>3, <1>4, <2>2 DEF Grows
  <2>. QED BY <2>1, <2>2
<1>6. Grows(net, net') /\ Referred(net', f.from, f.at)
  BY <1>1, <1>3, <1>5, GrowsTwice DEF Grows, Referred
<1>. QED BY <1>1, <1>5, <1>6 DEF Return, f

LEMMA StepFound ==
  ASSUME IInv, DataFits, PointerFound \/ StringFound \/ CodeFound \/ DataFound
  PROVE  IInv'
<1> DEFINE f == Head(stack)
<1>1. Located /\ Return(f)
  BY DEF PointerFound, StringFound, CodeFound, DataFound
<1>2. /\ stack # <<>> /\ stack' = Tail(stack) /\ net' \in NetType(Addrs) /\ Grows(net, net')
      /\ UNCHANGED <<image, asked, pointers, functions>>
  BY <1>1, ReturnKeeps
<1>3. /\ f \in GoodFrames /\ f.at \in Addrs /\ Begun(f, labels, net) /\ image # NoImage /\ image \in Images
      /\ ImageFits(image) /\ Stacked(stack, labels, net) /\ labels \in SUBSET Addrs
  BY <1>2, WalkFacts, StackHead
<1>4. Known(f.at) = {f.at} /\ BlockInv
  BY <1>3, FoundOne DEF IInv
<1>5. CASE PointerFound
  <2>1. labels' = labels /\ queued' = queued /\ f.at \in labels'
    BY <1>3, <1>5 DEF PointerFound, Begun
  <2>2. BlockInv'
    BY <1>4, <1>5 DEF PointerFound, BlockInv
  <2>. QED BY <1>2, <1>3, <2>1, <2>2, PopKeeps
<1>6. CASE StringFound
  <2>1. /\ image.text[f.at] > 0 /\ MarkAt(f.at, image.text[f.at], "String")
        /\ labels' = labels \cup {f.at} /\ queued' = queued
    BY <1>6 DEF StringFound
  <2>2. image.text[f.at] \in Nat \ {0} /\ InSegment(f.at, image.text[f.at])
    <3>1. image.text \in [Addrs -> Nat]
      BY <1>3, ImagesAssumption
    <3>2. image.text[f.at] \in Nat
      BY <1>3, <3>1
    <3>. QED BY <1>3, <2>1, <3>2 DEF ImageFits
  <2>3. BlockInv'
    BY <1>3, <1>4, <2>1, <2>2, MarkAtKeeps DEF BlockTypes
  <2>4. labels' \in SUBSET Addrs /\ labels \subseteq labels' /\ f.at \in labels'
    BY <1>3, <2>1
  <2>. QED BY <1>2, <2>1, <2>3, <2>4, PopKeeps
<1>7. CASE CodeFound
  <2>1. labels' = labels \cup {f.at} /\ queued' = queued \cup {f.at} /\ blocks' = blocks
    BY <1>7 DEF CodeFound
  <2>2. BlockInv'
    BY <1>4, <2>1 DEF BlockInv
  <2>3. labels' \in SUBSET Addrs /\ labels \subseteq labels' /\ f.at \in labels'
    BY <1>3, <2>1
  <2>4. queued' \subseteq queued \cup labels'
    BY <2>1, <2>3
  <2>. QED BY <1>2, <2>2, <2>3, <2>4, PopKeeps
<1>8. CASE DataFound
  <2>1. MarkAt(f.at, f.size, "Data") /\ labels' = labels \cup {f.at} /\ queued' = queued
    BY <1>4, <1>8 DEF DataFound
  <2>2. f.size \in Nat \ {0} /\ InSegment(f.at, f.size)
    BY <1>3 DEF GoodFrames, Frames
  <2>3. BlockInv'
    BY <1>3, <1>4, <2>1, <2>2, MarkAtKeeps DEF BlockTypes
  <2>4. labels' \in SUBSET Addrs /\ labels \subseteq labels' /\ f.at \in labels'
    BY <1>3, <2>1
  <2>. QED BY <1>2, <2>1, <2>3, <2>4, PopKeeps
<1>. QED BY <1>5, <1>6, <1>7, <1>8

(* The end of a table: a call ends, or the location is looked at. *)
LEMMA TableEndFacts ==
  ASSUME IInv, DataFits, TableEnd, Head(stack).count = 0
  PROVE  LET f == Head(stack)
         IN  /\ Tail(stack) = <<>> /\ Pending(stack) = {}
             /\ Checked(<<>>, labels, net, "location", f.from, f.at, stack', net')
<1> DEFINE f == Head(stack)
<1>1. /\ stack # <<>> /\ f.kind \notin {"location", "slot"}
      /\ CheckLocation(Tail(stack), net, labels, pointers, "location", f.from, f.at, f.size, FALSE)
  <2>1. ~(f.count > 0)
    OBVIOUS
  <2>. QED BY <2>1, Zenon DEF TableEnd
<1>2. /\ Stacked(stack, labels, net) /\ f \in GoodFrames /\ f.from \in Callers
      /\ f.at \in Addrs /\ net \in NetType(Addrs) /\ labels \in SUBSET Addrs
      /\ f.size \in Nat \ {0} /\ InSegment(f.at, f.size)
  BY <1>1, WalkFacts DEF GoodFrames, Frames
<1>3. Tail(stack) = <<>>
  BY <1>1, <1>2, StackHead
<1>4. Stacked(<<>>, labels, net)
  BY <1>1, <1>2, <1>3, StackPop
<1>5. Len(<<>>) = 0
  OBVIOUS
<1>6. Callable(<<>>, labels, net, "location", f.from, f.at, f.size, FALSE)
  BY <1>2, <1>4, <1>5 DEF Callable
<1>7. Pending(stack) = {}
  <2>1. Pending(stack) = Pending(<<>>)
    BY <1>1, <1>2, <1>3, PendingHead DEF Stacked
  <2>. QED BY <2>1, <1>5 DEF Pending
<1> HIDE DEF f
<1>8. Checked(<<>>, labels, net, "location", f.from, f.at, stack', net')
  BY <1>1, <1>3, <1>6, CheckLocationKeeps
<1>. QED BY <1>3, <1>7, <1>8 DEF f

LEMMA StepTableEnd == ASSUME IInv, DataFits, TableEnd PROVE IInv'
<1> DEFINE f == Head(stack)
<1>1. /\ stack # <<>> /\ f.kind \notin {"location", "slot"}
      /\ UNCHANGED <<image, asked, labels, pointers, functions, queued, blocks>>
  BY DEF TableEnd
<1>2. /\ Stacked(stack, labels, net) /\ f \in GoodFrames /\ net \in NetType(Addrs)
      /\ image # NoImage /\ image \in Images /\ labels \in SUBSET Addrs
  BY <1>1, WalkFacts
<1>3. BlockInv' /\ LabelInv'
  BY <1>1 DEF IInv, BlockInv, LabelInv
<1>4. CASE f.count > 0
  <2>1. stack' = Tail(stack) /\ net' = net
    BY <1>4 DEF TableEnd
  <2>2. Grows(net, net')
    BY <2>1 DEF Grows
  <2>. QED BY <1>1, <1>2, <1>3, <2>1, <2>2, PopKeeps
<1>5. CASE f.count = 0
  <2>1. /\ Pending(stack) = {} /\ Stacked(stack', labels, net')
        /\ net' \in NetType(Addrs) /\ Grows(net, net')
    BY <1>5, TableEndFacts DEF Checked
  <2>2. ASSUME NEW p \in pointers' PROVE Leads(image', p, stack', labels', net')
    <3>1. Leads(image, p, stack, labels, net)
      BY <1>1 DEF IInv, WalkInv
    <3>. QED BY <1>1, <2>1, <3>1, LeadsGrows
  <2>. QED BY <1>1, <1>2, <1>3, <2>1, <2>2 DEF IInv, MemoryInv, WalkInv
<1>6. f.count \in Nat
  BY <1>2 DEF GoodFrames, Frames
<1>. QED BY <1>4, <1>5, <1>6

LEMMA EmptyStack ==
  ASSUME NEW L, NEW n
  PROVE  Stacked(<<>>, L, n) /\ Pending(<<>>) = {}
<1>1. Len(<<>>) = 0 /\ <<>> \in Seq(GoodFrames)
  OBVIOUS
<1>. QED BY <1>1 DEF Stacked, Pending

LEMMA StepAsk == ASSUME IInv, DataFits, Ask PROVE IInv'
<1>1. /\ stack = <<>> /\ asked < MaxRequests /\ asked' = asked + 1
      /\ UNCHANGED <<image, labels, pointers, functions, queued, blocks>>
      /\ image # NoImage /\ image \in Images /\ labels \in SUBSET Addrs /\ net \in NetType(Addrs)
  BY DEF Ask, IInv, MemoryInv, LabelInv, WalkInv
<1>2. asked' \in 0 .. MaxRequests
  BY <1>1, RequestsAssumption DEF IInv
<1>3. BlockInv' /\ LabelInv'
  BY <1>1 DEF IInv, BlockInv, LabelInv
<1>4. SUFFICES Stacked(stack', labels, net') /\ net' \in NetType(Addrs) /\ Grows(net, net')
  <2>1. ASSUME NEW p \in pointers' PROVE Leads(image', p, stack', labels', net')
    <3>1. Leads(image, p, stack, labels, net) /\ Pending(stack) = {}
      BY <1>1, EmptyStack DEF IInv, WalkInv
    <3>. QED BY <1>1, <1>4, <3>1, LeadsGrows
  <2>. QED BY <1>1, <1>2, <1>3, <1>4, <2>1 DEF IInv, MemoryInv, WalkInv
<1>5. PICK r \in Requests :
       \/ /\ r.kind \in {"location", "slot"}
          /\ CheckLocation(<<>>, net, labels, pointers, r.kind, r.from, r.at, r.size, r.dataonly)
       \/ /\ r.kind = "table" /\ net' = net
          /\ stack' = <<Frame("table", r.from, r.at, r.size, FALSE, PointerLimit(r.size))>>
       \/ /\ r.kind \in {"branches", "calls"} /\ net' = net
          /\ stack' = <<Frame(r.kind, r.from, r.at, Width, FALSE, r.size)>>
  BY DEF Ask
<1>6. /\ r.kind \in RequestKinds /\ r.from \in Callers /\ r.at \in Addrs /\ r.size \in Nat \ {0}
      /\ r.dataonly \in BOOLEAN /\ (r.from = Loader => r.kind = "location")
      /\ InSegment(r.at, IF r.kind \in {"branches", "calls"} THEN Width ELSE r.size)
  BY RequestsAssumption DEF Request, DataFits, RequestFits, Callers
<1>7. CASE /\ r.kind \in {"location", "slot"}
           /\ CheckLocation(<<>>, net, labels, pointers, r.kind, r.from, r.at, r.size, r.dataonly)
  <2>1. Len(<<>>) = 0 /\ Stacked(<<>>, labels, net)
    BY EmptyStack
  <2>2. InSegment(r.at, r.size)
    BY <1>6, <1>7
  <2>3. Callable(<<>>, labels, net, r.kind, r.from, r.at, r.size, r.dataonly)
    BY <1>1, <1>6, <1>7, <2>1, <2>2 DEF Callable
  <2>4. Checked(<<>>, labels, net, r.kind, r.from, r.at, stack', net')
    BY <1>7, <2>3, CheckLocationKeeps
  <2>. QED BY <2>4 DEF Checked
<1>8. ASSUME NEW kind \in RequestKinds \ {"location"}, NEW size \in Nat \ {0}, InSegment(r.at, size),
             NEW limit \in Nat \cup {Unlimited}, r.from # Loader, net' = net,
             stack' = <<Frame(kind, r.from, r.at, size, FALSE, limit)>>
      PROVE  Stacked(stack', labels, net') /\ net' \in NetType(Addrs) /\ Grows(net, net')
  <2> DEFINE f == Frame(kind, r.from, r.at, size, FALSE, limit)
  <2>1. r.at \in Nat
    BY <1>6, SegmentFacts
  <2>2. f \in GoodFrames /\ f.count = 0
    BY <1>6, <1>8, <2>1 DEF Frame, GoodFrames, Frames, Callers
  <2>3. stack' = <<f>>
    BY <1>8
  <2> HIDE DEF f
  <2>4. Begun(f, labels, net)
    BY <2>2 DEF Begun
  <2>5. /\ <<f>> \in Seq(GoodFrames) /\ Len(<<f>>) = 1 /\ <<f>>[1] = f
    BY <2>2
  <2>6. Stacked(<<f>>, labels, net)
    BY <2>4, <2>5 DEF Stacked
  <2>. QED BY <1>1, <1>8, <2>3, <2>6 DEF Grows
<1>9. CASE /\ r.kind = "table" /\ net' = net
           /\ stack' = <<Frame("table", r.from, r.at, r.size, FALSE, PointerLimit(r.size))>>
  <2>1. PointerLimit(r.size) \in Nat \cup {Unlimited} /\ r.from # Loader /\ InSegment(r.at, r.size)
        /\ "table" \in RequestKinds \ {"location"}
    BY <1>6, <1>9 DEF PointerLimit, RequestKinds
  <2>. QED BY <1>6, <1>8, <1>9, <2>1
<1>10. CASE /\ r.kind \in {"branches", "calls"} /\ net' = net
            /\ stack' = <<Frame(r.kind, r.from, r.at, Width, FALSE, r.size)>>
  <2>1. Width \in Nat \ {0} /\ r.size \in Nat /\ r.from # Loader /\ InSegment(r.at, Width)
        /\ r.kind \in RequestKinds \ {"location"}
    BY <1>6, <1>10, ImagesAssumption
  <2>. QED BY <1>8, <1>10, <2>1
<1>. QED BY <1>5, <1>7, <1>9, <1>10

LEMMA StepSetLabel == ASSUME IInv, DataFits, SetLabel PROVE IInv'
<1>1. /\ asked < MaxRequests /\ asked' = asked + 1 /\ image # NoImage
      /\ UNCHANGED <<image, stack, pointers, functions, queued, blocks, net>>
      /\ labels \subseteq labels' /\ (labels \subseteq Addrs => labels' \subseteq Addrs)
  BY DEF SetLabel
<1>2. asked' \in 0 .. MaxRequests
  BY <1>1, RequestsAssumption DEF IInv
<1>3. Stacked(stack', labels', net') /\ Grows(net, net')
  BY <1>1, StackGrows DEF IInv, WalkInv, Grows
<1>4. ASSUME NEW p \in pointers' PROVE Leads(image', p, stack', labels', net')
  <2>1. Leads(image, p, stack, labels, net)
    BY <1>1 DEF IInv, WalkInv
  <2>. QED BY <1>1, <1>3, <2>1, LeadsGrows
<1>5. BlockInv' /\ LabelInv'
  BY <1>1 DEF IInv, BlockInv, LabelInv
<1>. QED BY <1>1, <1>2, <1>3, <1>4, <1>5 DEF IInv, MemoryInv, WalkInv

LEMMA InitIInv == ASSUME Init PROVE IInv
<1>1. asked \in 0 .. MaxRequests /\ MemoryInv /\ LabelInv
  BY RequestsAssumption DEF Init, MemoryInv, LabelInv
<1>2. BlockInv
  <2>1. ASSUME NEW s \in Segments
        PROVE  LET new == NewBlock(s.start, s.end, "Unknown", 0)
               IN  {new} \in SUBSET Block /\ Tiles({new}, s.start, s.end)
    <3> DEFINE new == NewBlock(s.start, s.end, "Unknown", 0)
    <3>1. s.start \in Nat /\ s.end \in Nat /\ s.start < s.end
      BY SegmentsAssumption
    <3>2. new \in Block /\ new.start = s.start /\ new.end = s.end
      BY <3>1 DEF NewBlock, Block, BlockTypes
    <3> HIDE DEF new
    <3>3. Sound({new}) /\ Within({new}, s.start, s.end)
      BY <3>1, <3>2 DEF Sound, Within
    <3>4. Covers({new}, s.start, s.end)
      BY <3>1, <3>2 DEF Covers, Contains
    <3>. QED BY <3>2, <3>3, <3>4 DEF Tiles, new
  <2>. QED BY <2>1 DEF Init, BlockInv
<1>3. WalkInv
  BY EmptyStack DEF Init, WalkInv, EmptyNet, NetType
<1>. QED BY <1>1, <1>2, <1>3 DEF IInv

(* The invariant: every walk and every request keeps it. *)
THEOREM Invariance == ASSUME DataFits PROVE Spec => []IInv
<1>1. ASSUME IInv, Load PROVE IInv'
  <2>1. image' \in Images /\ UNCHANGED <<asked, stack, document>> /\ stack = <<>> /\ pointers = {}
    BY <1>1 DEF Load, IInv, MemoryInv
  <2>. QED BY <1>1, <2>1 DEF IInv, MemoryInv, LabelInv, BlockInv, WalkInv, document
<1>2. ASSUME IInv, Next PROVE IInv'
  BY <1>1, <1>2, StepAsk, StepSetLabel, StepFollowPointer, StepTableEntry, StepTableEnd, StepFound
  DEF Next, Step
<1>3. ASSUME IInv, UNCHANGED vars PROVE IInv'
  BY <1>3 DEF IInv, MemoryInv, LabelInv, BlockInv, WalkInv, vars, document
<1>4. IInv /\ [Next]_vars => IInv'
  BY <1>2, <1>3
<1>. QED BY InitIInv, <1>4, PTL DEF Spec

(* The state keeps its types, and a call of checkTable has the shape of the *)
(* calls the code makes.                                                    *)
THEOREM TypeCorrect == ASSUME DataFits PROVE Spec => []TypeOK
<1>1. ASSUME IInv PROVE TypeOK
  <2>1. image \in [byte : [Addrs -> Nat], text : [Addrs -> Nat]] \cup {NoImage}
    BY <1>1, ImagesAssumption DEF IInv, MemoryInv
  <2>2. Stacked(stack, labels, net) /\ stack \in Seq(GoodFrames)
    BY <1>1 DEF IInv, WalkInv, Stacked
  <2>3. stack \in Seq(Frames)
    <3>1. GoodFrames \subseteq Frames
      BY DEF GoodFrames
    <3>. QED BY <2>2, <3>1
  <2>4. \A i \in 1 .. Len(stack) :
          /\ stack[i].from = Loader => stack[i].kind = "location"
          /\ i < Len(stack) => stack[i].kind = "location"
          /\ i > 1 => stack[i].kind \in Walking
    <3>1. \A i \in 1 .. Len(stack) : stack[i] \in GoodFrames
      BY <2>2
    <3>. QED BY <2>2, <3>1 DEF Stacked, GoodFrames, Waiting
  <2>. QED BY <1>1, <2>1, <2>3, <2>4 DEF IInv, LabelInv, BlockInv, WalkInv, TypeOK
<1>. QED BY <1>1, Invariance, PTL

(* The walk never enters an address that it is still walking from. *)
THEOREM NoTwice == ASSUME DataFits PROVE Spec => []NoAddressTwice
<1>1. IInv => NoAddressTwice
  BY DEF IInv, WalkInv, Stacked, NoAddressTwice
<1>. QED BY <1>1, Invariance, PTL

(* So checkLocation recurses no deeper than there are addresses: the calls  *)
(* map one to one to addresses.                                             *)
THEOREM Depth == ASSUME DataFits PROVE Spec => []DepthBounded
<1>1. ASSUME IInv PROVE DepthBounded
  <2> DEFINE D == 1 .. Len(stack)
             at == [i \in D |-> stack[i].at]
  <2>1. stack \in Seq(GoodFrames) /\ Len(stack) \in Nat
    BY <1>1 DEF IInv, WalkInv, Stacked
  <2>2. at \in [D -> Addrs]
    BY <2>1 DEF GoodFrames, Frames
  <2>3. \A i, j \in D : at[i] = at[j] => i = j
    BY <1>1 DEF IInv, WalkInv, Stacked
  <2>4. IsFiniteSet(Addrs)
    <3>1. Addrs \subseteq 1 .. Top /\ IsFiniteSet(1 .. Top)
      BY SegmentsAssumption, FS_Interval DEF Addrs
    <3>. QED BY <3>1, FS_Subset
  <2>5. IsFiniteSet(D) /\ Cardinality(D) = Len(stack)
    BY <2>1, FS_Interval
  <2> HIDE DEF at, D
  <2>6. at \in Injection(D, Addrs)
    BY <2>2, <2>3 DEF Injection, IsInjective
  <2>7. Cardinality(D) <= Cardinality(Addrs)
    BY <2>4, <2>6, FS_Injection
  <2>. QED BY <2>5, <2>7 DEF DepthBounded
<1>. QED BY <1>1, Invariance, PTL

(* Every pointer found refers to what it points to, which is labelled, or   *)
(* is going to be.                                                          *)
THEOREM PointersKnown == ASSUME DataFits PROVE Spec => []PointersLead
<1>1. IInv => PointersLead
  BY DEF IInv, WalkInv, Leads, Pending, PointersLead
<1>. QED BY <1>1, Invariance, PTL

LEMMA CheckLocationStack ==
  ASSUME NEW S, NEW L, NEW n, NEW P, NEW kind, NEW from, NEW a, NEW size, NEW dataonly,
         CheckLocation(S, n, L, P, kind, from, a, size, dataonly)
  PROVE  stack' = S \/ \E h : stack' = <<h>> \o S
BY DEF CheckLocation

LEMMA Longer ==
  ASSUME NEW F, NEW s \in Seq(F), NEW x, NEW y
  PROVE  <<x>> \o s # s /\ <<y>> \o (<<x>> \o s) # s
<1>1. Len(<<x>> \o s) = Len(s) + 1 /\ Len(<<y>> \o (<<x>> \o s)) = Len(s) + 2 /\ Len(s) \in Nat
  OBVIOUS
<1>. QED BY <1>1

(* When a call ends, what it looked at refers to who asked. *)
THEOREM CallersReferred == ASSUME DataFits PROVE Spec => CallerRefers
<1>1. ASSUME DataFits, IInv, Next, stack # <<>>, stack' = Tail(stack)
      PROVE  Referred(net', Head(stack).from, Head(stack).at)
  <2> DEFINE f == Head(stack)
  <2>0. /\ stack \in Seq(GoodFrames) /\ f \in GoodFrames /\ Begun(f, labels, net)
        /\ Stacked(stack, labels, net) /\ Tail(stack) \in Seq(GoodFrames)
        /\ Len(stack) \in Nat /\ Len(Tail(stack)) = Len(stack) - 1
    BY <1>1, WalkFacts, StackHead, HeadTail
  <2>1. stack' # stack
    <3>1. \A n \in Nat : n - 1 # n
      OBVIOUS
    <3>2. Len(Tail(stack)) # Len(stack)
      BY <2>0, <3>1, Zenon
    <3>. QED BY <1>1, <3>2, Zenon
  <2>2. CASE Load \/ Ask \/ SetLabel
    BY <1>1, <2>1, <2>2 DEF Load, Ask, SetLabel
  <2>3. CASE TableEntry
    <3>1. PICK g : stack' = <<g>> \o Tail(stack)
      BY <2>3 DEF TableEntry
    <3>. QED BY <1>1, <2>0, <3>1, Longer
  <2>4. CASE FollowPointer
    <3>1. PICK g : \/ stack' = <<g>> \o Tail(stack)
                   \/ \E h : stack' = <<h>> \o (<<g>> \o Tail(stack))
      <4> DEFINE t == Value(image, f.pos)
                 n == IF f.count = 0 THEN Refer(Entry(f, t), f.from, {t}) ELSE Entry(f, t)
      <4>1. CheckLocation(<<Advanced(f, t)>> \o Tail(stack), n, labels', pointers',
                          "location", f.pos, t, Width, FALSE)
        BY <2>4 DEF FollowPointer
      <4> HIDE DEF f, t, n
      <4>2. \/ stack' = <<Advanced(f, t)>> \o Tail(stack)
            \/ \E h : stack' = <<h>> \o (<<Advanced(f, t)>> \o Tail(stack))
        BY <4>1, CheckLocationStack
      <4>. QED BY <4>2
    <3>. QED BY <1>1, <2>0, <3>1, Longer
  <2>5. CASE PointerFound \/ StringFound \/ CodeFound \/ DataFound
    <3>1. Located /\ Return(f)
      BY <2>5 DEF PointerFound, StringFound, CodeFound, DataFound
    <3>. QED BY <1>1, <3>1, ReturnKeeps
  <2>6. CASE TableEnd /\ f.count > 0
    <3>1. net' = net
      BY <2>6 DEF TableEnd
    <3>. QED BY <2>0, <2>6, <3>1 DEF Begun
  <2>7. CASE TableEnd /\ f.count = 0
    <3>1. /\ Tail(stack) = <<>>
          /\ Checked(<<>>, labels, net, "location", f.from, f.at, stack', net')
      BY <1>1, <2>7, TableEndFacts
    <3>2. Len(<<>>) # Len(<<>>) + 1
      OBVIOUS
    <3>. QED BY <1>1, <3>1, <3>2 DEF Checked
  <2>8. f.count > 0 \/ f.count = 0
    BY <2>0 DEF GoodFrames, Frames
  <2>. QED BY <1>1, <2>2, <2>3, <2>4, <2>5, <2>6, <2>7, <2>8 DEF Next, Step
<1>2. IInv /\ [Next]_vars
        => [stack # <<>> /\ stack' = Tail(stack) =>
              LET f == Head(stack)
              IN  f.from \in {Loader, f.at} \/ f.from \in net'.refs[f.at]]_vars
  BY <1>1 DEF Referred
<1>. QED BY <1>2, Invariance, PTL DEF Spec, CallerRefers
-----------------------------------------------------------------------------
(* The segments of a document are disjoint as long as no call of setSegment *)
(* asks for one around another: looking up its two ends is enough else.     *)
THEOREM InsertKeepsDisjoint ==
  ASSUME NEW S, Inhabited(S), Disjoint(S),
         NEW s \in Segment, s.address < s.endaddress,
         \A t \in S : ~Encloses(s, t)
  PROVE  Inhabited(InsertSegment(S, s)) /\ Disjoint(InsertSegment(S, s))
<1>1. CASE AtAddress(S, s.address) # {} \/ AtAddress(S, s.endaddress - 1) # {}
  BY <1>1 DEF InsertSegment
<1>2. CASE AtAddress(S, s.address) = {} /\ AtAddress(S, s.endaddress - 1) = {}
  <2>1. InsertSegment(S, s) = S \cup {s}
    BY <1>2 DEF InsertSegment
  <2>2. ASSUME NEW t \in S
        PROVE  s.endaddress <= t.address \/ t.endaddress <= s.address
    <3>1. /\ t.address \in Nat /\ t.endaddress \in Nat /\ t.address < t.endaddress
          /\ s.address \in Nat /\ s.endaddress \in Nat
      BY DEF Inhabited, Segment
    <3>2. ~ContainsAddress(t, s.address) /\ ~ContainsAddress(t, s.endaddress - 1)
      BY <1>2 DEF AtAddress
    <3>3. ~Encloses(s, t)
      OBVIOUS
    <3> QED
      BY <3>1, <3>2, <3>3 DEF ContainsAddress, Encloses
  <2>3. Disjoint(S \cup {s})
    BY <2>2 DEF Disjoint
  <2>4. Inhabited(S \cup {s})
    BY DEF Inhabited
  <2> QED
    BY <2>1, <2>3, <2>4
<1> QED
  BY <1>1, <1>2

LEMMA ForemostOne ==
  ASSUME NEW S, Inhabited(S), NEW T \in SUBSET S, T # {}
  PROVE  Foremost(T) \in T
<1> DEFINE A == {s.address : s \in T}
<1>1. A \in SUBSET Nat /\ A # {}
  BY DEF Inhabited, Segment
<1>2. PICK m \in A : \A x \in A : m <= x
  BY <1>1, LeastElement
<1>3. PICK s \in T : s.address = m
  BY <1>2
<1>4. \A t \in T : s.address <= t.address
  BY <1>2, <1>3
<1> QED
  BY <1>4 DEF Foremost

(* What each look-up answers, a segment of S that holds what was asked for. *)
LEMMA SpaceFacts ==
  ASSUME NEW S, Inhabited(S), NEW s \in S
  PROVE  /\ s.address \in Nat /\ s.endaddress \in Nat /\ s.address < s.endaddress
         /\ s.offset \in Nat /\ s.endoffset \in Nat
         /\ AddressSize(s) = s.endaddress - s.address
         /\ OffsetSize(s) \in Nat /\ BufferSize(s) \in Nat
         /\ OffsetSize(s) <= BufferSize(s) /\ AddressSize(s) <= BufferSize(s)
         /\ s.flags # "Bss" /\ s.offset < s.endoffset => OffsetSize(s) = s.endoffset - s.offset
         /\ OffsetSize(s) > 0 => s.flags # "Bss" /\ s.offset < s.endoffset
  BY DEF Inhabited, Segment, AddressSize, OffsetSize, BufferSize, AtLeast

LEMMA OffsetAnswer ==
  ASSUME NEW S, Inhabited(S), NEW a \in Nat, NEW o \in Offset(S, a)
  PROVE  LET s == Foremost(AtAddress(S, a))
         IN  /\ AtAddress(S, a) # {} /\ s \in S /\ ContainsAddress(s, a)
             /\ o = s.offset + (a - s.address) /\ o \in Nat /\ ContainsOffset(s, o)
<1> DEFINE s == Foremost(AtAddress(S, a))
<1>1. /\ AtAddress(S, a) # {} /\ s.flags # "Bss"
      /\ o = a - s.address + s.offset /\ o < s.endoffset
  BY DEF Offset
<1>2. s \in AtAddress(S, a)
  BY <1>1, ForemostOne DEF AtAddress
<1>3. s \in S /\ ContainsAddress(s, a)
  BY <1>2 DEF AtAddress
<1> QED
  BY <1>1, <1>3, SpaceFacts DEF ContainsAddress, ContainsOffset

LEMMA FileAnswer ==
  ASSUME NEW S, Inhabited(S), NEW o \in Nat, AtOffset(S, o) # {}
  PROVE  LET s == Foremost(AtOffset(S, o)) IN s \in S /\ ContainsOffset(s, o)
<1>1. Foremost(AtOffset(S, o)) \in AtOffset(S, o)
  BY ForemostOne DEF AtOffset
<1> QED
  BY <1>1 DEF AtOffset

(* The byte of the buffer that stands for an offset of the file.            *)
LEMMA CopiedByte ==
  ASSUME NEW S, Inhabited(S), NEW s \in S, NEW file, NEW o \in Nat, ContainsOffset(s, o)
  PROVE  ByteAt(s, file, o - s.offset) = file[o + 1] /\ o - s.offset \in Nat
         /\ o - s.offset < BufferSize(s)
<1>1. /\ s.offset \in Nat /\ s.endoffset \in Nat /\ s.offset <= o /\ o < s.endoffset
      /\ OffsetSize(s) = s.endoffset - s.offset /\ OffsetSize(s) <= BufferSize(s)
      /\ BufferSize(s) \in Nat
  BY SpaceFacts DEF ContainsOffset
<1>2. o - s.offset < OffsetSize(s) /\ s.offset + (o - s.offset) + 1 = o + 1
  BY <1>1
<1> QED
  BY <1>1, <1>2 DEF ByteAt

(* A view is the one of the first segment that has the offset in the file.  *)
LEMMA ViewAnswer ==
  ASSUME NEW S, Inhabited(S), NEW a \in Nat, NEW n \in Nat,
         NEW o \in Offset(S, a), NEW v \in AddressToViews(S, a, n)
  PROVE  LET s == Foremost(AtOffset(S, o))
         IN  /\ AtOffset(S, o) # {} /\ v.start = Pointer(s, o - s.offset)
             /\ v.size = AtMost(n, BufferSize(s) - (o - s.offset)) /\ v.size # 0
<1> DEFINE s == Foremost(AtOffset(S, o))
           size == AtMost(n, BufferSize(s) - (o - s.offset))
<1>1. Offset(S, a) = {o}
  BY DEF Offset
<1>2. v \in OffsetToViews(S, o, n)
  BY <1>1 DEF AddressToViews
<1>3. /\ AtOffset(S, o) # {} /\ size # 0
      /\ v = [start |-> Pointer(s, o - s.offset), size |-> size]
  BY <1>2 DEF OffsetToViews
<1> QED
  BY <1>3

(* Pointers and views of an address show the byte of the file at its        *)
(* offset, of whatever segments a loader makes: where two have the same     *)
(* bytes of the file, it does not matter whose buffer a view leads into.    *)
THEOREM EveryByteAgrees ==
  ASSUME NEW S, Inhabited(S), NEW file, NEW a \in Nat, NEW n \in Nat
  PROVE  BytesAgree(S, file, a, n)
<1> SUFFICES ASSUME NEW o \in Offset(S, a)
             PROVE  LET byte(p) == ByteAt(p.of, file, p.index)
                    IN  /\ \A p \in AddrPointers(S, a) : byte(p) = file[o + 1]
                        /\ \A p \in OffsPointers(S, o) : byte(p) = file[o + 1]
                        /\ \A v \in AddressToViews(S, a, n) :
                             /\ v.size \in 1 .. n
                             /\ v.start.index + v.size <= BufferSize(v.start.of)
                             /\ byte(v.start) = file[o + 1]
  BY DEF BytesAgree
<1> DEFINE s == Foremost(AtAddress(S, a))
           f == Foremost(AtOffset(S, o))
           byte(p) == ByteAt(p.of, file, p.index)
<1>1. /\ s \in S /\ ContainsAddress(s, a) /\ ContainsOffset(s, o)
      /\ o = s.offset + (a - s.address) /\ o \in Nat
  BY OffsetAnswer
<1>2. AtOffset(S, o) # {} /\ f \in S /\ ContainsOffset(f, o)
  <2>1. s \in AtOffset(S, o)
    BY <1>1 DEF AtOffset
  <2> QED
    BY <1>1, <2>1, FileAnswer
<1>3. a - s.address = o - s.offset
  BY <1>1, SpaceFacts
<1>4. ASSUME NEW p \in AddrPointers(S, a) PROVE byte(p) = file[o + 1]
  <2>1. p = Pointer(s, o - s.offset)
    BY <1>3 DEF AddrPointers
  <2> QED
    BY <1>1, <2>1, CopiedByte DEF Pointer
<1>5. ASSUME NEW p \in OffsPointers(S, o) PROVE byte(p) = file[o + 1]
  <2>1. p = Pointer(f, o - f.offset)
    BY DEF OffsPointers
  <2> QED
    BY <1>1, <1>2, <2>1, CopiedByte DEF Pointer
<1>6. ASSUME NEW v \in AddressToViews(S, a, n)
      PROVE  /\ v.size \in 1 .. n /\ v.start.index + v.size <= BufferSize(v.start.of)
             /\ byte(v.start) = file[o + 1]
  <2>1. /\ v.start = Pointer(f, o - f.offset) /\ v.size # 0
        /\ v.size = AtMost(n, BufferSize(f) - (o - f.offset))
    BY ViewAnswer
  <2>2. v.start.of = f /\ v.start.index = o - f.offset
    BY <2>1 DEF Pointer
  <2>3. /\ ByteAt(f, file, o - f.offset) = file[o + 1] /\ o - f.offset \in Nat
        /\ o - f.offset < BufferSize(f) /\ BufferSize(f) \in Nat
    BY <1>1, <1>2, CopiedByte, SpaceFacts
  <2>4. v.size \in 1 .. n /\ o - f.offset + v.size <= BufferSize(f)
    BY <2>1, <2>3 DEF AtMost
  <2> QED
    BY <2>2, <2>3, <2>4
<1> QED
  BY <1>4, <1>5, <1>6

(* With disjoint segments that take disjoint parts of the file, offset and  *)
(* address are inverse, and addressof of a view's start gives back the      *)
(* address it was asked for.  Where two segments share bytes of the file    *)
(* it does not: the view of one leads into the other.                       *)
THEOREM EveryAddressFoundAgain ==
  ASSUME NEW S, Inhabited(S), Disjoint(S), DisjointInFile(S),
         NEW a \in Nat, NEW n \in Nat
  PROVE  FoundAgain(S, a, n)
<1> SUFFICES ASSUME NEW o \in Offset(S, a)
             PROVE  /\ Address(S, o) = {a}
                    /\ \A v \in AddressToViews(S, a, n) : AddressOf(S, v.start) = {a}
  BY DEF FoundAgain
<1> DEFINE s == Foremost(AtAddress(S, a))
           f == Foremost(AtOffset(S, o))
<1>1. /\ s \in S /\ ContainsAddress(s, a) /\ ContainsOffset(s, o)
      /\ o = s.offset + (a - s.address) /\ o \in Nat
  BY OffsetAnswer
<1>2. AtOffset(S, o) # {} /\ f \in S /\ ContainsOffset(f, o)
  <2>1. s \in AtOffset(S, o)
    BY <1>1 DEF AtOffset
  <2> QED
    BY <1>1, <2>1, FileAnswer
<1> HIDE DEF s, f
<1>3. f = s
  <2>1. \A t \in {f, s} : /\ t.offset \in Nat /\ t.endoffset \in Nat
                          /\ t.offset <= o /\ o < t.endoffset /\ OffsetSize(t) > 0
    BY <1>1, <1>2, SpaceFacts DEF ContainsOffset
  <2> QED
    BY <1>1, <1>2, <2>1 DEF DisjointInFile
<1>4. /\ s.address \in Nat /\ s.endaddress \in Nat /\ s.address < s.endaddress
      /\ s.offset \in Nat /\ s.address <= a /\ a < s.endaddress
  BY <1>1, SpaceFacts DEF ContainsAddress
<1>5. o - s.offset + s.address = a /\ s.address + (o - s.offset) = a
  BY <1>1, <1>4
<1>6. Address(S, o) = {a}
  <2>1. Foremost(AtOffset(S, o)) = s
    BY <1>3 DEF f
  <2> QED
    BY <1>2, <1>4, <1>5, <2>1 DEF Address
<1>7. ASSUME NEW v \in AddressToViews(S, a, n) PROVE AddressOf(S, v.start) = {a}
  <2>1. v.start = Pointer(s, o - s.offset)
    BY <1>3, ViewAnswer DEF f
  <2>2. v.start.of = s /\ v.start.index = o - s.offset
    BY <2>1 DEF Pointer
  <2>3. AtAddress(S, s.address) = {s}
    <3>1. s \in AtAddress(S, s.address)
      BY <1>1, <1>4 DEF AtAddress, ContainsAddress
    <3>2. ASSUME NEW t \in AtAddress(S, s.address) PROVE t = s
      <4>1. t \in S /\ t.address <= s.address /\ s.address < t.endaddress
        BY DEF AtAddress, ContainsAddress
      <4>2. t.address \in Nat /\ t.endaddress \in Nat
        BY <4>1, SpaceFacts
      <4> QED
        BY <1>1, <1>4, <4>1, <4>2 DEF Disjoint
    <3> QED
      BY <3>1, <3>2
  <2>4. Foremost(AtAddress(S, s.address)) = s
    BY <2>3, <1>4 DEF Foremost
  <2> QED
    BY <1>4, <1>5, <2>2, <2>4 DEF AddressOf
<1> QED
  BY <1>6, <1>7
=============================================================================
