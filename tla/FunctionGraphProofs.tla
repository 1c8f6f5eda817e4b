------------------------- MODULE FunctionGraphProofs -------------------------
(***************************************************************************)
(* That the graphs show the code, for any code and any functions: each      *)
(* holds what control reaches from its start, in blocks that begin and end  *)
(* where control branches, and it is found at its start.                    *)
(*                                                                         *)
(* What it takes: all that the first pass has walked leads to what it has   *)
(* made a block or still has to look at, so that at its end whatever is     *)
(* reached branches to the start of a block only; and the second pass adds  *)
(* to a block what follows its last instruction, until a block begins.      *)
(*                                                                         *)
(* Then, that a drawing shows each node once and no two on each other.      *)
(* What it takes: of the search, that it makes a tree of all the nodes      *)
(* (TreeInv); of the grid, that two nodes in a row are two columns apart,   *)
(* the trees of two children being set beside each other in all their rows, *)
(* and that lanes are given within it (RouteInv); of the coordinates, that  *)
(* rows and columns follow each other, with room for what is in the lanes   *)
(* between them, and a node is within its row and columns (PictureInv).     *)
(*                                                                         *)
(* Last, that no edge is drawn through a node and no two on top of each     *)
(* other.  What it takes: each route takes a way whose marks no other one   *)
(* has, in columns that are clear of nodes; and between two nodes of a      *)
(* column there are not more indices in use in its lane than marks in those *)
(* of the rows, up to one, so that a lane straight down is not so far out   *)
(* that its index, taken for one of the row, leads into a node (WaysInv).   *)
(***************************************************************************)
EXTENDS CodeGraphs, FiniteSetTheorems, TLAPS

General == INSTANCE Lemmas

(* The sets of a program's links, without their order. *)
LEMMA Bounded == Limit \in Nat /\ Limit # 0 /\ Code \subseteq Nat /\ Code \subseteq Linked
                /\ Linked \subseteq Nat /\ 0 \notin Linked /\ NoNext \notin Linked
BY ProgramsAssumption DEF Code, Linked, NoNext

LEMMA Numbers == \A a : (a \in Code => a \in Int) /\ (a \in Linked => a \in Int)
BY ProgramsAssumption DEF Code, Linked

LEMMA LeastIs ==
  ASSUME NEW S \in SUBSET Nat, S # {}
  PROVE  Least(S) \in S /\ \A b \in S : Least(S) <= b
<1>1. \E a \in S : \A b \in S : a <= b
  BY General!LeastElement
<1> QED
  BY <1>1 DEF Least

LEMMA OneMore ==
  ASSUME NEW S, NEW s \in Seq(S), NEW e \in S
  PROVE  Append(s, e) \in Seq(S) /\ ToSet(Append(s, e)) = ToSet(s) \cup {e}
<1>1. /\ Append(s, e) \in Seq(S) /\ Len(Append(s, e)) = Len(s) + 1
      /\ DOMAIN Append(s, e) = 1 .. Len(s) + 1 /\ DOMAIN s = 1 .. Len(s) /\ Len(s) \in Nat
      /\ Append(s, e)[Len(s) + 1] = e
      /\ \A i \in 1 .. Len(s) : Append(s, e)[i] = s[i]
  OBVIOUS
<1>2. ToSet(s) \cup {e} \subseteq ToSet(Append(s, e))
  <2>1. Len(s) + 1 \in DOMAIN Append(s, e) /\ \A i \in DOMAIN s : i \in DOMAIN Append(s, e)
    BY <1>1
  <2> QED
    BY <1>1, <2>1 DEF ToSet
<1>3. ToSet(Append(s, e)) \subseteq ToSet(s) \cup {e}
  <2>1. \A i \in DOMAIN Append(s, e) : i \in DOMAIN s \/ i = Len(s) + 1
    BY <1>1
  <2> QED
    BY <1>1, <2>1 DEF ToSet
<1> QED
  BY <1>1, <1>2, <1>3

(* The addresses of a set, counted up. *)
Counted(s, S, n) == s \in Seq(S) /\ ToSet(s) = S \cap (0 .. n)

LEMMA AscendingIs ==
  ASSUME NEW S \in SUBSET Linked
  PROVE  Ascending(S) \in Seq(S) /\ ToSet(Ascending(S)) = S
<1> DEFINE N == 2 * Limit
           More(s, a) == IF a \in S THEN Append(s, a) ELSE s
           adds == [a \in (0 .. N) \ {0} |-> [s \in Seq(S) |-> More(s, a)]]
           upto[a \in 0 .. 2 * Limit] ==
             IF a = 0 THEN <<>> ELSE IF a \in S THEN Append(upto[a - 1], a) ELSE upto[a - 1]
<1>0. Ascending(S) = upto[N]
  BY DEF Ascending, upto, N
<1> HIDE DEF upto
<1>1. N \in Nat /\ S \subseteq 1 .. N
  BY Bounded DEF Linked
<1>2. PICK f : General!Follows(f, 0, N, Seq(S), <<>>, adds)
  <2>1. General!Steps(adds, 0, N, Seq(S))
    <3>1. \A s \in Seq(S), a \in (0 .. N) \ {0} : More(s, a) \in Seq(S)
      OBVIOUS
    <3> HIDE DEF More
    <3> QED
      BY <3>1 DEF General!Steps
  <2>2. <<>> \in Seq(S) /\ 0 \in Int /\ N \in Int /\ 0 <= N
    BY <1>1
  <2> HIDE DEF adds, N
  <2> QED
    BY <2>1, <2>2, General!Recursion
<1>3. f \in [0 .. N -> Seq(S)] /\ f[0] = <<>>
  BY <1>2 DEF General!Follows
<1>4. ASSUME NEW a \in (0 .. N) \ {0} PROVE f[a - 1] \in Seq(S) /\ f[a] = More(f[a - 1], a)
  <2>1. f[a] = adds[a][f[a - 1]]
    <3> HIDE DEF adds
    <3> QED
      BY <1>2 DEF General!Follows
  <2>2. f[a - 1] \in Seq(S)
    <3>1. a - 1 \in 0 .. N
      BY <1>1
    <3> HIDE DEF N
    <3> QED
      BY <1>3, <3>1
  <2> HIDE DEF More
  <2> QED
    BY <2>1, <2>2
<1>5. \A a \in 0 .. N : f[a] = IF a = 0 THEN <<>> ELSE IF a \in S THEN Append(f[a - 1], a) ELSE f[a - 1]
  BY <1>3, <1>4
<1>6. f = [a \in 0 .. 2 * Limit |->
             IF a = 0 THEN <<>> ELSE IF a \in S THEN Append(f[a - 1], a) ELSE f[a - 1]]
  BY <1>3, <1>5
<1>7. upto = [a \in 0 .. 2 * Limit |->
                IF a = 0 THEN <<>> ELSE IF a \in S THEN Append(upto[a - 1], a) ELSE upto[a - 1]]
  BY <1>6, Zenon DEF upto
<1>8. upto[0] = <<>> /\ \A a \in (0 .. N) \ {0} : upto[a] = More(upto[a - 1], a)
  <2>1. ASSUME NEW a \in 0 .. 2 * Limit
        PROVE  upto[a] = IF a = 0 THEN <<>>
                         ELSE IF a \in S THEN Append(upto[a - 1], a) ELSE upto[a - 1]
    BY <1>7, Zenon
  <2>2. 0 \in 0 .. 2 * Limit
    BY <1>1
  <2> QED
    BY <2>1, <2>2
<1> DEFINE T == {a \in 0 .. N : Counted(upto[a], S, a)}
<1>9. 0 \in T
  <2>1. Counted(<<>>, S, 0)
    BY <1>1 DEF Counted, ToSet
  <2> QED
    BY <1>1, <1>8, <2>1
<1>10. ASSUME NEW a \in 0 .. N, a # 0, a - 1 \in T PROVE a \in T
  <2> DEFINE s == upto[a - 1]
  <2>1. s \in Seq(S) /\ ToSet(s) = S \cap (0 .. a - 1) /\ upto[a] = More(s, a)
    BY <1>8, <1>10 DEF Counted
  <2> HIDE DEF s
  <2>2. CASE a \in S
    <3>1. Append(s, a) \in Seq(S) /\ ToSet(Append(s, a)) = ToSet(s) \cup {a}
      BY <2>1, <2>2, OneMore
    <3>2. S \cap (0 .. a) = (S \cap (0 .. a - 1)) \cup {a}
      BY <2>2, <1>1
    <3> QED
      BY <2>1, <2>2, <3>1, <3>2 DEF Counted
  <2>3. CASE a \notin S
    <3>1. S \cap (0 .. a) = S \cap (0 .. a - 1)
      BY <2>3, <1>1
    <3> QED
      BY <2>1, <2>3, <3>1 DEF Counted
  <2> QED
    BY <2>2, <2>3
<1>11. N \in T
  <2>1. 0 .. N \subseteq T
    <3> HIDE DEF T
    <3> QED
      BY <1>1, <1>9, <1>10, General!IntervalInduction
  <2> QED
    BY <1>1, <2>1
<1>12. Counted(upto[N], S, N)
  BY <1>11
<1> QED
  <2>1. S \cap (0 .. N) = S
    <3>1. \A a \in 1 .. N : a \in 0 .. N
      BY <1>1
    <3> QED
      BY <1>1, <3>1, Zenon
  <2> QED
    BY <1>0, <1>12, <2>1 DEF Counted

LEMMA Joined ==
  ASSUME NEW S, NEW s \in Seq(S), NEW t \in Seq(S)
  PROVE  s \o t \in Seq(S) /\ ToSet(s \o t) = ToSet(s) \cup ToSet(t)
<1>1. /\ s \o t \in Seq(S) /\ Len(s \o t) = Len(s) + Len(t) /\ Len(s) \in Nat /\ Len(t) \in Nat
      /\ DOMAIN (s \o t) = 1 .. Len(s) + Len(t) /\ DOMAIN s = 1 .. Len(s) /\ DOMAIN t = 1 .. Len(t)
      /\ \A i \in 1 .. Len(s) : (s \o t)[i] = s[i]
      /\ \A i \in 1 .. Len(t) : (s \o t)[Len(s) + i] = t[i]
  OBVIOUS
<1>2. \A i \in DOMAIN s : i \in DOMAIN (s \o t)
  BY <1>1
<1>3. \A i \in DOMAIN t : Len(s) + i \in DOMAIN (s \o t)
  BY <1>1
<1>4. ASSUME NEW i \in DOMAIN (s \o t)
      PROVE  (s \o t)[i] \in ToSet(s) \cup ToSet(t)
  <2>1. CASE i \in DOMAIN s
    BY <1>1, <2>1 DEF ToSet
  <2>2. CASE i \notin DOMAIN s
    <3> DEFINE j == i - Len(s)
    <3>1. j \in DOMAIN t /\ i = Len(s) + j
      BY <1>1, <2>2
    <3>2. (s \o t)[i] = t[j]
      BY <1>1, <3>1
    <3> QED
      BY <3>1, <3>2 DEF ToSet
  <2> QED
    BY <2>1, <2>2
<1>5. ASSUME NEW e \in ToSet(s) \cup ToSet(t) PROVE e \in ToSet(s \o t)
  <2>1. CASE e \in ToSet(s)
    BY <1>1, <1>2, <2>1 DEF ToSet
  <2>2. CASE e \in ToSet(t)
    <3>1. PICK i \in DOMAIN t : t[i] = e
      BY <2>2 DEF ToSet
    <3> QED
      BY <1>1, <1>3, <3>1 DEF ToSet
  <2> QED
    BY <2>1, <2>2
<1>6. ToSet(s \o t) \subseteq ToSet(s) \cup ToSet(t)
  BY <1>4 DEF ToSet
<1>7. ToSet(s) \cup ToSet(t) \subseteq ToSet(s \o t)
  BY <1>5, Zenon
<1> QED
  BY <1>1, <1>6, <1>7

LEMMA Reversed ==
  ASSUME NEW S, NEW s \in Seq(S)
  PROVE  Reverse(s) \in Seq(S) /\ ToSet(Reverse(s)) = ToSet(s)
<1> DEFINE r == Reverse(s)
           L == Len(s)
<1>1. /\ r \in Seq(S) /\ DOMAIN r = 1 .. L /\ DOMAIN s = 1 .. L /\ L \in Nat
      /\ \A i \in 1 .. L : r[i] = s[L - i + 1]
  BY DEF Reverse
<1> HIDE DEF r, L
<1>2. \A i \in 1 .. L : L - i + 1 \in 1 .. L /\ L - (L - i + 1) + 1 = i
  BY <1>1
<1>3. \A i \in 1 .. L : r[L - i + 1] = s[i]
  BY <1>1, <1>2
<1>4. ToSet(r) \subseteq ToSet(s) /\ ToSet(s) \subseteq ToSet(r)
  <2>1. ASSUME NEW x \in ToSet(r) PROVE x \in ToSet(s)
    <3>1. PICK i \in 1 .. L : x = r[i]
      BY <1>1 DEF ToSet
    <3> QED
      BY <1>1, <1>2, <3>1 DEF ToSet
  <2>2. ASSUME NEW x \in ToSet(s) PROVE x \in ToSet(r)
    <3>1. PICK i \in 1 .. L : x = s[i]
      BY <1>1 DEF ToSet
    <3> QED
      BY <1>1, <1>2, <1>3, <3>1 DEF ToSet
  <2> QED
    BY <2>1, <2>2
<1> QED
  BY <1>1, <1>4 DEF r

LEMMA First ==
  ASSUME NEW S, NEW s \in Seq(S), s # <<>>
  PROVE  /\ Head(s) \in ToSet(s) /\ Tail(s) \in Seq(S) /\ Head(s) \in S
         /\ ToSet(s) = {Head(s)} \cup ToSet(Tail(s))
<1>1. /\ Len(s) \in Nat /\ Len(s) # 0 /\ DOMAIN s = 1 .. Len(s) /\ Tail(s) \in Seq(S)
      /\ DOMAIN Tail(s) = 1 .. Len(s) - 1 /\ Head(s) = s[1]
      /\ \A i \in 1 .. Len(s) - 1 : Tail(s)[i] = s[i + 1]
  OBVIOUS
<1>2. 1 \in DOMAIN s /\ \A i \in DOMAIN Tail(s) : i + 1 \in DOMAIN s
      /\ \A k \in DOMAIN s : k = 1 \/ (k - 1 \in DOMAIN Tail(s) /\ (k - 1) + 1 = k)
  BY <1>1
<1>3. Head(s) \in ToSet(s) /\ Head(s) \in S
  BY <1>1, <1>2 DEF ToSet
<1>4. ToSet(Tail(s)) \subseteq ToSet(s)
  BY <1>1, <1>2 DEF ToSet
<1>5. ASSUME NEW e \in ToSet(s) PROVE e \in {Head(s)} \cup ToSet(Tail(s))
  <2>1. PICK i \in DOMAIN s : s[i] = e
    BY DEF ToSet
  <2>2. CASE i = 1
    BY <1>1, <2>1, <2>2
  <2>3. CASE i # 1
    <3>1. i - 1 \in DOMAIN Tail(s) /\ Tail(s)[i - 1] = e
      BY <1>1, <1>2, <2>1, <2>3
    <3> QED
      BY <3>1 DEF ToSet
  <2> QED
    BY <2>2, <2>3
<1> QED
  BY <1>1, <1>3, <1>4, <1>5
-----------------------------------------------------------------------------
(* Where an instruction may branch to, and what follows it; the links are a *)
(* parameter here.                                                          *)
Branch(n, a) == (n.jumps[a] \cup n.skips[a]) \cap Code
Flow(n, a) == ({n.next[a]} \cup n.jumps[a] \cup n.skips[a]) \cap Code

Closed(n, S) == \A b \in S : Flow(n, b) \subseteq S

ReachedBy(n, s) == {a \in Code : \A S \in SUBSET Code : s \in S /\ Closed(n, S) => a \in S}

LEMMA ReachedIs == \A s : Reached(s) = ReachedBy(net, s)
BY DEF Reached, ReachedBy, Closed, GoesTo, Flow

LEMMA ReachedFrom ==
  ASSUME NEW n, NEW s \in Code
  PROVE  s \in ReachedBy(n, s)
BY DEF ReachedBy

LEMMA ReachedOn ==
  ASSUME NEW n, NEW s, NEW a \in ReachedBy(n, s)
  PROVE  Flow(n, a) \subseteq ReachedBy(n, s)
BY DEF ReachedBy, Closed, Flow

LEMMA ReachedLeast ==
  ASSUME NEW n, NEW s, NEW S \in SUBSET Code, s \in S, Closed(n, S)
  PROVE  ReachedBy(n, s) \subseteq S
BY DEF ReachedBy

(* What links there are between the instructions of a program. *)
LinksOK(p, n) ==
  \A a \in Linked :
    /\ n.next[a] # NoNext => a \in Code /\ a < n.next[a]
    /\ n.jumps[a] \cup n.skips[a] # {} => a \in Code
    /\ \A t \in n.jumps[a] \cup n.skips[a] : HasNode(p, t)

ProgramOK(p) ==
  /\ p.code \in [Code -> Instr] /\ p.functions \subseteq Code
  /\ \A a \in Code : p.code[a].size = 0 =>
       ~p.code[a].flows /\ p.code[a].jumps \cup p.code[a].skips \cup p.code[a].calls = {}

LEMMA AtIs ==
  ASSUME NEW p, ProgramOK(p), NEW a \in Linked
  PROVE  /\ At(p, a) \in Instr
         /\ a \notin Code => ~At(p, a).flows /\ Branches(p, a) = {}
         /\ At(p, a).flows => a \in Code /\ NextOf(p, a) \in Linked /\ a < NextOf(p, a)
         /\ ~At(p, a).flows => NextOf(p, a) = NoNext
<1>1. Nothing \in Instr /\ ~Nothing.flows
      /\ Nothing.jumps \cup Nothing.skips \cup Nothing.calls = {}
  BY Bounded DEF Nothing, Instr
<1>2. CASE a \notin Code
  BY <1>1, <1>2 DEF At, Branches, NextOf
<1>3. CASE a \in Code
  <2>1. At(p, a) = p.code[a] /\ p.code[a] \in Instr
    BY <1>3 DEF At, ProgramOK
  <2>2. ASSUME p.code[a].flows PROVE a + p.code[a].size \in Linked /\ a < a + p.code[a].size
    <3>1. p.code[a].size \in 1 .. Limit
      BY <1>3, <2>1, <2>2, Bounded DEF ProgramOK, Instr
    <3> QED
      BY <1>3, <3>1, Bounded DEF Code, Linked
  <2> QED
    BY <1>3, <2>1, <2>2 DEF NextOf
<1> QED
  BY <1>2, <1>3

LEMMA NetIs ==
  ASSUME NEW p, ProgramOK(p)
  PROVE  NetOf(p) \in NetType(Linked) /\ LinksOK(p, NetOf(p))
<1>1. \A a \in Linked : NextOf(p, a) \in Linked \cup {NoNext}
  BY AtIs
<1>2. \A a \in Linked : At(p, a).jumps \subseteq Linked /\ At(p, a).skips \subseteq Linked
                        /\ At(p, a).calls \subseteq Linked
  BY AtIs DEF Instr
<1>3. \A a \in Linked : {b \in Code : NextOf(p, b) = a} \subseteq Linked
                        /\ {b \in Code : a \in Branches(p, b)} \subseteq Linked
                        /\ {b \in Code : a \in At(p, b).jumps \cup At(p, b).calls} \subseteq Linked
  BY Bounded
<1>4. NetOf(p) \in NetType(Linked)
  BY <1>1, <1>2, <1>3 DEF NetOf, NetType
<1>5. \A a \in Linked : /\ NetOf(p).next[a] = NextOf(p, a)
                        /\ NetOf(p).jumps[a] = At(p, a).jumps
                        /\ NetOf(p).skips[a] = At(p, a).skips
  BY DEF NetOf
<1>6. ASSUME NEW a \in Linked, At(p, a).jumps \cup At(p, a).skips # {}
      PROVE  a \in Code /\ \A t \in At(p, a).jumps \cup At(p, a).skips : HasNode(p, t)
  <2>1. a \in Code
    BY <1>6, AtIs DEF Branches
  <2> QED
    BY <2>1 DEF HasNode, Branches
<1>7. \A a \in Linked : NextOf(p, a) # NoNext => a \in Code /\ a < NextOf(p, a)
  BY AtIs
<1> QED
  BY <1>4, <1>5, <1>6, <1>7 DEF LinksOK

LEMMA UnlinkedIs ==
  ASSUME NEW p, NEW n \in NetType(Linked), LinksOK(p, n), NEW F
  PROVE  UnlinkPrevs(n, F) \in NetType(Linked) /\ LinksOK(p, UnlinkPrevs(n, F))
<1> DEFINE nexts == [q \in DOMAIN n.next |-> IF \E f \in F : GoesOnTo(n, q, f) THEN NoNext ELSE n.next[q]]
           prevs == [a \in DOMAIN n.prev |->
                       IF a \in F THEN {q \in n.prev[a] : ~GoesOnTo(n, q, a)} ELSE n.prev[a]]
           u == [n EXCEPT !.next = nexts, !.prev = prevs]
<1>1. UnlinkPrevs(n, F) = u
  BY DEF UnlinkPrevs
<1>2. nexts \in [Linked -> Linked \cup {NoNext}] /\ prevs \in [Linked -> SUBSET Linked]
      /\ \A a \in Linked : nexts[a] # NoNext => nexts[a] = n.next[a]
  BY DEF NetType
<1> HIDE DEF nexts, prevs
<1>3. u \in NetType(Linked) /\ u.next = nexts /\ u.jumps = n.jumps /\ u.skips = n.skips
  BY <1>2 DEF NetType
<1> HIDE DEF u
<1> QED
  BY <1>1, <1>2, <1>3 DEF LinksOK
-----------------------------------------------------------------------------
(* A graph, and what its operations do to its fields. *)
PartialTo(V) == UNION {[S -> V] : S \in SUBSET Code}

GraphRecord ==
  [start : 0 .. Limit, leaders : Seq(Code), ends : PartialTo(Code),
   edges : Seq(Nat \X Nat), members : PartialTo(SUBSET Code)]

LEMMA Maps ==
  ASSUME NEW V, NEW f
  PROVE  f \in PartialTo(V) <=>
           DOMAIN f \subseteq Code /\ f \in [DOMAIN f -> V]
BY DEF PartialTo

IsWith(h, V, f, a, v) ==
  /\ h \in PartialTo(V) /\ DOMAIN h = DOMAIN f \cup {a} /\ h[a] = v
  /\ \A b \in DOMAIN f : b # a => h[b] = f[b]

LEMMA WithIs ==
  ASSUME NEW V, NEW f \in PartialTo(V), NEW a \in Code, NEW v \in V
  PROVE  IsWith(With(f, a, v), V, f, a, v)
<1>1. DOMAIN f \subseteq Code /\ f \in [DOMAIN f -> V]
  BY Maps
<1> DEFINE g == With(f, a, v)
<1>2. g = [b \in DOMAIN f \cup {a} |-> IF b = a THEN v ELSE f[b]]
  BY DEF With
<1>3. DOMAIN g = DOMAIN f \cup {a} /\ g \in [DOMAIN g -> V] /\ g[a] = v
      /\ \A b \in DOMAIN f : b # a => g[b] = f[b]
  BY <1>1, <1>2
<1>4. DOMAIN g \subseteq Code
  BY <1>1, <1>3
<1> HIDE DEF g
<1>5. g \in PartialTo(V)
  BY <1>3, <1>4, Maps
<1> QED
  BY <1>3, <1>5 DEF g, IsWith

LEMMA NewGraphIs ==
  ASSUME NEW a \in 0 .. Limit
  PROVE  /\ NewGraph(a) \in GraphRecord /\ GraphOK(NewGraph(a))
         /\ NewGraph(a).start = a /\ NewGraph(a).leaders = <<>> /\ NewGraph(a).edges = <<>>
         /\ Leaders(NewGraph(a)) = {}
<1> DEFINE g == NewGraph(a)
           E == [b \in {} |-> 0]
           M == [b \in {} |-> {}]
<1>1. E \in [{} -> Code] /\ M \in [{} -> SUBSET Code] /\ DOMAIN E = {} /\ DOMAIN M = {}
  OBVIOUS
<1> HIDE DEF E, M
<1>2. E \in PartialTo(Code)
      /\ M \in PartialTo(SUBSET Code)
  BY <1>1, Maps
<1>3. g = [start |-> a, leaders |-> <<>>, ends |-> E, edges |-> <<>>, members |-> M]
  BY DEF NewGraph, E, M
<1> HIDE DEF g
<1>4. g \in GraphRecord
  BY <1>2, <1>3 DEF GraphRecord
<1>5. Leaders(g) = {}
  BY <1>3 DEF Leaders, ToSet
<1>6. GraphOK(g)
  BY <1>1, <1>3, <1>5 DEF GraphOK, IsInjective
<1> QED
  BY <1>3, <1>4, <1>5, <1>6 DEF g

LEMMA LeadersIn ==
  ASSUME NEW g, GraphOK(g)
  PROVE  Leaders(g) \subseteq Code
BY DEF GraphOK, Leaders, ToSet

(* The nodes are as many as the leaders. *)
LEMMA NodeIs ==
  ASSUME NEW g, GraphOK(g), NEW b \in Leaders(g)
  PROVE  /\ NodeOf(g, b) \in DOMAIN g.leaders /\ g.leaders[NodeOf(g, b)] = b
         /\ NodeOf(g, b) \in Nat
<1>1. \E n \in DOMAIN g.leaders : g.leaders[n] = b
  BY DEF Leaders, ToSet
<1>2. NodeOf(g, b) \in DOMAIN g.leaders /\ g.leaders[NodeOf(g, b)] = b
  BY <1>1 DEF NodeOf
<1>3. DOMAIN g.leaders \subseteq Nat
  BY DEF GraphOK
<1> QED
  BY <1>2, <1>3

LEMMA NodeIsOne ==
  ASSUME NEW g, GraphOK(g)
  PROVE  /\ \A n \in DOMAIN g.leaders : g.leaders[n] \in Leaders(g) /\ NodeOf(g, g.leaders[n]) = n
         /\ \A b, c \in Leaders(g) : NodeOf(g, b) = NodeOf(g, c) => b = c
<1>1. ASSUME NEW n \in DOMAIN g.leaders
      PROVE  g.leaders[n] \in Leaders(g) /\ NodeOf(g, g.leaders[n]) = n
  <2>1. g.leaders[n] \in Leaders(g)
    BY DEF Leaders, ToSet
  <2>2. NodeOf(g, g.leaders[n]) \in DOMAIN g.leaders
        /\ g.leaders[NodeOf(g, g.leaders[n])] = g.leaders[n]
    BY <2>1, NodeIs
  <2>3. IsInjective(g.leaders)
    BY DEF GraphOK
  <2> QED
    BY <2>1, <2>2, <2>3 DEF IsInjective
<1>2. ASSUME NEW b \in Leaders(g), NEW c \in Leaders(g), NodeOf(g, b) = NodeOf(g, c)
      PROVE  b = c
  BY <1>2, NodeIs
<1> QED
  BY <1>1, <1>2

(* A basic block that begins. *)
LEMMA CreateIs ==
  ASSUME NEW g \in GraphRecord, GraphOK(g), NEW a \in Code, a \notin Leaders(g)
  PROVE  LET h == CreateBasicBlock(g, a)
         IN  /\ h \in GraphRecord /\ GraphOK(h) /\ h.start = g.start /\ h.edges = g.edges
             /\ h.leaders = Append(g.leaders, a) /\ Leaders(h) = Leaders(g) \cup {a}
             /\ \A b \in Leaders(g) : h.ends[b] = g.ends[b] /\ h.members[b] = g.members[b]
             /\ h.ends[a] = a /\ h.members[a] = {}
<1> DEFINE h == CreateBasicBlock(g, a)
           E == With(g.ends, a, a)
           M == With(g.members, a, {})
           L == Append(g.leaders, a)
<1>1. /\ g.ends \in PartialTo(Code)
      /\ g.members \in PartialTo(SUBSET Code)
      /\ g.leaders \in Seq(Code) /\ {} \in SUBSET Code /\ g.start \in 0 .. Limit
      /\ DOMAIN g.ends = Leaders(g) /\ DOMAIN g.members = Leaders(g)
  BY DEF GraphRecord, GraphOK
<1>2. /\ E \in PartialTo(Code)
      /\ DOMAIN E = Leaders(g) \cup {a} /\ E[a] = a
      /\ \A b \in Leaders(g) : E[b] = g.ends[b]
  <2>1. IsWith(E, Code, g.ends, a, a)
    BY <1>1, WithIs
  <2> HIDE DEF E
  <2> QED
    BY <1>1, <2>1 DEF IsWith
<1>3. /\ M \in PartialTo(SUBSET Code)
      /\ DOMAIN M = Leaders(g) \cup {a} /\ M[a] = {}
      /\ \A b \in Leaders(g) : M[b] = g.members[b]
  <2>1. IsWith(M, SUBSET Code, g.members, a, {})
    BY <1>1, WithIs
  <2> HIDE DEF M
  <2> QED
    BY <1>1, <2>1 DEF IsWith
<1>4. L \in Seq(Code) /\ ToSet(L) = Leaders(g) \cup {a}
  BY <1>1, OneMore DEF Leaders
<1>5. h = [g EXCEPT !.leaders = L, !.ends = E, !.members = M]
  BY DEF CreateBasicBlock
<1> HIDE DEF E, M
<1>6. h \in GraphRecord
  BY <1>2, <1>3, <1>4, <1>5 DEF GraphRecord
<1>7. h.start = g.start /\ h.edges = g.edges /\ h.leaders = L /\ h.ends = E /\ h.members = M
  BY <1>5 DEF GraphRecord
<1> HIDE DEF h
<1>8. Leaders(h) = Leaders(g) \cup {a}
  BY <1>4, <1>7 DEF Leaders
<1>9. /\ DOMAIN L = 1 .. Len(g.leaders) + 1 /\ DOMAIN g.leaders = 1 .. Len(g.leaders)
      /\ Len(g.leaders) \in Nat /\ L[Len(g.leaders) + 1] = a
      /\ \A i \in DOMAIN g.leaders : L[i] = g.leaders[i]
  BY <1>1
<1> HIDE DEF L
<1>10. IsInjective(L)
  <2> SUFFICES ASSUME NEW i \in DOMAIN L, NEW j \in DOMAIN L, L[i] = L[j] PROVE i = j
    BY DEF IsInjective
  <2>1. \A k \in DOMAIN L : k \in DOMAIN g.leaders \/ k = Len(g.leaders) + 1
    BY <1>9
  <2>2. \A k \in DOMAIN g.leaders : L[k] # a
    BY <1>9 DEF Leaders, ToSet
  <2>3. IsInjective(g.leaders)
    BY DEF GraphOK
  <2> QED
    BY <1>9, <2>1, <2>2, <2>3 DEF IsInjective
<1>11. \A b \in Leaders(h) : h.ends[b] \in b .. Limit /\ h.members[b] \subseteq b .. h.ends[b]
  <2>1. h.ends[a] \in a .. Limit /\ h.members[a] \subseteq a .. h.ends[a]
    BY <1>2, <1>3, <1>7, Bounded DEF Code
  <2>2. \A b \in Leaders(g) : h.ends[b] \in b .. Limit /\ h.members[b] \subseteq b .. h.ends[b]
    BY <1>2, <1>3, <1>7 DEF GraphOK
  <2> QED
    BY <1>8, <2>1, <2>2
<1>12. \A i \in DOMAIN h.edges : h.edges[i] \in (DOMAIN h.leaders) \X (DOMAIN h.leaders)
  <2>1. \A i \in DOMAIN g.leaders : i \in DOMAIN L
    BY <1>9
  <2>2. \A i \in DOMAIN g.edges : g.edges[i] \in (DOMAIN g.leaders) \X (DOMAIN g.leaders)
    BY DEF GraphOK
  <2> QED
    BY <1>7, <2>1, <2>2
<1>13. GraphOK(h)
  <2>1. IsInjective(h.edges) /\ h.start \in 0 .. Limit
    BY <1>1, <1>7 DEF GraphOK
  <2> QED
    BY <1>2, <1>3, <1>4, <1>7, <1>8, <1>10, <1>11, <1>12, <2>1 DEF GraphOK
<1> QED
  BY <1>2, <1>3, <1>6, <1>7, <1>8, <1>13 DEF h, L
-----------------------------------------------------------------------------
(* The edges of a graph: between its nodes, and each there once. *)
EdgesOK(g, E) ==
  /\ E \in Seq(Nat \X Nat) /\ IsInjective(E)
  /\ \A i \in DOMAIN E : E[i] \in (DOMAIN g.leaders) \X (DOMAIN g.leaders)

(* F are the edges E and those to the blocks that begin at addresses in T.  *)
Joins(g, E, F, n, T) ==
  /\ EdgesOK(g, F)
  /\ \A u, v : Contains(F, <<u, v>>) <=>
                 \/ Contains(E, <<u, v>>)
                 \/ u = n /\ \E c \in T \cap Leaders(g) : v = NodeOf(g, c)

LEMMA PushEdgeIs ==
  ASSUME NEW g, GraphOK(g), NEW E, EdgesOK(g, E), NEW s \in DOMAIN g.leaders,
         NEW t \in DOMAIN g.leaders
  PROVE  /\ EdgesOK(g, PushEdge(E, s, t))
         /\ \A u, v : Contains(PushEdge(E, s, t), <<u, v>>) <=>
                        Contains(E, <<u, v>>) \/ (u = s /\ v = t)
<1>1. s \in Nat /\ t \in Nat
  BY DEF GraphOK
<1>2. CASE Contains(E, <<s, t>>)
  BY <1>2 DEF PushEdge
<1>3. CASE ~Contains(E, <<s, t>>)
  <2> DEFINE F == Append(E, <<s, t>>)
             e == <<s, t>>
  <2>1. PushEdge(E, s, t) = F
    BY <1>3 DEF PushEdge
  <2>2. e \in Nat \X Nat /\ e \in (DOMAIN g.leaders) \X (DOMAIN g.leaders)
    BY <1>1
  <2>3. ~Contains(E, e) /\ E \in Seq(Nat \X Nat)
    BY <1>3 DEF EdgesOK
  <2>4. \A u, v : <<u, v>> = e <=> u = s /\ v = t
    OBVIOUS
  <2> HIDE DEF e
  <2>5. /\ F = Append(E, e) /\ F \in Seq(Nat \X Nat) /\ DOMAIN F = 1 .. Len(E) + 1
        /\ Len(E) \in Nat /\ Len(F) = Len(E) + 1 /\ DOMAIN E = 1 .. Len(E)
        /\ F[Len(E) + 1] = e /\ \A i \in 1 .. Len(E) : F[i] = E[i]
    BY <2>2, <2>3 DEF e
  <2> HIDE DEF F
  <2>6. \A i \in DOMAIN F : i \in DOMAIN E \/ i = Len(E) + 1
    BY <2>5
  <2>7. \A i \in DOMAIN E : i \in DOMAIN F /\ E[i] # e
    BY <2>3, <2>5 DEF Contains
  <2>8. IsInjective(F)
    <3>1. IsInjective(E)
      BY DEF EdgesOK
    <3> QED
      BY <2>5, <2>6, <2>7, <3>1 DEF IsInjective
  <2>9. \A i \in DOMAIN F : F[i] \in (DOMAIN g.leaders) \X (DOMAIN g.leaders)
    BY <2>2, <2>5, <2>6 DEF EdgesOK
  <2>10. \A x : Contains(F, x) <=> Contains(E, x) \/ x = e
    <3>1. Len(E) + 1 \in DOMAIN F
      BY <2>5
    <3> QED
      BY <2>5, <2>6, <2>7, <3>1 DEF Contains
  <2> QED
    BY <2>1, <2>4, <2>5, <2>8, <2>9, <2>10 DEF EdgesOK
<1> QED
  BY <1>2, <1>3

LEMMA PushEdgesIs ==
  ASSUME NEW g, GraphOK(g), NEW E, EdgesOK(g, E), NEW b \in Leaders(g), NEW T \in Seq(Int)
  PROVE  Joins(g, E, PushEdges(g, E, b, T), NodeOf(g, b), ToSet(T))
<1> DEFINE N == Len(T)
           S == {F \in Seq(Nat \X Nat) : EdgesOK(g, F)}
           More(F, i) == IF T[i] \in Leaders(g) THEN PushEdge(F, NodeOf(g, b), NodeOf(g, T[i]))
                         ELSE F
           adds == [i \in (0 .. N) \ {0} |-> [F \in S |-> More(F, i)]]
           pushed[i \in 0 .. Len(T)] ==
             IF i = 0 THEN E
             ELSE IF T[i] \in Leaders(g)
             THEN PushEdge(pushed[i - 1], NodeOf(g, b), NodeOf(g, T[i]))
             ELSE pushed[i - 1]
<1>0. PushEdges(g, E, b, T) = pushed[N]
  BY DEF PushEdges, pushed, N
<1> HIDE DEF pushed
<1>1. N \in Nat /\ DOMAIN T = 1 .. N /\ E \in S /\ NodeOf(g, b) \in DOMAIN g.leaders
      /\ \A c \in Leaders(g) : NodeOf(g, c) \in DOMAIN g.leaders
  BY NodeIs DEF EdgesOK
<1>2. \A F \in S, i \in (0 .. N) \ {0} : More(F, i) \in S
  <2> SUFFICES ASSUME NEW F \in S, NEW i \in (0 .. N) \ {0} PROVE More(F, i) \in S
    OBVIOUS
  <2>1. CASE T[i] \in Leaders(g)
    <3>1. EdgesOK(g, PushEdge(F, NodeOf(g, b), NodeOf(g, T[i])))
      BY <1>1, <2>1, PushEdgeIs
    <3> QED
      BY <2>1, <3>1 DEF EdgesOK
  <2>2. CASE T[i] \notin Leaders(g)
    BY <2>2
  <2> QED
    BY <2>1, <2>2
<1>3. PICK f : General!Follows(f, 0, N, S, E, adds)
  <2>1. General!Steps(adds, 0, N, S)
    <3> HIDE DEF More, S, N
    <3> QED
      BY <1>2 DEF General!Steps
  <2>2. 0 \in Int /\ N \in Int /\ 0 <= N
    BY <1>1
  <2> HIDE DEF adds, N, S
  <2> QED
    BY <1>1, <2>1, <2>2, General!Recursion
<1>4. f \in [0 .. N -> S] /\ f[0] = E
  <2> HIDE DEF adds, S
  <2> QED
    BY <1>3 DEF General!Follows
<1>5. ASSUME NEW i \in (0 .. N) \ {0} PROVE i - 1 \in 0 .. N /\ f[i - 1] \in S /\ f[i] = More(f[i - 1], i)
  <2>1. f[i] = adds[i][f[i - 1]]
    <3> HIDE DEF adds, S
    <3> QED
      BY <1>3 DEF General!Follows
  <2>2. i - 1 \in 0 .. N
    BY <1>1
  <2>3. f[i - 1] \in S
    <3> HIDE DEF S, N
    <3> QED
      BY <1>4, <2>2
  <2> HIDE DEF More, S
  <2> QED
    BY <2>1, <2>2, <2>3
<1>6. \A i \in 0 .. N : f[i] = IF i = 0 THEN E
                               ELSE IF T[i] \in Leaders(g)
                               THEN PushEdge(f[i - 1], NodeOf(g, b), NodeOf(g, T[i]))
                               ELSE f[i - 1]
  <2> HIDE DEF N, S
  <2> QED
    BY <1>4, <1>5
<1>7. f = [i \in 0 .. Len(T) |->
             IF i = 0 THEN E
             ELSE IF T[i] \in Leaders(g)
             THEN PushEdge(f[i - 1], NodeOf(g, b), NodeOf(g, T[i]))
             ELSE f[i - 1]]
  <2>1. f \in [0 .. Len(T) -> S]
    BY <1>4
  <2> HIDE DEF S
  <2> QED
    BY <1>6, <2>1
<1>8. pushed = [i \in 0 .. Len(T) |->
             IF i = 0 THEN E
             ELSE IF T[i] \in Leaders(g)
             THEN PushEdge(pushed[i - 1], NodeOf(g, b), NodeOf(g, T[i]))
             ELSE pushed[i - 1]]
  BY <1>7, Zenon DEF pushed
<1>9. pushed[0] = E /\ \A i \in (0 .. N) \ {0} : pushed[i] = More(pushed[i - 1], i)
  <2>1. ASSUME NEW i \in 0 .. Len(T)
        PROVE  pushed[i] = IF i = 0 THEN E
                           ELSE IF T[i] \in Leaders(g)
                           THEN PushEdge(pushed[i - 1], NodeOf(g, b), NodeOf(g, T[i]))
                           ELSE pushed[i - 1]
    BY <1>8, Zenon
  <2>2. 0 \in 0 .. Len(T)
    BY <1>1
  <2> QED
    BY <2>1, <2>2
<1> DEFINE Ahead(i) == {T[j] : j \in 1 .. i}
           G == {i \in 0 .. N : Joins(g, E, pushed[i], NodeOf(g, b), Ahead(i))}
<1> HIDE DEF S, adds
<1>10. 0 \in G
  <2>1. Ahead(0) = {}
    OBVIOUS
  <2>2. Joins(g, E, E, NodeOf(g, b), {})
    BY DEF Joins
  <2>3. 0 \in 0 .. N
    BY <1>1
  <2>4. pushed[0] = E
    BY <1>9
  <2>5. Joins(g, E, pushed[0], NodeOf(g, b), Ahead(0))
    <3> HIDE DEF Ahead
    <3> QED
      BY <2>1, <2>2, <2>4
  <2> QED
    BY <2>3, <2>5
<1>11. ASSUME NEW i \in 0 .. N, i # 0, i - 1 \in G PROVE i \in G
  <2> DEFINE F == pushed[i - 1]
  <2>1. Joins(g, E, F, NodeOf(g, b), Ahead(i - 1)) /\ pushed[i] = More(F, i)
    BY <1>9, <1>11
  <2>2. Ahead(i) = Ahead(i - 1) \cup {T[i]}
    <3>1. \A j : j \in 1 .. i <=> j \in 1 .. i - 1 \/ j = i
      BY <1>1, <1>11
    <3> QED
      BY <3>1
  <2> HIDE DEF F, Ahead
  <2>3. CASE T[i] \in Leaders(g)
    <3> DEFINE H == PushEdge(F, NodeOf(g, b), NodeOf(g, T[i]))
    <3>1. EdgesOK(g, F) /\ NodeOf(g, T[i]) \in DOMAIN g.leaders
      BY <1>1, <2>1, <2>3 DEF Joins
    <3>2. /\ EdgesOK(g, H)
          /\ \A u, v : Contains(H, <<u, v>>) <=>
                         Contains(F, <<u, v>>) \/ (u = NodeOf(g, b) /\ v = NodeOf(g, T[i]))
      BY <1>1, <3>1, PushEdgeIs
    <3>3. More(F, i) = H
      BY <2>3
    <3> HIDE DEF H, More
    <3>4. Joins(g, E, H, NodeOf(g, b), Ahead(i))
      BY <2>1, <2>2, <2>3, <3>2 DEF Joins
    <3> QED
      BY <2>1, <3>3, <3>4
  <2>4. CASE T[i] \notin Leaders(g)
    <3>1. More(F, i) = F
      BY <2>4
    <3> HIDE DEF More
    <3>2. Joins(g, E, F, NodeOf(g, b), Ahead(i))
      BY <2>1, <2>2, <2>4 DEF Joins
    <3> QED
      BY <2>1, <3>1, <3>2
  <2> QED
    BY <2>3, <2>4
<1>12. N \in G
  <2>1. 0 .. N \subseteq G
    <3>1. N \in Int /\ 0 \in Int
      BY <1>1
    <3>2. \A i \in 0 .. N : i # 0 /\ i - 1 \in G => i \in G
      BY <1>11
    <3> HIDE DEF G, N
    <3> QED
      BY <1>10, <3>1, <3>2, General!IntervalInduction
  <2> HIDE DEF G
  <2> QED
    BY <1>1, <2>1
<1>13. Joins(g, E, pushed[N], NodeOf(g, b), Ahead(N))
  BY <1>12
<1>14. Ahead(N) = ToSet(T)
  BY <1>1 DEF ToSet
<1> QED
  BY <1>0, <1>13, <1>14
-----------------------------------------------------------------------------
(* A block as the second pass leaves it, as far as it has come: the block   *)
(* holds what is reached from its start up to where others begin, and has   *)
(* edges to the blocks that this leads to.                                  *)
Shape(n, g, b) ==
  /\ g.members[b] \subseteq ReachedBy(n, g.start)
  /\ g.members[b] \cap Leaders(g) \subseteq {b}
  /\ \A a \in g.members[b] \ {b} : \E x \in g.members[b] : n.next[x] = a
  /\ \A c \in Leaders(g) :
       Contains(g.edges, <<NodeOf(g, b), NodeOf(g, c)>>) <=> \E a \in g.members[b] : c \in Flow(n, a)

(* All of it, but for the instructions in rest.                             *)
Whole(n, g, b, rest) ==
  /\ b \in g.members[b]
  /\ \A a \in g.members[b] : Flow(n, a) \ Leaders(g) \subseteq g.members[b] \cup rest

(* The pass is in the block at an address.                                  *)
Amid(n, g, b, a) ==
  /\ a \in ReachedBy(n, g.start) /\ \A x \in g.members[b] : x < a
  /\ \/ a = b /\ g.members[b] = {}
     \/ /\ b < a /\ a \notin Leaders(g) /\ Whole(n, g, b, {a})
        /\ \E x \in g.members[b] : n.next[x] = a

(* All that is reached branches to where blocks begin.                      *)
Divided(n, g) ==
  /\ g.leaders # <<>> /\ g.leaders[1] = g.start /\ g.start \in Code
  /\ Leaders(g) \subseteq ReachedBy(n, g.start)
  /\ \A a \in ReachedBy(n, g.start) : Branch(n, a) \subseteq Leaders(g)

Complete(n, g) ==
  /\ g \in GraphRecord /\ GraphOK(g) /\ Divided(n, g)
  /\ \A b \in Leaders(g) : Shape(n, g, b) /\ Whole(n, g, b, {})

(* The second pass, of whose blocks those in T are open.                    *)
Halfway(n, g, T) ==
  /\ Divided(n, g) /\ T \subseteq Leaders(g)
  /\ \A b \in Leaders(g) : Shape(n, g, b)
  /\ \A b \in T : g.members[b] = {}

(* The first pass.  It has walked W; ahead is what it still has to look at, *)
(* and at the instructions of walking it is.                                *)
Walked(n, g, W, ahead, walking) ==
  /\ Leaders(g) \subseteq W \cup walking
  /\ \A a \in W : Branch(n, a) \subseteq Leaders(g) \cup ahead
  /\ \A a \in W : n.next[a] \in W \cup walking \cup {NoNext}

Begun(p, n, g, ahead, walking) ==
  /\ g.edges = <<>> /\ \A b \in Leaders(g) : g.members[b] = {}
  /\ Leaders(g) \cup ahead \subseteq ReachedBy(n, g.start)
  /\ walking \cap Code \subseteq ReachedBy(n, g.start)
  /\ IF g.leaders = <<>>
     THEN walking = {} /\ (ahead = {g.start} \/ (ahead = {} /\ ~HasNode(p, g.start)))
     ELSE g.leaders[1] = g.start
  /\ \E W \in SUBSET Linked : Walked(n, g, W, ahead, walking)

HasGraph(p, G, f) ==
  BlockAt(p, f) # 0 /\ HasNode(p, BlockAt(p, f)) => BlockAt(p, f) \in DOMAIN G

(* What holds of the program, the net and the graphs made so far. *)
GraphsKept ==
  /\ ProgramOK(program) /\ net \in NetType(Linked)
  /\ pc # "load" => LinksOK(program, net)
  /\ pc \in {"load", "bounds"} => DOMAIN graphs = {}
  /\ \A s \in DOMAIN graphs : Complete(net, graphs[s]) /\ graphs[s].start = s
  /\ pc \notin {"load", "bounds"} =>
       \A f \in program.functions \ todo : HasGraph(program, graphs, f)

Control ==
  /\ pc \in {"load", "bounds", "next", "leaders", "chain", "blocks", "run", "out"}
  /\ todo \subseteq Code /\ pending \in Seq(Code) /\ open \subseteq Code
  /\ at \in Linked /\ block \in Code
  /\ graph \in GraphRecord /\ GraphOK(graph)

Building ==
  pc \in {"leaders", "chain", "blocks", "run"} =>
    todo # {} /\ graph.start = BlockAt(program, Least(todo)) /\ graph.start \in Code

FirstPass ==
  /\ pc = "leaders" => Begun(program, net, graph, ToSet(pending), {})
  /\ pc = "chain" => Begun(program, net, graph, ToSet(pending), {at})

SecondPass ==
  /\ pc = "blocks" => /\ Halfway(net, graph, open)
                      /\ \A b \in Leaders(graph) \ open : Whole(net, graph, b, {})
  /\ pc = "run" => /\ Halfway(net, graph, open) /\ block \in Leaders(graph) \ open
                   /\ Amid(net, graph, block, at)
                   /\ \A b \in Leaders(graph) \ (open \cup {block}) : Whole(net, graph, b, {})

GraphsInv == GraphsKept /\ Control /\ Building /\ FirstPass /\ SecondPass
-----------------------------------------------------------------------------
(* The first pass, from a graph without blocks to one that is divided.      *)
LEMMA BegunNew ==
  ASSUME NEW p, NEW n, NEW a \in Code
  PROVE  Begun(p, n, NewGraph(a), {a}, {})
<1> DEFINE g == NewGraph(a)
<1>1. g.start = a /\ g.leaders = <<>> /\ g.edges = <<>> /\ Leaders(g) = {}
  BY NewGraphIs, Bounded DEF Code
<1>2. {a} \subseteq ReachedBy(n, a)
  BY ReachedFrom
<1> HIDE DEF g
<1>3. Walked(n, g, {}, {a}, {})
  BY <1>1 DEF Walked
<1> QED
  BY <1>1, <1>2, <1>3 DEF Begun, g

LEMMA BegunPassed ==
  ASSUME NEW p, NEW n, LinksOK(p, n), NEW g, NEW A, NEW B, NEW a,
         Begun(p, n, g, A, {}), A = {a} \cup B, a \in Leaders(g) \/ ~HasNode(p, a)
  PROVE  Begun(p, n, g, B, {})
<1>1. PICK W \in SUBSET Linked : Walked(n, g, W, A, {})
  BY DEF Begun
<1>2. \A x \in W : Branch(n, x) \subseteq Leaders(g) \cup B
  <2> SUFFICES ASSUME NEW x \in W, NEW t \in Branch(n, x), t \notin Leaders(g) \cup B PROVE FALSE
    OBVIOUS
  <2>1. t = a
    BY <1>1 DEF Walked
  <2>2. HasNode(p, t)
    BY DEF LinksOK, Branch
  <2> QED
    BY <2>1, <2>2
<1>3. Walked(n, g, W, B, {})
  BY <1>1, <1>2 DEF Walked
<1>4. g.leaders = <<>> => B = {g.start} \/ (B = {} /\ ~HasNode(p, g.start))
  <2> SUFFICES ASSUME g.leaders = <<>> PROVE B = {g.start} \/ (B = {} /\ ~HasNode(p, g.start))
    OBVIOUS
  <2>1. Leaders(g) = {}
    BY DEF Leaders, ToSet
  <2>2. A = {g.start}
    BY DEF Begun
  <2>3. a = g.start /\ ~HasNode(p, a)
    BY <2>1, <2>2
  <2> QED
    BY <2>2, <2>3
<1>5. /\ g.edges = <<>> /\ \A b \in Leaders(g) : g.members[b] = {}
      /\ Leaders(g) \cup B \subseteq ReachedBy(n, g.start)
      /\ g.leaders # <<>> => g.leaders[1] = g.start
  BY DEF Begun
<1> QED
  BY <1>3, <1>4, <1>5 DEF Begun

LEMMA BegunLeader ==
  ASSUME NEW p, NEW n, NEW g \in GraphRecord, GraphOK(g), NEW A, NEW B, NEW a \in Code,
         Begun(p, n, g, A, {}), A = {a} \cup B, a \notin Leaders(g)
  PROVE  Begun(p, n, CreateBasicBlock(g, a), B, {a})
<1> DEFINE h == CreateBasicBlock(g, a)
<1>1. /\ h.start = g.start /\ h.edges = g.edges /\ h.leaders = Append(g.leaders, a)
      /\ Leaders(h) = Leaders(g) \cup {a}
      /\ \A b \in Leaders(g) : h.members[b] = g.members[b]
      /\ h.members[a] = {}
  BY CreateIs
<1> HIDE DEF h
<1>2. PICK W \in SUBSET Linked : Walked(n, g, W, A, {})
  BY DEF Begun
<1>3. Walked(n, h, W, B, {a})
  BY <1>1, <1>2 DEF Walked
<1>4. h.leaders # <<>> /\ h.leaders[1] = h.start
  <2>1. g.leaders \in Seq(Code)
    BY DEF GraphRecord
  <2>2. CASE g.leaders = <<>>
    <3>1. a = g.start
      BY <2>2 DEF Begun
    <3> QED
      BY <1>1, <2>2, <3>1
  <2>3. CASE g.leaders # <<>>
    <3>1. g.leaders[1] = g.start
      BY <2>3 DEF Begun
    <3>2. 1 \in DOMAIN g.leaders
      BY <2>1, <2>3
    <3> QED
      BY <1>1, <2>1, <2>3, <3>1, <3>2
  <2> QED
    BY <2>2, <2>3
<1>5. /\ h.edges = <<>> /\ \A b \in Leaders(h) : h.members[b] = {}
      /\ Leaders(h) \cup B \subseteq ReachedBy(n, h.start)
      /\ {a} \subseteq ReachedBy(n, h.start)
  BY <1>1 DEF Begun
<1> QED
  BY <1>3, <1>4, <1>5 DEF Begun, h

LEMMA BegunChain ==
  ASSUME NEW p, NEW n \in NetType(Linked), LinksOK(p, n), NEW g, NEW A, NEW a \in Linked,
         Begun(p, n, g, A, {a})
  PROVE  /\ n.next[a] = NoNext => Begun(p, n, g, Branch(n, a) \cup A, {})
         /\ n.next[a] # NoNext => Begun(p, n, g, Branch(n, a) \cup A, {n.next[a]})
<1> DEFINE B == Branch(n, a) \cup A
           on == {n.next[a]} \ {NoNext}
<1>1. PICK W \in SUBSET Linked : Walked(n, g, W, A, {a})
  BY DEF Begun
<1>2. Walked(n, g, W \cup {a}, B, on)
  BY <1>1 DEF Walked
<1>3. Branch(n, a) \cup (on \cap Code) \subseteq ReachedBy(n, g.start)
  <2>1. CASE a \in Code
    <3>1. a \in ReachedBy(n, g.start)
      BY <2>1 DEF Begun
    <3> QED
      BY <3>1, ReachedOn DEF Branch, Flow
  <2>2. CASE a \notin Code
    BY <2>2 DEF LinksOK, Branch
  <2> QED
    BY <2>1, <2>2
<1>4. /\ g.edges = <<>> /\ \A b \in Leaders(g) : g.members[b] = {}
      /\ Leaders(g) \cup A \subseteq ReachedBy(n, g.start)
      /\ g.leaders # <<>> /\ g.leaders[1] = g.start
  BY DEF Begun
<1>5. W \cup {a} \in SUBSET Linked
  BY <1>1
<1>6. Begun(p, n, g, B, on)
  BY <1>2, <1>3, <1>4, <1>5 DEF Begun
<1>7. (n.next[a] = NoNext => on = {}) /\ (n.next[a] # NoNext => on = {n.next[a]})
  OBVIOUS
<1> QED
  BY <1>6, <1>7

LEMMA NoEdges == ASSUME NEW e PROVE ~Contains(<<>>, e)
BY DEF Contains

LEMMA Prepares ==
  ASSUME NEW p, NEW n, NEW g \in GraphRecord, GraphOK(g), Begun(p, n, g, {}, {})
  PROVE  /\ g.leaders = <<>> => ~HasNode(p, g.start)
         /\ g.leaders # <<>> => Halfway(n, g, Leaders(g))
<1>1. g.leaders = <<>> => ~HasNode(p, g.start)
  BY DEF Begun
<1>2. ASSUME g.leaders # <<>> PROVE Halfway(n, g, Leaders(g))
  <2>1. PICK W \in SUBSET Linked : Walked(n, g, W, {}, {})
    BY DEF Begun
  <2>2. /\ g.edges = <<>> /\ \A b \in Leaders(g) : g.members[b] = {}
        /\ Leaders(g) \subseteq ReachedBy(n, g.start)
        /\ g.leaders[1] = g.start
    BY <1>2 DEF Begun
  <2>3. g.start \in Leaders(g)
    <3>1. g.leaders \in Seq(Code)
      BY DEF GraphRecord
    <3>2. 1 \in DOMAIN g.leaders
      BY <1>2, <3>1
    <3> QED
      BY <2>2, <3>2 DEF Leaders, ToSet
  <2>4. g.start \in Code /\ Leaders(g) \subseteq Code
    BY <2>3, LeadersIn
  <2>5. ReachedBy(n, g.start) \subseteq W \cap Code
    <3>1. g.start \in W \cap Code
      BY <2>1, <2>3, <2>4 DEF Walked
    <3>2. Closed(n, W \cap Code)
      <4> SUFFICES ASSUME NEW b \in W \cap Code, NEW t \in Flow(n, b) PROVE t \in W \cap Code
        BY DEF Closed
      <4>1. t \in Code /\ t # NoNext
        BY Bounded DEF Flow
      <4>2. CASE t \in Branch(n, b)
        BY <2>1, <4>1, <4>2 DEF Walked
      <4>3. CASE t = n.next[b]
        BY <2>1, <4>1, <4>3 DEF Walked
      <4> QED
        BY <4>2, <4>3 DEF Flow, Branch
    <3> QED
      BY <3>1, <3>2, ReachedLeast
  <2>6. \A a \in ReachedBy(n, g.start) : Branch(n, a) \subseteq Leaders(g)
    BY <2>1, <2>5 DEF Walked
  <2>7. Divided(n, g)
    BY <1>2, <2>2, <2>4, <2>6 DEF Divided
  <2>8. \A b \in Leaders(g) : Shape(n, g, b)
    BY <2>2, NoEdges DEF Shape
  <2> QED
    BY <2>2, <2>7, <2>8 DEF Halfway
<1> QED
  BY <1>1, <1>2
-----------------------------------------------------------------------------
(* The second pass, block by block and instruction by instruction.          *)
LEMMA BlockBegins ==
  ASSUME NEW n, NEW g, NEW T, Halfway(n, g, T), NEW b \in T
  PROVE  Halfway(n, g, T \ {b}) /\ Amid(n, g, b, b) /\ b \in Leaders(g)
<1>1. b \in Leaders(g) /\ g.members[b] = {}
  BY DEF Halfway
<1>2. b \in ReachedBy(n, g.start)
  BY <1>1 DEF Halfway, Divided
<1> QED
  BY <1>1, <1>2 DEF Halfway, Amid

(* A block with one more instruction. *)
Grown(g, b, a, E) == [g EXCEPT !.ends[b] = a, !.members[b] = @ \cup {a}, !.edges = E]

LEMMA GrownIs ==
  ASSUME NEW g \in GraphRecord, GraphOK(g), NEW b \in Leaders(g), NEW a \in Code, b <= a,
         \A x \in g.members[b] : x < a, NEW E, EdgesOK(g, E)
  PROVE  LET h == Grown(g, b, a, E)
         IN  /\ h \in GraphRecord /\ GraphOK(h) /\ h.start = g.start /\ h.edges = E
             /\ h.leaders = g.leaders
             /\ h.members[b] = g.members[b] \cup {a}
             /\ \A c \in Leaders(g) \ {b} : h.members[c] = g.members[c]
<1> DEFINE h == Grown(g, b, a, E)
           N == [g.ends EXCEPT ![b] = a]
           M == [g.members EXCEPT ![b] = g.members[b] \cup {a}]
<1>1. /\ g.ends \in PartialTo(Code) /\ g.members \in PartialTo(SUBSET Code)
      /\ DOMAIN g.ends = Leaders(g) /\ DOMAIN g.members = Leaders(g)
      /\ Leaders(g) \subseteq Code /\ E \in Seq(Nat \X Nat)
  BY LeadersIn DEF GraphRecord, GraphOK, EdgesOK
<1>2. g.ends \in [Leaders(g) -> Code] /\ g.members \in [Leaders(g) -> SUBSET Code]
  BY <1>1, Maps
<1>3. /\ N \in [Leaders(g) -> Code] /\ DOMAIN N = Leaders(g) /\ N[b] = a
      /\ \A c \in Leaders(g) \ {b} : N[c] = g.ends[c]
  BY <1>2
<1>4. /\ M \in [Leaders(g) -> SUBSET Code] /\ DOMAIN M = Leaders(g)
      /\ M[b] = g.members[b] \cup {a}
      /\ \A c \in Leaders(g) \ {b} : M[c] = g.members[c]
  BY <1>2
<1>5. h = [g EXCEPT !.ends = N, !.members = M, !.edges = E]
  BY DEF Grown, GraphRecord
<1> HIDE DEF N, M
<1>6. N \in PartialTo(Code) /\ M \in PartialTo(SUBSET Code)
  BY <1>1, <1>3, <1>4, Maps
<1>7. h \in GraphRecord
  BY <1>1, <1>5, <1>6 DEF GraphRecord
<1>8. h.start = g.start /\ h.edges = E /\ h.leaders = g.leaders /\ h.ends = N /\ h.members = M
  BY <1>5 DEF GraphRecord
<1> HIDE DEF h
<1>9. Leaders(h) = Leaders(g)
  BY <1>8 DEF Leaders
<1>10. \A c \in Leaders(g) : N[c] \in c .. Limit /\ M[c] \subseteq c .. N[c]
  <2>1. N[b] \in b .. Limit
    BY <1>1, <1>3, Bounded DEF Code
  <2>2. M[b] \subseteq b .. N[b]
    <3>1. g.members[b] \subseteq b .. g.ends[b]
      BY DEF GraphOK
    <3>2. g.ends[b] \in Int /\ b \in Int /\ a \in Int
      <4>1. g.ends[b] \in Code /\ b \in Code
        BY <1>1, <1>2
      <4> QED
        BY <4>1, Numbers
    <3>3. \A x \in g.members[b] : x \in b .. a
      BY <3>1, <3>2
    <3> QED
      BY <1>3, <1>4, <3>2, <3>3
  <2>3. \A c \in Leaders(g) \ {b} : N[c] \in c .. Limit /\ M[c] \subseteq c .. N[c]
    BY <1>3, <1>4 DEF GraphOK
  <2> QED
    BY <2>1, <2>2, <2>3
<1>11. GraphOK(h)
  <2>1. g.start \in 0 .. Limit /\ g.leaders \in Seq(Code) /\ IsInjective(g.leaders)
    BY DEF GraphOK
  <2>2. IsInjective(E) /\ \A i \in DOMAIN E : E[i] \in (DOMAIN g.leaders) \X (DOMAIN g.leaders)
    BY DEF EdgesOK
  <2> QED
    BY <1>3, <1>4, <1>8, <1>9, <1>10, <2>1, <2>2 DEF GraphOK
<1> QED
  BY <1>4, <1>7, <1>8, <1>11 DEF h

LEMMA Targets ==
  ASSUME NEW n \in NetType(Linked), NEW a \in Code
  PROVE  LET T == Ascending(n.jumps[a]) \o Ascending(n.skips[a]) \o <<n.next[a]>>
         IN  T \in Seq(Int) /\ ToSet(T) \cap Code = Flow(n, a)
<1>1. a \in Linked /\ n.jumps[a] \in SUBSET Linked /\ n.skips[a] \in SUBSET Linked
      /\ n.next[a] \in Int
  <2>1. a \in Linked
    BY Bounded
  <2>2. n.jumps[a] \in SUBSET Linked /\ n.skips[a] \in SUBSET Linked
        /\ n.next[a] \in Linked \cup {NoNext}
    BY <2>1 DEF NetType
  <2>3. \A x \in Linked : x \in Int
    BY Bounded
  <2> QED
    BY <2>1, <2>2, <2>3 DEF NoNext
<1> DEFINE J == Ascending(n.jumps[a])
           K == Ascending(n.skips[a])
           N == <<n.next[a]>>
<1>2. J \in Seq(Int) /\ ToSet(J) = n.jumps[a]
  <2>1. J \in Seq(n.jumps[a]) /\ ToSet(J) = n.jumps[a] /\ n.jumps[a] \subseteq Int
    <3>1. J \in Seq(n.jumps[a]) /\ ToSet(J) = n.jumps[a]
      BY <1>1, AscendingIs
    <3>2. \A x \in n.jumps[a] : x \in Int
      BY <1>1, Numbers
    <3> QED
      BY <3>1, <3>2
  <2> HIDE DEF J
  <2> QED
    BY <2>1
<1>3. K \in Seq(Int) /\ ToSet(K) = n.skips[a]
  <2>1. K \in Seq(n.skips[a]) /\ ToSet(K) = n.skips[a] /\ n.skips[a] \subseteq Int
    <3>1. K \in Seq(n.skips[a]) /\ ToSet(K) = n.skips[a]
      BY <1>1, AscendingIs
    <3>2. \A x \in n.skips[a] : x \in Int
      BY <1>1, Numbers
    <3> QED
      BY <3>1, <3>2
  <2> HIDE DEF K
  <2> QED
    BY <2>1
<1>4. N \in Seq(Int) /\ ToSet(N) = {n.next[a]}
  BY <1>1 DEF ToSet
<1> HIDE DEF J, K, N
<1>5. J \o K \in Seq(Int) /\ ToSet(J \o K) = n.jumps[a] \cup n.skips[a]
  BY <1>2, <1>3, Joined
<1>6. J \o K \o N \in Seq(Int) /\ ToSet(J \o K \o N) = n.jumps[a] \cup n.skips[a] \cup {n.next[a]}
  <2> DEFINE P == J \o K
  <2>1. P \in Seq(Int) /\ ToSet(P) = n.jumps[a] \cup n.skips[a]
    BY <1>5
  <2> HIDE DEF P
  <2>2. P \o N \in Seq(Int) /\ ToSet(P \o N) = n.jumps[a] \cup n.skips[a] \cup {n.next[a]}
    BY <1>4, <2>1, Joined
  <2> QED
    BY <2>2 DEF P
<1> QED
  BY <1>6 DEF Flow, J, K, N

(* An instruction more in a block: the pass leaves the block or goes on.    *)
LEMMA BlockGrows ==
  ASSUME NEW p, NEW n \in NetType(Linked), LinksOK(p, n), NEW g \in GraphRecord, GraphOK(g),
         NEW T, Halfway(n, g, T), NEW b \in Leaders(g), b \notin T, NEW a, Amid(n, g, b, a),
         NEW E, Joins(g, g.edges, E, NodeOf(g, b), ToSet(Ascending(n.jumps[a])
                        \o Ascending(n.skips[a]) \o <<n.next[a]>>))
  PROVE  LET h == Grown(g, b, a, E)
         IN  /\ h \in GraphRecord /\ GraphOK(h) /\ h.start = g.start /\ Leaders(h) = Leaders(g)
             /\ Halfway(n, h, T)
             /\ \A c \in Leaders(g) \ {b} : Whole(n, g, c, {}) => Whole(n, h, c, {})
             /\ n.next[a] \notin Code \/ n.next[a] \in Leaders(g) => Whole(n, h, b, {})
             /\ n.next[a] \in Code /\ n.next[a] \notin Leaders(g) => Amid(n, h, b, n.next[a])
<1> DEFINE h == Grown(g, b, a, E)
           next == n.next[a]
<1>1. /\ a \in Code /\ a \in Nat /\ a \in Linked /\ b \in Nat /\ b <= a
      /\ a \in ReachedBy(n, g.start) /\ Leaders(g) \subseteq Code
  <2>1. Leaders(g) \subseteq Code /\ a \in ReachedBy(n, g.start) /\ (a = b \/ b < a)
    BY LeadersIn DEF Amid
  <2>2. a \in Code /\ b \in Code
    BY <2>1 DEF ReachedBy
  <2> QED
    BY <2>1, <2>2, Bounded
<1>2. EdgesOK(g, E) /\ \A x \in g.members[b] : x < a
  BY DEF Joins, Amid
<1>3. /\ h \in GraphRecord /\ GraphOK(h) /\ h.start = g.start /\ h.edges = E
      /\ h.leaders = g.leaders
      /\ h.members[b] = g.members[b] \cup {a}
      /\ \A c \in Leaders(g) \ {b} : h.members[c] = g.members[c]
  BY <1>1, <1>2, GrownIs
<1> HIDE DEF h
<1>4. Leaders(h) = Leaders(g) /\ \A c : NodeOf(h, c) = NodeOf(g, c)
  BY <1>3 DEF Leaders, NodeOf
<1>5. Divided(n, h)
  BY <1>3, <1>4 DEF Halfway, Divided
<1>6. \A u \in Leaders(g), c \in Leaders(g) :
        Contains(E, <<NodeOf(g, u), NodeOf(g, c)>>) <=>
          \/ Contains(g.edges, <<NodeOf(g, u), NodeOf(g, c)>>)
          \/ u = b /\ c \in Flow(n, a)
  <2> DEFINE to == ToSet(Ascending(n.jumps[a]) \o Ascending(n.skips[a]) \o <<n.next[a]>>)
  <2>1. to \cap Code = Flow(n, a)
    BY <1>1, Targets
  <2>2. Joins(g, g.edges, E, NodeOf(g, b), to)
    OBVIOUS
  <2> HIDE DEF to
  <2> SUFFICES ASSUME NEW u \in Leaders(g), NEW c \in Leaders(g)
               PROVE  Contains(E, <<NodeOf(g, u), NodeOf(g, c)>>) <=>
                        \/ Contains(g.edges, <<NodeOf(g, u), NodeOf(g, c)>>)
                        \/ u = b /\ c \in Flow(n, a)
    OBVIOUS
  <2>3. /\ NodeOf(g, u) = NodeOf(g, b) <=> u = b
        /\ \A d \in Leaders(g) : NodeOf(g, c) = NodeOf(g, d) <=> c = d
    BY NodeIsOne
  <2>4. (\E d \in to \cap Leaders(g) : NodeOf(g, c) = NodeOf(g, d)) <=> c \in Flow(n, a)
    BY <1>1, <2>1, <2>3
  <2> QED
    BY <2>2, <2>3, <2>4 DEF Joins
<1>7. ASSUME NEW c \in Leaders(g) PROVE Shape(n, h, c)
  <2>1. Shape(n, g, c)
    BY DEF Halfway
  <2>2. CASE c # b
    <3>1. h.members[c] = g.members[c]
      BY <1>3, <2>2
    <3>2. \A d \in Leaders(g) : Contains(h.edges, <<NodeOf(h, c), NodeOf(h, d)>>) <=>
                                  Contains(g.edges, <<NodeOf(g, c), NodeOf(g, d)>>)
      BY <1>3, <1>4, <1>6, <2>2
    <3> QED
      BY <1>3, <1>4, <2>1, <3>1, <3>2 DEF Shape
  <2>3. CASE c = b
    <3>1. h.members[c] \subseteq ReachedBy(n, h.start) /\ h.members[c] \cap Leaders(h) \subseteq {c}
      BY <1>1, <1>3, <1>4, <2>1, <2>3 DEF Shape, Amid
    <3>2. \A x \in h.members[c] \ {c} : \E y \in h.members[c] : n.next[y] = x
      <4>1. a = b \/ \E y \in g.members[b] : n.next[y] = a
        BY DEF Amid
      <4> QED
        BY <1>3, <2>1, <2>3, <4>1 DEF Shape
    <3>3. \A d \in Leaders(h) : Contains(h.edges, <<NodeOf(h, c), NodeOf(h, d)>>) <=>
                                  \E x \in h.members[c] : d \in Flow(n, x)
      BY <1>3, <1>4, <1>6, <2>1, <2>3 DEF Shape
    <3> QED
      BY <3>1, <3>2, <3>3 DEF Shape
  <2> QED
    BY <2>2, <2>3
<1>8. Halfway(n, h, T)
  <2>1. T \subseteq Leaders(g) /\ \A c \in T : g.members[c] = {} /\ c # b
    BY DEF Halfway
  <2> QED
    BY <1>3, <1>4, <1>5, <1>7, <2>1 DEF Halfway
<1>9. \A c \in Leaders(g) \ {b} : Whole(n, g, c, {}) => Whole(n, h, c, {})
  BY <1>3, <1>4 DEF Whole
<1>10. Flow(n, a) \ Leaders(g) \subseteq {next} \cap Code
  <2>1. Branch(n, a) \subseteq Leaders(g)
    BY <1>1 DEF Halfway, Divided
  <2> QED
    BY <2>1 DEF Flow, Branch
<1>11. \A x \in g.members[b] : Flow(n, x) \ Leaders(g) \subseteq h.members[b]
  BY <1>3 DEF Amid, Whole
<1>12. b \in h.members[b]
  BY <1>3 DEF Amid, Whole
<1>13. ASSUME next \notin Code \/ next \in Leaders(g) PROVE Whole(n, h, b, {})
  <2>1. Flow(n, a) \ Leaders(g) = {}
    BY <1>10, <1>13
  <2> QED
    BY <1>3, <1>4, <1>11, <1>12, <2>1 DEF Whole
<1>14. ASSUME next \in Code, next \notin Leaders(g) PROVE Amid(n, h, b, next)
  <2>1. next \in Flow(n, a) /\ next # NoNext
    BY <1>14, Bounded DEF Flow
  <2>2. next \in ReachedBy(n, h.start)
    BY <1>1, <1>3, <2>1, ReachedOn
  <2>3. a < next /\ next \in Nat
    BY <1>1, <1>14, <2>1, Bounded DEF LinksOK
  <2>4. Whole(n, h, b, {next})
    BY <1>3, <1>4, <1>10, <1>11, <1>12 DEF Whole
  <2>5. \A x \in h.members[b] : x < next
    <3>1. \A x \in g.members[b] : x \in Nat
      BY Bounded DEF Halfway, Shape, ReachedBy
    <3> QED
      BY <1>1, <1>2, <1>3, <2>3, <3>1
  <2>6. b < next /\ next \notin Leaders(h) /\ \E x \in h.members[b] : n.next[x] = next
    BY <1>1, <1>3, <1>4, <1>14, <2>3
  <2> QED
    BY <2>2, <2>4, <2>5, <2>6 DEF Amid
<1> QED
  BY <1>3, <1>4, <1>8, <1>9, <1>13, <1>14 DEF h
-----------------------------------------------------------------------------
LEMMA GraphsInit == FunctionGraphInit => GraphsInv
<1> SUFFICES ASSUME FunctionGraphInit PROVE GraphsInv
  OBVIOUS
<1>1. /\ pc = "load" /\ todo = {} /\ pending = <<>> /\ at = 1 /\ block = 1 /\ open = {}
      /\ graph = NewGraph(0) /\ graphs = [a \in {} |-> NewGraph(a)]
      /\ net = EmptyNet(Linked) /\ program = [code |-> [a \in Code |-> Nothing], functions |-> {}]
  BY DEF FunctionGraphInit
<1>2. ProgramOK(program)
  <2>1. Nothing \in Instr
    BY Bounded DEF Nothing, Instr
  <2>2. program.code = [a \in Code |-> Nothing] /\ program.functions = {}
    BY <1>1
  <2> QED
    BY <2>1, <2>2 DEF ProgramOK, Nothing
<1>3. net \in NetType(Linked)
  BY <1>1 DEF EmptyNet, NetType
<1>4. DOMAIN graphs = {}
  BY <1>1
<1>5. GraphsKept
  BY <1>1, <1>2, <1>3, <1>4 DEF GraphsKept
<1>6. 1 \in Code /\ 1 \in Linked /\ 0 \in 0 .. Limit
  BY Bounded DEF Code, Linked
<1>7. Control
  BY <1>1, <1>6, NewGraphIs DEF Control
<1> QED
  BY <1>1, <1>5, <1>7 DEF GraphsInv, Building, FirstPass, SecondPass

LEMMA LoadInv == ASSUME GraphsInv, Load PROVE GraphsInv'
<1>1. /\ pc = "load" /\ pc' = "bounds" /\ program' \in Programs /\ net' = NetOf(program')
      /\ graphs' = graphs /\ todo' = todo /\ pending' = pending /\ at' = at /\ block' = block
      /\ open' = open /\ graph' = graph
  BY DEF Load, build
<1>2. ProgramOK(program')
  BY <1>1, ProgramsAssumption DEF ProgramOK
<1>3. net' \in NetType(Linked) /\ LinksOK(program', net')
  BY <1>1, <1>2, NetIs
<1>4. GraphsKept'
  BY <1>1, <1>2, <1>3 DEF GraphsInv, GraphsKept
<1>5. Control'
  BY <1>1 DEF GraphsInv, Control
<1> QED
  BY <1>1, <1>4, <1>5 DEF GraphsInv, Building, FirstPass, SecondPass

LEMMA BoundsInv == ASSUME GraphsInv, Bounds PROVE GraphsInv'
<1>1. /\ pc = "bounds" /\ pc' = "next" /\ net' = UnlinkPrevs(net, program.functions)
      /\ todo' = program.functions /\ graphs' = [a \in {} |-> NewGraph(a)]
      /\ program' = program /\ pending' = pending /\ at' = at /\ block' = block
      /\ open' = open /\ graph' = graph
  BY DEF Bounds
<1>2. net' \in NetType(Linked) /\ LinksOK(program', net')
  BY <1>1, UnlinkedIs DEF GraphsInv, GraphsKept
<1>3. DOMAIN graphs' = {}
  BY <1>1
<1>4. GraphsKept'
  BY <1>1, <1>2, <1>3 DEF GraphsInv, GraphsKept
<1>5. Control'
  BY <1>1 DEF GraphsInv, GraphsKept, ProgramOK, Control
<1> QED
  BY <1>1, <1>4, <1>5 DEF GraphsInv, Building, FirstPass, SecondPass

(* A step that leaves the program, the net, the graphs and the list of      *)
(* functions alone.                                                         *)
Within == /\ pc \notin {"load", "bounds"} /\ pc' \notin {"load", "bounds"}
          /\ UNCHANGED <<program, net, graphs, todo>>

LEMMA KeptWithin == ASSUME GraphsKept, Within PROVE GraphsKept'
BY DEF GraphsKept, Within

(* The function at hand is done.                                            *)
LEMMA KeptBuilt ==
  ASSUME GraphsKept, pc \notin {"load", "bounds"}, pc' \notin {"load", "bounds"},
         UNCHANGED <<program, net>>, todo \subseteq Code, todo # {}, todo' = todo \ {Least(todo)},
         DOMAIN graphs \subseteq DOMAIN graphs', HasGraph(program, graphs', Least(todo)),
         \A s \in DOMAIN graphs' : Complete(net, graphs'[s]) /\ graphs'[s].start = s
  PROVE  GraphsKept'
<1>1. ASSUME NEW f \in program.functions \ todo' PROVE HasGraph(program, graphs', f)
  <2>1. CASE f = Least(todo)
    BY <2>1
  <2>2. CASE f # Least(todo)
    <3>1. HasGraph(program, graphs, f)
      BY <2>2 DEF GraphsKept
    <3> QED
      BY <3>1 DEF HasGraph
  <2> QED
    BY <2>1, <2>2
<1> QED
  BY <1>1 DEF GraphsKept

LEMMA BlockAtIs ==
  ASSUME NEW p, NEW f
  PROVE  BlockAt(p, f) = 0 \/ BlockAt(p, f) \in Code
<1> DEFINE over == {b \in Code : b <= f /\ f < b + p.code[b].size}
<1>1. BlockAt(p, f) = IF over = {} THEN 0 ELSE CHOOSE b \in over : \A c \in over : b <= c
  BY DEF BlockAt
<1>2. ASSUME over # {} PROVE \E b \in over : \A c \in over : b <= c
  <2>1. over \in SUBSET Nat
    BY Bounded
  <2> HIDE DEF over
  <2> QED
    BY <1>2, <2>1, General!LeastElement
<1> QED
  BY <1>1, <1>2

LEMMA BuildInv == ASSUME GraphsInv, Build PROVE GraphsInv'
<1> DEFINE start == BlockAt(program, Least(todo))
<1>1. /\ pc = "next" /\ todo # {} /\ todo \subseteq Code
      /\ UNCHANGED <<program, net, graphs, at, block, open>>
  BY DEF Build, GraphsInv, Control
<1>2. CASE start = 0
  <2>1. pc' = "next" /\ todo' = todo \ {Least(todo)} /\ UNCHANGED <<graph, pending>>
    BY <1>2 DEF Build, Built
  <2>2. HasGraph(program, graphs', Least(todo))
    BY <1>2 DEF HasGraph
  <2>3. GraphsKept'
    BY <1>1, <2>1, <2>2, KeptBuilt DEF GraphsInv, GraphsKept
  <2>4. Control'
    BY <1>1, <2>1 DEF GraphsInv, Control
  <2> QED
    BY <2>1, <2>3, <2>4 DEF GraphsInv, Building, FirstPass, SecondPass
<1>3. CASE start # 0
  <2>1. /\ graph' = NewGraph(start) /\ pending' = <<start>> /\ pc' = "leaders" /\ todo' = todo
    BY <1>3 DEF Build
  <2>2. start \in Code /\ start \in 0 .. Limit
    BY <1>3, BlockAtIs, Bounded DEF Code
  <2>3. GraphsKept'
    BY <1>1, <2>1, KeptWithin DEF GraphsInv, Within
  <2> HIDE DEF start
  <2>4. pending' \in Seq(Code) /\ ToSet(pending') = {start}
    BY <2>1, <2>2 DEF ToSet
  <2>5. graph' \in GraphRecord /\ GraphOK(graph') /\ graph'.start = start
    BY <2>1, <2>2, NewGraphIs
  <2>6. Control'
    BY <1>1, <2>1, <2>4, <2>5 DEF GraphsInv, Control
  <2>7. Begun(program', net', graph', ToSet(pending'), {})
    BY <2>1, <2>2, <2>4, BegunNew
  <2>8. Building'
    BY <1>1, <2>1, <2>2, <2>5 DEF Building, start
  <2> QED
    BY <2>1, <2>3, <2>6, <2>7, <2>8 DEF GraphsInv, FirstPass, SecondPass
<1> QED
  BY <1>2, <1>3

LEMMA LeaderInv == ASSUME GraphsInv, Leader PROVE GraphsInv'
<1> DEFINE a == Head(pending)
<1>1. /\ pc = "leaders" /\ pending # <<>> /\ pending' = Tail(pending)
      /\ UNCHANGED <<program, net, graphs, todo, block, open>>
  BY DEF Leader, Popped
<1>2. /\ pending \in Seq(Code) /\ graph \in GraphRecord /\ GraphOK(graph)
      /\ LinksOK(program, net) /\ Begun(program, net, graph, ToSet(pending), {})
  BY <1>1 DEF GraphsInv, GraphsKept, Control, FirstPass
<1>3. a \in Code /\ pending' \in Seq(Code) /\ ToSet(pending) = {a} \cup ToSet(pending')
  BY <1>1, <1>2, First
<1>4. CASE PassedOver(a)
  <2>1. UNCHANGED <<graph, at, pc>>
    BY <1>4 DEF Leader
  <2>2. a \in Leaders(graph) \/ ~HasNode(program, a)
    BY <1>3, <1>4 DEF PassedOver
  <2> HIDE DEF a
  <2>3. Begun(program', net', graph', ToSet(pending'), {})
    BY <1>1, <1>2, <1>3, <2>1, <2>2, BegunPassed
  <2>4. GraphsKept'
    BY <1>1, <2>1, KeptWithin DEF GraphsInv, Within
  <2>5. Control' /\ Building'
    BY <1>1, <1>3, <2>1 DEF GraphsInv, Control, Building
  <2> QED
    BY <1>1, <2>1, <2>3, <2>4, <2>5 DEF GraphsInv, FirstPass, SecondPass
<1>5. CASE ~PassedOver(a)
  <2>1. graph' = CreateBasicBlock(graph, a) /\ at' = a /\ pc' = "chain"
    BY <1>5 DEF Leader
  <2>2. a \notin Leaders(graph)
    BY <1>5 DEF PassedOver
  <2> HIDE DEF a
  <2>3. Begun(program', net', graph', ToSet(pending'), {at'})
    BY <1>1, <1>2, <1>3, <2>1, <2>2, BegunLeader
  <2>4. GraphsKept'
    BY <1>1, <2>1, KeptWithin DEF GraphsInv, Within
  <2>5. graph' \in GraphRecord /\ GraphOK(graph') /\ graph'.start = graph.start
    BY <1>2, <1>3, <2>1, <2>2, CreateIs
  <2>6. at' \in Linked
    BY <1>3, <2>1, Bounded
  <2>7. Control'
    BY <1>1, <1>3, <2>1, <2>5, <2>6 DEF GraphsInv, Control
  <2>8. Building'
    BY <1>1, <2>1, <2>5 DEF GraphsInv, Building
  <2> QED
    BY <2>1, <2>3, <2>4, <2>7, <2>8 DEF GraphsInv, FirstPass, SecondPass
<1> QED
  BY <1>4, <1>5

LEMMA PushesIs ==
  ASSUME net \in NetType(Linked), NEW a \in Linked
  PROVE  Pushes(a) \in Seq(Code) /\ ToSet(Pushes(a)) = Branch(net, a)
<1> DEFINE J == net.jumps[a] \cap Code
           K == net.skips[a] \cap Code
<1>1. ASSUME NEW S \in SUBSET Code PROVE Descending(S) \in Seq(Code) /\ ToSet(Descending(S)) = S
  <2>1. S \in SUBSET Linked
    BY Bounded
  <2>2. Ascending(S) \in Seq(S) /\ ToSet(Ascending(S)) = S
    BY <2>1, AscendingIs
  <2>3. Descending(S) \in Seq(S) /\ ToSet(Descending(S)) = S
    BY <2>2, Reversed DEF Descending
  <2> QED
    BY <2>3
<1>2. Pushes(a) = Descending(K) \o Descending(J)
  BY DEF Pushes
<1>3. J \in SUBSET Code /\ K \in SUBSET Code /\ K \cup J = Branch(net, a)
  BY DEF Branch
<1> HIDE DEF J, K
<1>4. Descending(K) \in Seq(Code) /\ ToSet(Descending(K)) = K
      /\ Descending(J) \in Seq(Code) /\ ToSet(Descending(J)) = J
  BY <1>1, <1>3
<1>5. LET s == Descending(K) \o Descending(J)
      IN  s \in Seq(Code) /\ ToSet(s) = K \cup J
  <2> DEFINE k == Descending(K)
             j == Descending(J)
  <2>1. k \in Seq(Code) /\ j \in Seq(Code) /\ ToSet(k) = K /\ ToSet(j) = J
    BY <1>4
  <2> HIDE DEF k, j
  <2>2. k \o j \in Seq(Code) /\ ToSet(k \o j) = ToSet(k) \cup ToSet(j)
    BY <2>1, Joined
  <2> QED
    BY <2>1, <2>2 DEF k, j
<1> QED
  BY <1>2, <1>3, <1>5

LEMMA ChainInv == ASSUME GraphsInv, Chain PROVE GraphsInv'
<1>1. /\ pc = "chain" /\ pending' = Pushes(at) \o pending
      /\ UNCHANGED <<program, net, graphs, todo, block, open, graph>>
  BY DEF Chain
<1>2. /\ pending \in Seq(Code) /\ graph \in GraphRecord /\ GraphOK(graph) /\ at \in Linked
      /\ net \in NetType(Linked) /\ LinksOK(program, net)
      /\ Begun(program, net, graph, ToSet(pending), {at})
  BY <1>1 DEF GraphsInv, GraphsKept, Control, FirstPass
<1>3. pending' \in Seq(Code) /\ ToSet(pending') = Branch(net, at) \cup ToSet(pending)
  BY <1>1, <1>2, PushesIs, Joined
<1>4. /\ net.next[at] = NoNext => Begun(program, net, graph, ToSet(pending'), {})
      /\ net.next[at] # NoNext => Begun(program, net, graph, ToSet(pending'), {net.next[at]})
  <2>1. /\ net.next[at] = NoNext => Begun(program, net, graph, Branch(net, at) \cup ToSet(pending), {})
        /\ net.next[at] # NoNext =>
             Begun(program, net, graph, Branch(net, at) \cup ToSet(pending), {net.next[at]})
    BY <1>2, BegunChain
  <2> QED
    BY <1>3, <2>1
<1>5. CASE net.next[at] = NoNext
  <2>1. pc' = "leaders" /\ at' = at
    BY <1>5 DEF Chain
  <2>2. GraphsKept'
    BY <1>1, <2>1, KeptWithin DEF GraphsInv, Within
  <2>3. Control' /\ Building'
    BY <1>1, <1>3, <2>1 DEF GraphsInv, Control, Building
  <2> QED
    BY <1>1, <1>4, <1>5, <2>1, <2>2, <2>3 DEF GraphsInv, FirstPass, SecondPass
<1>6. CASE net.next[at] # NoNext
  <2>1. pc' = pc /\ at' = net.next[at]
    BY <1>6 DEF Chain
  <2>2. at' \in Linked
    BY <1>2, <1>6, <2>1 DEF NetType
  <2>3. GraphsKept'
    BY <1>1, <2>1, KeptWithin DEF GraphsInv, Within
  <2>4. Control' /\ Building'
    BY <1>1, <1>3, <2>1, <2>2 DEF GraphsInv, Control, Building
  <2> QED
    BY <1>1, <1>4, <1>6, <2>1, <2>3, <2>4 DEF GraphsInv, FirstPass, SecondPass
<1> QED
  BY <1>5, <1>6

LEMMA PreparedInv == ASSUME GraphsInv, Prepared PROVE GraphsInv'
<1>1. /\ pc = "leaders" /\ pending = <<>> /\ todo \subseteq Code
      /\ UNCHANGED <<program, net, graphs, pending, at, block, graph>>
  BY DEF Prepared, GraphsInv, Control
<1>2. /\ graph \in GraphRecord /\ GraphOK(graph) /\ Begun(program, net, graph, {}, {})
      /\ todo # {} /\ graph.start = BlockAt(program, Least(todo))
  <2>1. ToSet(pending) = {}
    BY <1>1 DEF ToSet
  <2> QED
    BY <1>1, <2>1 DEF GraphsInv, Control, FirstPass, Building
<1>3. CASE graph.leaders = <<>>
  <2>1. pc' = "next" /\ todo' = todo \ {Least(todo)} /\ open' = open
    BY <1>3 DEF Prepared, Built
  <2>2. HasGraph(program, graphs', Least(todo))
    BY <1>2, <1>3, Prepares DEF HasGraph
  <2>3. GraphsKept'
    BY <1>1, <1>2, <2>1, <2>2, KeptBuilt DEF GraphsInv, GraphsKept
  <2>4. Control'
    BY <1>1, <2>1 DEF GraphsInv, Control
  <2> QED
    BY <2>1, <2>3, <2>4 DEF GraphsInv, Building, FirstPass, SecondPass
<1>4. CASE graph.leaders # <<>>
  <2>1. pc' = "blocks" /\ open' = Leaders(graph) /\ todo' = todo
    BY <1>4 DEF Prepared
  <2>2. Halfway(net', graph', open')
    BY <1>1, <1>2, <1>4, <2>1, Prepares
  <2>3. GraphsKept'
    BY <1>1, <2>1, KeptWithin DEF GraphsInv, Within
  <2>4. open' \subseteq Code
    BY <1>2, <2>1, LeadersIn
  <2>5. Control' /\ Building'
    BY <1>1, <2>1, <2>4 DEF GraphsInv, Control, Building
  <2>6. Leaders(graph') \ open' = {}
    BY <1>1, <2>1
  <2> QED
    BY <2>1, <2>2, <2>3, <2>5, <2>6 DEF GraphsInv, FirstPass, SecondPass
<1> QED
  BY <1>3, <1>4

LEMMA BlockInv == ASSUME GraphsInv, Block PROVE GraphsInv'
<1> DEFINE b == Least(open)
<1>1. /\ pc = "blocks" /\ pc' = "run" /\ open # {} /\ open \subseteq Code
      /\ block' = b /\ at' = b /\ open' = open \ {b}
      /\ UNCHANGED <<program, net, graphs, todo, pending, graph>>
  BY DEF Block, GraphsInv, Control
<1>2. b \in open
  <2>1. open \in SUBSET Nat
    BY <1>1, Bounded
  <2> QED
    BY <1>1, <2>1, LeastIs
<1> HIDE DEF b
<1>3. Halfway(net, graph, open) /\ \A c \in Leaders(graph) \ open : Whole(net, graph, c, {})
  BY <1>1 DEF GraphsInv, SecondPass
<1>4. Halfway(net, graph, open \ {b}) /\ Amid(net, graph, b, b) /\ b \in Leaders(graph)
  BY <1>2, <1>3, BlockBegins
<1>5. GraphsKept'
  BY <1>1, KeptWithin DEF GraphsInv, Within
<1>6. b \in Code /\ b \in Linked
  BY <1>1, <1>2, Bounded
<1>7. Control' /\ Building'
  BY <1>1, <1>6 DEF GraphsInv, Control, Building
<1>8. Leaders(graph) \ (open' \cup {block'}) \subseteq Leaders(graph) \ open
  BY <1>1
<1> QED
  BY <1>1, <1>3, <1>4, <1>5, <1>7, <1>8 DEF GraphsInv, FirstPass, SecondPass

LEMMA RunInv == ASSUME GraphsInv, Run PROVE GraphsInv'
<1> DEFINE next == net.next[at]
           targets == Ascending(net.jumps[at]) \o Ascending(net.skips[at]) \o <<next>>
           E == PushEdges(graph, graph.edges, block, targets)
           h == Grown(graph, block, at, E)
<1>1. /\ pc = "run" /\ graph' = h
      /\ UNCHANGED <<program, net, graphs, todo, pending, block, open>>
  BY DEF Run, Grown
<1>2. /\ graph \in GraphRecord /\ GraphOK(graph) /\ net \in NetType(Linked)
      /\ LinksOK(program, net) /\ Halfway(net, graph, open)
      /\ block \in Leaders(graph) /\ block \notin open /\ Amid(net, graph, block, at)
      /\ \A b \in Leaders(graph) \ (open \cup {block}) : Whole(net, graph, b, {})
  BY <1>1 DEF GraphsInv, GraphsKept, Control, SecondPass
<1>3. at \in Code
  BY <1>2 DEF Amid, ReachedBy
<1>4. EdgesOK(graph, graph.edges)
  BY <1>2 DEF GraphRecord, GraphOK, EdgesOK
<1>5. targets \in Seq(Int)
  BY <1>2, <1>3, Targets
<1>6. Joins(graph, graph.edges, E, NodeOf(graph, block), ToSet(targets))
  <2> HIDE DEF targets
  <2> QED
    BY <1>2, <1>4, <1>5, PushEdgesIs
<1>7. /\ h \in GraphRecord /\ GraphOK(h) /\ h.start = graph.start /\ Leaders(h) = Leaders(graph)
      /\ Halfway(net, h, open)
      /\ \A c \in Leaders(graph) \ {block} : Whole(net, graph, c, {}) => Whole(net, h, c, {})
      /\ next \notin Code \/ next \in Leaders(graph) => Whole(net, h, block, {})
      /\ next \in Code /\ next \notin Leaders(graph) => Amid(net, h, block, next)
  <2> HIDE DEF E
  <2> QED
    BY <1>2, <1>6, BlockGrows
<1> HIDE DEF h
<1>8. CASE EndsBefore(next)
  <2>1. pc' = "blocks" /\ at' = at
    BY <1>8 DEF Run
  <2>2. Whole(net, h, block, {})
    BY <1>7, <1>8 DEF EndsBefore
  <2>3. \A b \in Leaders(h) \ open : Whole(net, h, b, {})
    BY <1>2, <1>7, <2>2
  <2>4. GraphsKept'
    BY <1>1, <2>1, KeptWithin DEF GraphsInv, Within
  <2>5. Control' /\ Building'
    BY <1>1, <1>7, <2>1 DEF GraphsInv, Control, Building
  <2> QED
    BY <1>1, <1>7, <2>1, <2>3, <2>4, <2>5 DEF GraphsInv, FirstPass, SecondPass
<1>9. CASE ~EndsBefore(next)
  <2>1. pc' = pc /\ at' = next
    BY <1>9 DEF Run
  <2>2. next \in Code /\ next \notin Leaders(graph) /\ next \in Linked
    BY <1>9, Bounded DEF EndsBefore
  <2>3. \A b \in Leaders(h) \ (open \cup {block}) : Whole(net, h, b, {})
    BY <1>2, <1>7
  <2>4. GraphsKept'
    BY <1>1, <2>1, KeptWithin DEF GraphsInv, Within
  <2> HIDE DEF next
  <2>5. Control' /\ Building'
    BY <1>1, <1>7, <2>1, <2>2 DEF GraphsInv, Control, Building
  <2>6. Halfway(net', graph', open') /\ Amid(net', graph', block', at')
        /\ block' \in Leaders(graph') \ open'
    BY <1>1, <1>2, <1>7, <2>1, <2>2
  <2> QED
    BY <1>1, <2>1, <2>3, <2>4, <2>5, <2>6 DEF GraphsInv, FirstPass, SecondPass
<1> QED
  BY <1>8, <1>9

LEMMA SetGraphInv == ASSUME GraphsInv, SetGraph PROVE GraphsInv'
<1>1. /\ pc = "blocks" /\ open = {} /\ pc' = "next" /\ todo' = todo \ {Least(todo)}
      /\ UNCHANGED <<program, net, pending, at, block, open, graph>> /\ todo \subseteq Code
  BY DEF SetGraph, Built, GraphsInv, Control
<1>2. todo # {} /\ graph.start = BlockAt(program, Least(todo))
  BY <1>1 DEF GraphsInv, Building
<1>3. Complete(net, graph)
  BY <1>1 DEF GraphsInv, Control, SecondPass, Halfway, Complete
<1>4. /\ DOMAIN graphs' = DOMAIN graphs \cup {graph.start}
      /\ \A s \in DOMAIN graphs' : Complete(net, graphs'[s]) /\ graphs'[s].start = s
  <2>1. \A s \in DOMAIN graphs : Complete(net, graphs[s]) /\ graphs[s].start = s
    BY DEF GraphsInv, GraphsKept
  <2>2. CASE graph.start \in DOMAIN graphs
    BY <2>1, <2>2 DEF SetGraph
  <2>3. CASE graph.start \notin DOMAIN graphs
    <3> DEFINE G == With(graphs, graph.start, graph)
    <3>1. graphs' = G
      BY <2>3 DEF SetGraph
    <3>2. DOMAIN G = DOMAIN graphs \cup {graph.start}
          /\ \A s \in DOMAIN G : G[s] = IF s = graph.start THEN graph ELSE graphs[s]
      BY DEF With
    <3> HIDE DEF G
    <3> QED
      BY <1>3, <2>1, <3>1, <3>2
  <2> QED
    BY <2>2, <2>3
<1>5. HasGraph(program, graphs', Least(todo))
  BY <1>2, <1>4 DEF HasGraph
<1>6. GraphsKept'
  BY <1>1, <1>2, <1>4, <1>5, KeptBuilt DEF GraphsInv, GraphsKept
<1>7. Control'
  BY <1>1 DEF GraphsInv, Control
<1> QED
  BY <1>1, <1>6, <1>7 DEF GraphsInv, Building, FirstPass, SecondPass

LEMMA BuildEndInv == ASSUME GraphsInv, BuildEnd PROVE GraphsInv'
<1>1. /\ pc = "next" /\ pc' = "out"
      /\ UNCHANGED <<program, net, graphs, todo, pending, at, block, open, graph>>
  BY DEF BuildEnd, build
<1>2. GraphsKept'
  BY <1>1, KeptWithin DEF GraphsInv, Within
<1>3. Control'
  BY <1>1 DEF GraphsInv, Control
<1> QED
  BY <1>1, <1>2, <1>3 DEF GraphsInv, Building, FirstPass, SecondPass

LEMMA GraphsSame == ASSUME GraphsInv, UNCHANGED functionGraphVars PROVE GraphsInv'
<1>1. UNCHANGED <<program, net, graphs, pc, todo, pending, at, block, open, graph>>
  BY DEF functionGraphVars, build
<1>2. GraphsKept' /\ Control' /\ Building'
  BY <1>1 DEF GraphsInv, GraphsKept, Control, Building
<1> QED
  BY <1>1, <1>2 DEF GraphsInv, FirstPass, SecondPass

LEMMA GraphsNext == GraphsInv /\ [Next]_vars => GraphsInv'
<1> SUFFICES ASSUME GraphsInv, [Next]_vars PROVE GraphsInv'
  OBVIOUS
<1>1. CASE Load
  BY <1>1, LoadInv
<1>2. CASE CfgStep
  BY <1>2, BoundsInv, BuildInv, LeaderInv, ChainInv, PreparedInv, BlockInv, RunInv, SetGraphInv,
     BuildEndInv DEF CfgStep
<1>3. CASE UNCHANGED functionGraphVars
  BY <1>3, GraphsSame
<1>4. CASE UNCHANGED vars
  BY <1>3, <1>4 DEF vars
<1> QED
  BY <1>1, <1>2, <1>3, <1>4 DEF Next, BuildGraphs, Execute, Layout

LEMMA GraphsAlways == Spec => []GraphsInv
<1>1. Init => GraphsInv
  BY GraphsInit DEF Init
<1> QED
  BY <1>1, GraphsNext, PTL DEF Spec
-----------------------------------------------------------------------------
(* What a complete graph shows.  Blocks that share an instruction share the *)
(* first one that they share with something else before it in each.         *)
LEMMA SharedFollows ==
  ASSUME NEW p, NEW n \in NetType(Linked), LinksOK(p, n), NEW g, Complete(n, g),
         NEW b \in Leaders(g), NEW c \in Leaders(g), b # c,
         NEW a \in g.members[b] \cap g.members[c]
  PROVE  \E x \in g.members[b], y \in ReachedBy(n, g.start) : x # y /\ n.next[x] = n.next[y]
<1> DEFINE both == g.members[b] \cap g.members[c]
<1>1. Shape(n, g, b) /\ Shape(n, g, c)
  BY DEF Complete
<1>2. g.members[b] \subseteq Code
  BY <1>1 DEF Shape, ReachedBy
<1>3. both \in SUBSET Nat /\ both # {}
  <2>1. \A x \in both : x \in Nat
    BY <1>2, Bounded
  <2> QED
    BY <2>1
<1>4. PICK z \in both : \A x \in both : z <= x
  <2> HIDE DEF both
  <2> QED
    BY <1>3, General!LeastElement
<1>5. z # b /\ z # c
  BY <1>1, <1>4 DEF Shape
<1>6. PICK x \in g.members[b] : n.next[x] = z
  BY <1>1, <1>4, <1>5 DEF Shape
<1>7. PICK y \in g.members[c] : n.next[y] = z
  BY <1>1, <1>4, <1>5 DEF Shape
<1>8. x < z
  <2>1. x \in Linked /\ z # NoNext
    BY <1>2, <1>4, Bounded
  <2> QED
    BY <1>6, <2>1 DEF LinksOK
<1>9. x \notin both
  BY <1>2, <1>3, <1>4, <1>8
<1>10. x # y /\ y \in ReachedBy(n, g.start)
  BY <1>1, <1>9 DEF Shape
<1> QED
  BY <1>6, <1>7, <1>10

LEMMA FlowShown ==
  ASSUME NEW n, NEW g, Complete(n, g)
  PROVE  /\ UNION {g.members[b] : b \in Leaders(g)} = ReachedBy(n, g.start)
         /\ NodesReached(g) = DOMAIN g.leaders
<1>1. /\ GraphOK(g) /\ Divided(n, g)
      /\ \A b \in Leaders(g) : Shape(n, g, b) /\ Whole(n, g, b, {})
  BY DEF Complete
<1>2. 1 \in DOMAIN g.leaders /\ g.leaders[1] = g.start /\ g.start \in Leaders(g)
  <2>1. g.leaders \in Seq(Code) /\ g.leaders # <<>> /\ g.leaders[1] = g.start
    BY <1>1 DEF GraphOK, Divided
  <2>2. 1 \in DOMAIN g.leaders
    BY <2>1
  <2> QED
    BY <2>1, <2>2 DEF Leaders, ToSet
<1>3. ASSUME NEW N \in SUBSET DOMAIN g.leaders, 1 \in N,
             \A s \in N, t \in DOMAIN g.leaders : Contains(g.edges, <<s, t>>) => t \in N
      PROVE  /\ ReachedBy(n, g.start) \subseteq UNION {g.members[b] : b \in Leaders(g)}
             /\ N = DOMAIN g.leaders
  <2> DEFINE B == {b \in Leaders(g) : NodeOf(g, b) \in N}
             S == UNION {g.members[b] : b \in B}
  <2>1. g.start \in B
    BY <1>1, <1>2, <1>3, NodeIsOne
  <2>2. S \in SUBSET Code /\ g.start \in S
    <3>1. \A b \in B : g.members[b] \subseteq Code /\ b \in g.members[b]
      BY <1>1 DEF Shape, Whole, ReachedBy
    <3> QED
      BY <2>1, <3>1
  <2>3. Closed(n, S)
    <3> SUFFICES ASSUME NEW a \in S, NEW c \in Flow(n, a) PROVE c \in S
      BY DEF Closed
    <3>1. PICK b \in B : a \in g.members[b]
      OBVIOUS
    <3>2. CASE c \in Leaders(g)
      <4>1. Contains(g.edges, <<NodeOf(g, b), NodeOf(g, c)>>)
        BY <1>1, <3>1, <3>2 DEF Shape
      <4>2. NodeOf(g, c) \in DOMAIN g.leaders
        BY <1>1, <3>2, NodeIs
      <4>3. c \in B
        BY <1>3, <3>2, <4>1, <4>2
      <4>4. c \in g.members[c]
        BY <1>1, <3>2 DEF Whole
      <4> QED
        BY <4>3, <4>4
    <3>3. CASE c \notin Leaders(g)
      <4>1. c \in g.members[b]
        BY <1>1, <3>1, <3>3 DEF Whole
      <4> QED
        BY <4>1
    <3> QED
      BY <3>2, <3>3
  <2>4. ReachedBy(n, g.start) \subseteq S
    <3> HIDE DEF S
    <3> QED
      BY <2>2, <2>3, ReachedLeast
  <2>5. ASSUME NEW t \in DOMAIN g.leaders PROVE t \in N
    <3> DEFINE l == g.leaders[t]
    <3>1. l \in Leaders(g) /\ NodeOf(g, l) = t
      BY <1>1, NodeIsOne
    <3> HIDE DEF l
    <3>2. l \in S
      BY <1>1, <2>4, <3>1 DEF Divided
    <3>3. PICK b \in B : l \in g.members[b]
      BY <3>2
    <3>4. l = b
      BY <1>1, <3>1, <3>3 DEF Shape
    <3> QED
      BY <3>1, <3>4
  <2> QED
    BY <2>4, <2>5
<1>4. ReachedBy(n, g.start) \subseteq UNION {g.members[b] : b \in Leaders(g)}
  <2>1. \A s \in DOMAIN g.leaders, t \in DOMAIN g.leaders :
          Contains(g.edges, <<s, t>>) => t \in DOMAIN g.leaders
    OBVIOUS
  <2> QED
    BY <1>2, <1>3, <2>1
<1>5. UNION {g.members[b] : b \in Leaders(g)} \subseteq ReachedBy(n, g.start)
  BY <1>1 DEF Shape
<1>6. DOMAIN g.leaders \subseteq NodesReached(g)
  BY <1>3 DEF NodesReached
<1>7. NodesReached(g) \subseteq DOMAIN g.leaders
  BY DEF NodesReached
<1> QED
  BY <1>4, <1>5, <1>6, <1>7

(* A graph shows all that control reaches from the start of its function,   *)
(* each block from the root; and blocks are joined where control goes from  *)
(* one to the start of another.                                             *)
THEOREM GraphsAreFlow == Spec => []BlocksAreFlow
<1>1. GraphsInv => BlocksAreFlow
  <2> SUFFICES ASSUME GraphsInv, pc = "next", NEW g \in Graphs
               PROVE  /\ UNION {g.members[b] : b \in Leaders(g)} = Reached(g.start)
                      /\ NodesReached(g) = DOMAIN g.leaders
                      /\ \A b \in Leaders(g) :
                           /\ \A a \in g.members[b] : GoesTo(a) \ Leaders(g) \subseteq g.members[b]
                           /\ \A c \in Leaders(g) :
                                Contains(g.edges, <<NodeOf(g, b), NodeOf(g, c)>>) <=>
                                  \E a \in g.members[b] : c \in GoesTo(a)
                           /\ \A c \in Leaders(g) \ {b} : \A a \in g.members[b] \cap g.members[c] :
                                \E x \in g.members[b], y \in Reached(g.start) :
                                  x # y /\ net.next[x] = net.next[y]
    BY DEF BlocksAreFlow
  <2>1. Complete(net, g) /\ net \in NetType(Linked) /\ LinksOK(program, net)
    BY DEF GraphsInv, GraphsKept, Graphs
  <2>2. Reached(g.start) = ReachedBy(net, g.start) /\ \A a : GoesTo(a) = Flow(net, a)
    BY ReachedIs DEF GoesTo, Flow
  <2>3. UNION {g.members[b] : b \in Leaders(g)} = Reached(g.start)
        /\ NodesReached(g) = DOMAIN g.leaders
    BY <2>1, <2>2, FlowShown
  <2>4. ASSUME NEW b \in Leaders(g)
        PROVE  /\ \A a \in g.members[b] : GoesTo(a) \ Leaders(g) \subseteq g.members[b]
               /\ \A c \in Leaders(g) :
                    Contains(g.edges, <<NodeOf(g, b), NodeOf(g, c)>>) <=>
                      \E a \in g.members[b] : c \in GoesTo(a)
    BY <2>1, <2>2 DEF Complete, Shape, Whole
  <2>5. ASSUME NEW b \in Leaders(g), NEW c \in Leaders(g) \ {b},
               NEW a \in g.members[b] \cap g.members[c]
        PROVE  \E x \in g.members[b], y \in Reached(g.start) : x # y /\ net.next[x] = net.next[y]
    BY <2>1, <2>2, SharedFollows
  <2> QED
    BY <2>3, <2>4, <2>5
<1> QED
  BY <1>1, GraphsAlways, PTL
-----------------------------------------------------------------------------
(* What Backwards finds when those that have the address are T. *)
Found(S, a, single, T) ==
  LET bound == IF {b \in S : b >= a} # {} THEN Least({b \in S : b >= a})
               ELSE IF single THEN Greatest(S) ELSE 0
      found == {b \in S : b <= bound /\ b \in T}
  IN  IF found = {} THEN 0 ELSE Greatest(found)

(* From an address where one begins that has it, it is that one. *)
LEMMA BackwardsFinds ==
  ASSUME NEW S \in SUBSET Nat, NEW a \in S, NEW single, NEW T \in SUBSET S, a \in T
  PROVE  Found(S, a, single, T) = a
<1> DEFINE up == {b \in S : b >= a}
           found == {b \in S : b <= a /\ b \in T}
<1>1. a \in Nat /\ a \in up /\ \A b \in up : b \in Nat /\ a <= b
  OBVIOUS
<1>2. a \in found /\ \A b \in found : b \in Nat /\ b <= a
  OBVIOUS
<1>3. Least(up) = a
  <2> HIDE DEF up
  <2>1. Least(up) \in up /\ \A b \in up : Least(up) <= b
    BY <1>1 DEF Least
  <2>2. Least(up) \in Nat /\ a <= Least(up) /\ Least(up) <= a
    BY <1>1, <2>1
  <2> QED
    BY <1>1, <2>2
<1>4. Greatest(found) = a
  <2> HIDE DEF found
  <2>1. Greatest(found) \in found /\ \A b \in found : b <= Greatest(found)
    BY <1>2 DEF Greatest
  <2>2. Greatest(found) \in Nat /\ a <= Greatest(found) /\ Greatest(found) <= a
    BY <1>2, <2>1
  <2> QED
    BY <1>2, <2>2
<1>5. up # {} /\ found # {}
  BY <1>1, <1>2
<1> QED
  BY <1>3, <1>4, <1>5 DEF Found

LEMMA BeginsAtStart ==
  ASSUME NEW g, GraphOK(g), g.start \in Leaders(g)
  PROVE  BasicBlock(g, g.start) = g.start
<1> DEFINE a == g.start
           T == {b \in Leaders(g) : Holds(g, b, a)}
           single == Len(g.leaders) = 1
<1>1. Leaders(g) \in SUBSET Nat /\ a \in Nat /\ a \in Leaders(g)
  BY LeadersIn, Bounded
<1>2. a \in T
  <2>1. g.ends[a] \in a .. Limit
    BY DEF GraphOK
  <2> QED
    BY <1>1, <2>1 DEF Holds
<1>3. BasicBlock(g, a) = Found(Leaders(g), a, single, T)
  BY DEF BasicBlock, Backwards, Found
<1>4. T \in SUBSET Leaders(g)
  OBVIOUS
<1> HIDE DEF T, single
<1> QED
  BY <1>1, <1>2, <1>3, <1>4, BackwardsFinds

LEMMA GraphAtStart ==
  ASSUME NEW G, DOMAIN G \subseteq Nat \ {0}, NEW s \in DOMAIN G,
         GraphOK(G[s]), G[s].start = s, s \in Leaders(G[s])
  PROVE  GetGraph(G, s) = s
<1> DEFINE T == {b \in DOMAIN G : BasicBlock(G[b], s) # 0}
<1>1. s \in T
  BY BeginsAtStart
<1>2. GetGraph(G, s) = Found(DOMAIN G, s, FALSE, T)
  BY DEF GetGraph, Backwards, Found
<1>3. T \in SUBSET DOMAIN G /\ DOMAIN G \in SUBSET Nat /\ s \in DOMAIN G
  OBVIOUS
<1> HIDE DEF T
<1>4. \A single : Found(DOMAIN G, s, single, T) = s
  BY <1>1, <1>3, BackwardsFinds
<1> QED
  BY <1>2, <1>4

(* The search by addresses finds the graph of every function where the      *)
(* function begins, whatever other graphs have blocks there                 *)
(* (FunctionContainer::getGraph).                                           *)
THEOREM FunctionsFindGraphs == Spec => []OwnGraphFound
<1>1. GraphsInv => OwnGraphFound
  <2> SUFFICES ASSUME GraphsInv, pc = "next", todo = {}, NEW f \in program.functions,
                      BlockAt(program, f) # 0, HasNode(program, BlockAt(program, f))
               PROVE  GetGraph(graphs, BlockAt(program, f)) = BlockAt(program, f)
    BY DEF OwnGraphFound
  <2> DEFINE s == BlockAt(program, f)
  <2>1. s \in DOMAIN graphs
    BY DEF GraphsInv, GraphsKept, HasGraph
  <2>2. \A r \in DOMAIN graphs : GraphOK(graphs[r]) /\ graphs[r].start = r
                                 /\ Divided(net, graphs[r])
    BY DEF GraphsInv, GraphsKept, Complete
  <2>3. DOMAIN graphs \subseteq Nat \ {0}
    BY <2>2, Bounded DEF Divided
  <2>4. s \in Leaders(graphs[s])
    <3>1. graphs[s].leaders \in Seq(Code) /\ graphs[s].leaders # <<>> /\ graphs[s].leaders[1] = s
      BY <2>1, <2>2 DEF GraphOK, Divided
    <3>2. 1 \in DOMAIN graphs[s].leaders
      BY <3>1
    <3> QED
      BY <3>1, <3>2 DEF Leaders, ToSet
  <2> HIDE DEF s
  <2> QED
    BY <2>1, <2>2, <2>3, <2>4, GraphAtStart DEF s
<1> QED
  BY <1>1, GraphsAlways, PTL
-----------------------------------------------------------------------------
(* Sequences one after the other, and the part of one that is in a set.     *)
LEMMA OneAfterOther ==
  ASSUME NEW U, NEW s \in Seq(U), NEW t \in Seq(U)
  PROVE  /\ s \o t \in Seq(U) /\ Len(s \o t) = Len(s) + Len(t)
         /\ Len(s) \in Nat /\ Len(t) \in Nat
         /\ DOMAIN s = 1 .. Len(s) /\ DOMAIN t = 1 .. Len(t) /\ DOMAIN (s \o t) = 1 .. Len(s) + Len(t)
         /\ \A i \in 1 .. Len(s) : (s \o t)[i] = s[i]
         /\ \A i \in 1 .. Len(t) : (s \o t)[Len(s) + i] = t[i]
         /\ \A i \in 1 .. Len(s) + Len(t) : i \in 1 .. Len(s) \/ i - Len(s) \in 1 .. Len(t)
OBVIOUS

LEMMA SetAfterOther ==
  ASSUME NEW U, NEW s \in Seq(U), NEW t \in Seq(U)
  PROVE  ToSet(s \o t) = ToSet(s) \cup ToSet(t)
<1> DEFINE r == s \o t
<1>1. /\ Len(s) \in Nat /\ Len(t) \in Nat
      /\ DOMAIN s = 1 .. Len(s) /\ DOMAIN t = 1 .. Len(t) /\ DOMAIN r = 1 .. Len(s) + Len(t)
      /\ \A i \in 1 .. Len(s) : r[i] = s[i]
      /\ \A i \in 1 .. Len(t) : r[Len(s) + i] = t[i]
      /\ \A i \in 1 .. Len(s) + Len(t) : i \in 1 .. Len(s) \/ i - Len(s) \in 1 .. Len(t)
  BY OneAfterOther
<1> HIDE DEF r
<1>2. \A i \in 1 .. Len(s) : i \in DOMAIN r
  BY <1>1
<1>3. \A i \in 1 .. Len(t) : Len(s) + i \in DOMAIN r
  BY <1>1
<1>4. \A i \in DOMAIN r : i \notin DOMAIN s => i - Len(s) \in DOMAIN t /\ r[i] = t[i - Len(s)]
  BY <1>1
<1>5. ToSet(r) \subseteq ToSet(s) \cup ToSet(t)
  BY <1>1, <1>4 DEF ToSet
<1>6. ToSet(s) \subseteq ToSet(r) /\ ToSet(t) \subseteq ToSet(r)
  BY <1>1, <1>2, <1>3 DEF ToSet
<1> QED
  BY <1>5, <1>6 DEF r

LEMMA InjectiveAfterOther ==
  ASSUME NEW U, NEW s \in Seq(U), NEW t \in Seq(U), IsInjective(s), IsInjective(t),
         ToSet(s) \cap ToSet(t) = {}
  PROVE  IsInjective(s \o t)
<1> DEFINE r == s \o t
<1>1. /\ Len(s) \in Nat /\ Len(t) \in Nat
      /\ DOMAIN s = 1 .. Len(s) /\ DOMAIN t = 1 .. Len(t) /\ DOMAIN r = 1 .. Len(s) + Len(t)
      /\ \A i \in 1 .. Len(s) : r[i] = s[i]
      /\ \A i \in 1 .. Len(t) : r[Len(s) + i] = t[i]
      /\ \A i \in 1 .. Len(s) + Len(t) : i \in 1 .. Len(s) \/ i - Len(s) \in 1 .. Len(t)
  BY OneAfterOther
<1> HIDE DEF r
<1>2. \A i \in DOMAIN r : \/ i \in DOMAIN s /\ r[i] = s[i]
                          \/ i - Len(s) \in DOMAIN t /\ r[i] = t[i - Len(s)]
  BY <1>1
<1>3. \A i \in DOMAIN s, j \in DOMAIN t : s[i] # t[j]
  BY DEF ToSet
<1>4. \A i, j \in DOMAIN s : s[i] = s[j] => i = j
  BY DEF IsInjective
<1>5. \A i, j \in DOMAIN t : t[i] = t[j] => i = j
  BY DEF IsInjective
<1>6. ASSUME NEW i \in DOMAIN r, NEW j \in DOMAIN r, r[i] = r[j] PROVE i = j
  <2>1. CASE i \in DOMAIN s /\ r[i] = s[i] /\ j \in DOMAIN s /\ r[j] = s[j]
    BY <2>1, <1>4, <1>6
  <2>2. CASE i - Len(s) \in DOMAIN t /\ r[i] = t[i - Len(s)] /\ j - Len(s) \in DOMAIN t /\ r[j] = t[j - Len(s)]
    <3>1. i - Len(s) = j - Len(s)
      BY <2>2, <1>5, <1>6
    <3>2. i \in Int /\ j \in Int
      BY <1>1
    <3> QED
      BY <1>1, <3>1, <3>2
  <2> QED
    BY <2>1, <2>2, <1>2, <1>3, <1>6
<1>7. IsInjective(r)
  BY <1>6 DEF IsInjective
<1> QED
  BY <1>7 DEF r

LEMMA OneMoreInjective ==
  ASSUME NEW U, NEW s \in Seq(U), NEW a \in U, IsInjective(s), a \notin ToSet(s)
  PROVE  IsInjective(Append(s, a))
<1>1. Append(s, a) = s \o <<a>> /\ <<a>> \in Seq(U) /\ DOMAIN <<a>> = {1} /\ <<a>>[1] = a
  OBVIOUS
<1>2. IsInjective(<<a>>) /\ ToSet(<<a>>) = {a}
  BY <1>1 DEF IsInjective, ToSet
<1> QED
  BY <1>1, <1>2, InjectiveAfterOther

(* r has those of the first k of s that are in T. *)
Kept(s, T, U, k, r) ==
  /\ r \in Seq(U) /\ ToSet(r) = {s[i] : i \in 1 .. k} \cap T
  /\ IsInjective(s) => IsInjective(r)

LEMMA KeptMore ==
  ASSUME NEW U, NEW s \in Seq(U), NEW T, NEW k \in 1 .. Len(s), NEW r, Kept(s, T, U, k - 1, r)
  PROVE  Kept(s, T, U, k, IF s[k] \in T THEN Append(r, s[k]) ELSE r)
<1> DEFINE F == {s[i] : i \in 1 .. k - 1}
           G == {s[i] : i \in 1 .. k}
<1>1. r \in Seq(U) /\ ToSet(r) = F \cap T /\ (IsInjective(s) => IsInjective(r))
  BY DEF Kept
<1>2. s[k] \in U /\ DOMAIN s = 1 .. Len(s) /\ k \in DOMAIN s
  OBVIOUS
<1>3. G = F \cup {s[k]}
  <2>1. \A i : i \in 1 .. k <=> i \in 1 .. k - 1 \/ i = k
    OBVIOUS
  <2> QED
    BY <2>1, Zenon
<1>4. IsInjective(s) => s[k] \notin F
  <2>1. \A i \in 1 .. k - 1 : i \in DOMAIN s /\ i # k
    OBVIOUS
  <2> QED
    BY <1>2, <2>1 DEF IsInjective
<1> HIDE DEF F, G
<1>5. CASE s[k] \in T
  <2>1. Append(r, s[k]) \in Seq(U) /\ ToSet(Append(r, s[k])) = ToSet(r) \cup {s[k]}
    BY <1>1, <1>2, OneMore
  <2>2. ToSet(Append(r, s[k])) = G \cap T
    BY <1>1, <1>3, <1>5, <2>1
  <2>3. IsInjective(s) => IsInjective(Append(r, s[k]))
    BY <1>1, <1>2, <1>4, OneMoreInjective
  <2> QED
    BY <1>5, <2>1, <2>2, <2>3 DEF Kept, G
<1>6. CASE s[k] \notin T
  <2>1. ToSet(r) = G \cap T
    BY <1>1, <1>3, <1>6
  <2> QED
    BY <1>1, <1>6, <2>1 DEF Kept, G
<1> QED
  BY <1>5, <1>6

LEMMA OnlyIs ==
  ASSUME NEW U, NEW s \in Seq(U), NEW T
  PROVE  /\ Only(s, T) \in Seq(U) /\ ToSet(Only(s, T)) = ToSet(s) \cap T
         /\ IsInjective(s) => IsInjective(Only(s, T))
<1> DEFINE N == Len(s)
           More(r, k) == IF s[k] \in T THEN Append(r, s[k]) ELSE r
           adds == [k \in (0 .. N) \ {0} |-> [r \in Seq(U) |-> More(r, k)]]
           only[k \in 0 .. Len(s)] ==
             IF k = 0 THEN <<>>
             ELSE IF s[k] \in T THEN Append(only[k - 1], s[k]) ELSE only[k - 1]
<1>0. Only(s, T) = only[N]
  BY DEF Only, only, N
<1> HIDE DEF only
<1>1. N \in Nat /\ DOMAIN s = 1 .. N /\ \A k \in 1 .. N : s[k] \in U
  OBVIOUS
<1>2. PICK f : General!Follows(f, 0, N, Seq(U), <<>>, adds)
  <2>1. General!Steps(adds, 0, N, Seq(U))
    <3>1. \A r \in Seq(U), k \in (0 .. N) \ {0} : More(r, k) \in Seq(U)
      BY <1>1
    <3> HIDE DEF More, N
    <3> QED
      BY <3>1 DEF General!Steps
  <2>2. <<>> \in Seq(U) /\ 0 \in Int /\ N \in Int /\ 0 <= N
    BY <1>1
  <2> HIDE DEF adds, N
  <2> QED
    BY <2>1, <2>2, General!Recursion
<1>3. f \in [0 .. N -> Seq(U)] /\ f[0] = <<>>
  <2> HIDE DEF adds, N
  <2> QED
    BY <1>2 DEF General!Follows
<1>4. ASSUME NEW k \in (0 .. N) \ {0} PROVE f[k - 1] \in Seq(U) /\ f[k] = More(f[k - 1], k)
  <2>1. f[k] = adds[k][f[k - 1]]
    <3> HIDE DEF adds, N
    <3> QED
      BY <1>2 DEF General!Follows
  <2>2. f[k - 1] \in Seq(U)
    <3>1. k - 1 \in 0 .. N
      BY <1>1
    <3> HIDE DEF N
    <3> QED
      BY <1>3, <3>1
  <2> HIDE DEF More, N
  <2> QED
    BY <2>1, <2>2
<1>5. \A k \in 0 .. N : f[k] = IF k = 0 THEN <<>>
                               ELSE IF s[k] \in T THEN Append(f[k - 1], s[k]) ELSE f[k - 1]
  <2> HIDE DEF N
  <2> QED
    BY <1>3, <1>4
<1>6. f = [k \in 0 .. Len(s) |->
             IF k = 0 THEN <<>>
             ELSE IF s[k] \in T THEN Append(f[k - 1], s[k]) ELSE f[k - 1]]
  <2>1. f \in [0 .. Len(s) -> Seq(U)]
    BY <1>3
  <2> QED
    BY <1>5, <2>1
<1>7. only = [k \in 0 .. Len(s) |->
             IF k = 0 THEN <<>>
             ELSE IF s[k] \in T THEN Append(only[k - 1], s[k]) ELSE only[k - 1]]
  BY <1>6, Zenon DEF only
<1>8. only[0] = <<>> /\ \A k \in (0 .. N) \ {0} : only[k] = More(only[k - 1], k)
  <2>1. ASSUME NEW k \in 0 .. Len(s)
        PROVE  only[k] = IF k = 0 THEN <<>>
                         ELSE IF s[k] \in T THEN Append(only[k - 1], s[k]) ELSE only[k - 1]
    BY <1>7, Zenon
  <2>2. 0 \in 0 .. Len(s)
    BY <1>1
  <2> QED
    BY <2>1, <2>2
<1> DEFINE G == {k \in 0 .. N : Kept(s, T, U, k, only[k])}
<1> HIDE DEF adds
<1>10. 0 \in G
  <2>1. <<>> \in Seq(U) /\ ToSet(<<>>) = {} /\ IsInjective(<<>>) /\ {s[i] : i \in 1 .. 0} = {}
    BY DEF ToSet, IsInjective
  <2>2. Kept(s, T, U, 0, <<>>)
    BY <2>1 DEF Kept
  <2> QED
    BY <1>1, <1>8, <2>2
<1>11. ASSUME NEW k \in 0 .. N, k # 0, k - 1 \in G PROVE k \in G
  <2>1. Kept(s, T, U, k - 1, only[k - 1]) /\ k \in 1 .. Len(s)
    BY <1>11
  <2>2. Kept(s, T, U, k, IF s[k] \in T THEN Append(only[k - 1], s[k]) ELSE only[k - 1])
    BY <2>1, KeptMore
  <2>3. only[k] = IF s[k] \in T THEN Append(only[k - 1], s[k]) ELSE only[k - 1]
    BY <1>8, <1>11
  <2> QED
    BY <2>2, <2>3
<1>12. Kept(s, T, U, N, only[N])
  <2>1. 0 .. N \subseteq G
    <3> HIDE DEF G, N
    <3>1. 0 \in Int /\ N \in Int
      BY <1>1
    <3> QED
      BY <3>1, <1>10, <1>11, General!IntervalInduction
  <2>2. N \in G
    BY <1>1, <2>1
  <2> QED
    BY <2>2
<1>13. ToSet(s) = {s[i] : i \in 1 .. N}
  BY <1>1 DEF ToSet
<1> QED
  BY <1>0, <1>12, <1>13 DEF Kept
-----------------------------------------------------------------------------
(* A drawing: every node is reached from the root, in that only all of them *)
(* are a set that has the root and what its nodes lead to.                  *)
DrawingOK(d) ==
  LET N == 1 .. d.nodes
  IN  /\ d.nodes \in Nat /\ d.root \in N
      /\ d.edges \in Seq(N \X N) /\ IsInjective(d.edges)
      /\ \A S \in SUBSET N :
           d.root \in S /\ (\A i \in DOMAIN d.edges : d.edges[i][1] \in S => d.edges[i][2] \in S)
             => S = N
      /\ d.width \in [N -> Nat] /\ d.height \in [N -> Nat]
      /\ \A n \in N : d.height[n] >= NODE_PADDING

(* put, in the order in which they were put into the queue, are the nodes   *)
(* of a tree whose root is the first: every other one is once a child of a  *)
(* node, which is before it.                                                *)
TreeOK(N, root, put, kids) ==
  /\ put \in Seq(N) /\ put # <<>> /\ put[1] = root /\ IsInjective(put)
  /\ kids \in [N -> Seq(N)]
  /\ \A p \in N : ToSet(kids[p]) \subseteq ToSet(put) \ {root}
  /\ \A i \in DOMAIN put : i # 1 => \E j \in 1 .. i - 1 : put[i] \in ToSet(kids[put[j]])
  /\ \A p, q \in N : \A k \in DOMAIN kids[p], l \in DOMAIN kids[q] :
       kids[p][k] = kids[q][l] => p = q /\ k = l

(* The tree with more children of one of its nodes. *)
LEMMA TreeGrows ==
  ASSUME NEW N, NEW root, NEW put, NEW kids, TreeOK(N, root, put, kids),
         NEW n \in ToSet(put), NEW P \in Seq(N), IsInjective(P), ToSet(P) \cap ToSet(put) = {}
  PROVE  TreeOK(N, root, put \o P, [kids EXCEPT ![n] = @ \o P])
<1> DEFINE all == put \o P
           more == [kids EXCEPT ![n] = @ \o P]
<1>1. /\ put \in Seq(N) /\ put # <<>> /\ put[1] = root /\ IsInjective(put)
      /\ kids \in [N -> Seq(N)]
      /\ \A p \in N : ToSet(kids[p]) \subseteq ToSet(put) \ {root}
      /\ \A i \in DOMAIN put : i # 1 => \E j \in 1 .. i - 1 : put[i] \in ToSet(kids[put[j]])
      /\ \A p, q \in N : \A k \in DOMAIN kids[p], l \in DOMAIN kids[q] :
           kids[p][k] = kids[q][l] => p = q /\ k = l
  BY DEF TreeOK
<1>2. n \in N /\ kids[n] \in Seq(N) /\ root \in ToSet(put)
  <2>1. 1 \in DOMAIN put
    BY <1>1
  <2> QED
    BY <1>1, <2>1 DEF ToSet
<1>3. /\ all \in Seq(N) /\ Len(put) \in Nat /\ Len(P) \in Nat
      /\ DOMAIN put = 1 .. Len(put) /\ DOMAIN P = 1 .. Len(P) /\ DOMAIN all = 1 .. Len(put) + Len(P)
      /\ \A i \in 1 .. Len(put) : all[i] = put[i]
      /\ \A i \in 1 .. Len(P) : all[Len(put) + i] = P[i]
      /\ \A i \in 1 .. Len(put) + Len(P) : i \in 1 .. Len(put) \/ i - Len(put) \in 1 .. Len(P)
  BY <1>1, OneAfterOther
<1>4. ToSet(all) = ToSet(put) \cup ToSet(P) /\ IsInjective(all)
  BY <1>1, SetAfterOther, InjectiveAfterOther
<1>5. ToSet(kids[n] \o P) = ToSet(kids[n]) \cup ToSet(P) /\ kids[n] \o P \in Seq(N)
  BY <1>2, SetAfterOther, OneAfterOther
<1>6. /\ more \in [N -> Seq(N)] /\ more[n] = kids[n] \o P
      /\ \A p \in N : p # n => more[p] = kids[p]
  BY <1>1, <1>2, <1>5
<1>7. ToSet(more[n]) = ToSet(kids[n]) \cup ToSet(P)
      /\ \A p \in N : ToSet(kids[p]) \subseteq ToSet(more[p])
  BY <1>5, <1>6
<1>8. Len(put) # 0 /\ all # <<>> /\ all[1] = root
  <2>1. Len(put) # 0
    BY <1>1
  <2>2. 1 \in 1 .. Len(put) /\ 1 \in DOMAIN all
    BY <1>3, <2>1
  <2> QED
    BY <1>1, <1>3, <2>1, <2>2
<1> HIDE DEF all, more
<1>9. \A p \in N : ToSet(more[p]) \subseteq ToSet(all) \ {root}
  <2> SUFFICES ASSUME NEW p \in N PROVE ToSet(more[p]) \subseteq ToSet(all) \ {root}
    OBVIOUS
  <2>1. ToSet(kids[p]) \subseteq ToSet(put) \ {root}
    BY <1>1
  <2>2. p # n => ToSet(more[p]) = ToSet(kids[p])
    BY <1>6
  <2> QED
    BY <1>2, <1>4, <1>7, <2>1, <2>2
<1>10. ASSUME NEW i \in DOMAIN all, i # 1
       PROVE  \E j \in 1 .. i - 1 : all[i] \in ToSet(more[all[j]])
  <2>1. CASE i \in 1 .. Len(put)
    <3>1. PICK j \in 1 .. i - 1 : put[i] \in ToSet(kids[put[j]])
      BY <1>1, <1>3, <1>10, <2>1
    <3>2. j \in 1 .. Len(put) /\ put[j] \in N
      BY <1>1, <1>3, <2>1
    <3>3. all[i] = put[i] /\ all[j] = put[j]
      BY <1>3, <2>1, <3>2
    <3> QED
      BY <1>7, <3>1, <3>2, <3>3
  <2>2. CASE i - Len(put) \in 1 .. Len(P)
    <3>1. all[i] = P[i - Len(put)]
      <4>1. all[Len(put) + (i - Len(put))] = P[i - Len(put)]
        BY <1>3, <2>2
      <4>2. Len(put) + (i - Len(put)) = i
        BY <1>3, <1>10
      <4> QED
        BY <4>1, <4>2
    <3>2. all[i] \in ToSet(more[n])
      <4>1. P[i - Len(put)] \in ToSet(P)
        BY <1>3, <2>2 DEF ToSet
      <4> QED
        BY <1>7, <3>1, <4>1
    <3>3. PICK j \in 1 .. Len(put) : put[j] = n
      BY <1>3 DEF ToSet
    <3>4. j \in 1 .. i - 1 /\ all[j] = n
      BY <1>3, <2>2, <3>3
    <3> QED
      BY <3>2, <3>4
  <2> QED
    BY <1>3, <1>10, <2>1, <2>2
<1>11. ASSUME NEW p \in N, NEW q \in N, NEW k \in DOMAIN more[p], NEW l \in DOMAIN more[q],
              more[p][k] = more[q][l]
       PROVE  p = q /\ k = l
  <2> DEFINE c == Len(kids[n])
  <2>1. /\ c \in Nat /\ DOMAIN kids[n] = 1 .. c /\ DOMAIN more[n] = 1 .. c + Len(P)
        /\ \A m \in 1 .. c : more[n][m] = kids[n][m]
        /\ \A m \in 1 .. Len(P) : more[n][c + m] = P[m]
        /\ \A m \in 1 .. c + Len(P) : m \in 1 .. c \/ m - c \in 1 .. Len(P)
    BY <1>2, <1>6, OneAfterOther
  <2> HIDE DEF c
  <2>2. ASSUME NEW r \in N, NEW m \in DOMAIN more[r]
        PROVE  \/ m \in DOMAIN kids[r] /\ more[r][m] = kids[r][m] /\ more[r][m] \in ToSet(put)
               \/ r = n /\ m - c \in DOMAIN P /\ more[r][m] = P[m - c] /\ more[r][m] \notin ToSet(put)
    <3>1. CASE m \in DOMAIN kids[r] /\ more[r][m] = kids[r][m]
      <4>1. kids[r][m] \in ToSet(kids[r])
        BY <3>1 DEF ToSet
      <4> QED
        BY <1>1, <3>1, <4>1
    <3>2. CASE r = n /\ m \notin 1 .. c
      <4>1. m - c \in DOMAIN P /\ m = c + (m - c)
        BY <1>3, <2>1, <2>2, <3>2
      <4>2. more[n][m] = P[m - c]
        BY <1>3, <2>1, <4>1
      <4>3. P[m - c] \in ToSet(P)
        BY <4>1 DEF ToSet
      <4> QED
        BY <3>2, <4>1, <4>2, <4>3
    <3> QED
      BY <1>6, <2>1, <2>2, <3>1, <3>2
  <2>3. CASE more[p][k] \in ToSet(put)
    <3>1. k \in DOMAIN kids[p] /\ l \in DOMAIN kids[q] /\ kids[p][k] = kids[q][l]
      BY <1>11, <2>2, <2>3
    <3> QED
      BY <1>1, <3>1
  <2>4. CASE more[p][k] \notin ToSet(put)
    <3>1. /\ p = n /\ q = n /\ k - c \in DOMAIN P /\ l - c \in DOMAIN P
          /\ P[k - c] = P[l - c]
      BY <1>11, <2>2, <2>4
    <3>2. k - c = l - c
      BY <3>1 DEF IsInjective
    <3>3. k \in Int /\ l \in Int
      BY <2>1, <3>1
    <3> QED
      BY <2>1, <3>1, <3>2, <3>3
  <2> QED
    BY <2>3, <2>4
<1>12. TreeOK(N, root, all, more)
  BY <1>3, <1>4, <1>6, <1>8, <1>9, <1>10, <1>11 DEF TreeOK
<1> QED
  BY <1>12 DEF all, more
-----------------------------------------------------------------------------
LEMMA OutgoingIs ==
  ASSUME DrawingOK(drawing), NEW n \in Nodes
  PROVE  /\ EdgesFrom(n) \in Seq(Nodes \X Nodes) /\ IsInjective(EdgesFrom(n))
         /\ ToSet(EdgesFrom(n)) = {e \in ToSet(drawing.edges) : e[1] = n}
         /\ Outgoing(n) \in Seq(Nodes) /\ IsInjective(Outgoing(n))
         /\ ToSet(Outgoing(n)) = {t \in Nodes : <<n, t>> \in ToSet(drawing.edges)}
<1> DEFINE E == EdgesFrom(n)
           O == Outgoing(n)
<1>1. drawing.edges \in Seq(Nodes \X Nodes) /\ IsInjective(drawing.edges)
  BY DEF DrawingOK, Nodes
<1>2. /\ E \in Seq(Nodes \X Nodes) /\ IsInjective(E)
      /\ ToSet(E) = ToSet(drawing.edges) \cap ({n} \X Nodes)
  BY <1>1, OnlyIs DEF EdgesFrom
<1>3. O = [i \in DOMAIN E |-> E[i][2]]
  BY DEF Outgoing
<1>4. ToSet(drawing.edges) \subseteq Nodes \X Nodes
  BY <1>1 DEF ToSet
<1>5. Len(E) \in Nat /\ DOMAIN E = 1 .. Len(E)
  BY <1>2
<1> HIDE DEF E, O
<1>6. \A i \in DOMAIN E : E[i] \in ToSet(drawing.edges) /\ E[i] = <<n, E[i][2]>> /\ E[i][2] \in Nodes
  <2>1. \A i \in DOMAIN E : E[i] \in ToSet(E)
    BY DEF ToSet
  <2>2. \A e \in {n} \X Nodes : e = <<n, e[2]>> /\ e[2] \in Nodes
    OBVIOUS
  <2> QED
    BY <1>2, <2>1, <2>2
<1>7. O \in Seq(Nodes) /\ DOMAIN O = DOMAIN E /\ \A i \in DOMAIN E : O[i] = E[i][2]
  <2>1. O = [i \in 1 .. Len(E) |-> E[i][2]] /\ \A i \in 1 .. Len(E) : E[i][2] \in Nodes
    BY <1>3, <1>5, <1>6
  <2> QED
    BY <1>5, <2>1
<1>8. IsInjective(O)
  <2>1. ASSUME NEW i \in DOMAIN E, NEW j \in DOMAIN E, E[i][2] = E[j][2] PROVE i = j
    <3>1. E[i] = E[j]
      BY <1>6, <2>1
    <3> QED
      BY <1>2, <3>1 DEF IsInjective
  <2> QED
    BY <1>7, <2>1 DEF IsInjective
<1>9. ToSet(O) = {t \in Nodes : <<n, t>> \in ToSet(drawing.edges)}
  <2>1. \A i \in DOMAIN O : O[i] \in Nodes /\ <<n, O[i]>> \in ToSet(drawing.edges)
    BY <1>6, <1>7
  <2>2. ASSUME NEW t \in Nodes, <<n, t>> \in ToSet(drawing.edges) PROVE t \in ToSet(O)
    <3>1. <<n, t>> \in ToSet(E)
      BY <1>2, <2>2
    <3>2. PICK i \in DOMAIN E : E[i] = <<n, t>>
      BY <3>1 DEF ToSet
    <3>3. O[i] = t /\ i \in DOMAIN O
      BY <1>7, <3>2
    <3> QED
      BY <3>3 DEF ToSet
  <2> QED
    BY <2>1, <2>2 DEF ToSet
<1>10. ToSet(E) = {e \in ToSet(drawing.edges) : e[1] = n}
  <2>1. \A e \in Nodes \X Nodes : e \in {n} \X Nodes <=> e[1] = n
    OBVIOUS
  <2> QED
    BY <1>2, <1>4, <2>1
<1> QED
  BY <1>2, <1>7, <1>8, <1>9, <1>10 DEF E, O

LEMMA SeenIs ==
  \A t : t \in Seen <=> t \notin Visited /\ \E n \in Visited : t \in ToSet(Outgoing(n))
<1> DEFINE V == Visited
           U == {ToSet(Outgoing(n)) : n \in V}
<1>1. Seen = (UNION U) \ V
  BY DEF Seen
<1>2. \A u : u \in U <=> \E n \in V : u = ToSet(Outgoing(n))
  BY Zenon
<1> HIDE DEF U, V
<1>3. \A t : t \in Seen <=> t \notin V /\ \E u \in U : t \in u
  BY <1>1, Zenon
<1>4. \A t : t \in Seen <=> t \notin V /\ \E n \in V : t \in ToSet(Outgoing(n))
  <2>1. \A n \in V : ToSet(Outgoing(n)) \in U
    BY <1>2
  <2> QED
    BY <1>2, <1>3, <2>1
<1> QED
  BY <1>4 DEF V

(* The node taken when nothing is left to go on from is one that visited    *)
(* nodes lead to.                                                           *)
LEMMA BestIs ==
  ASSUME DrawingOK(drawing), incoming \in [Nodes -> SUBSET Nodes], Visited \subseteq Nodes,
         Seen # {}
  PROVE  Best \in Nodes \ Visited
<1>1. Seen \subseteq Nodes \ Visited
  <2>1. \A n \in Visited : ToSet(Outgoing(n)) \subseteq Nodes
    BY OutgoingIs
  <2>2. \A t \in Seen : t \notin Visited /\ \E n \in Visited : t \in ToSet(Outgoing(n))
    BY SeenIs
  <2> QED
    BY <2>1, <2>2
<1>2. \A t \in Seen : Cardinality(incoming[t]) \in Nat
  <2>1. IsFiniteSet(Nodes)
    <3>1. drawing.nodes \in Nat
      BY DEF DrawingOK
    <3> QED
      BY <3>1, FS_Interval DEF Nodes
  <2>2. \A t \in Seen : incoming[t] \in SUBSET Nodes
    BY <1>1
  <2> QED
    BY <2>1, <2>2, FS_Subset, FS_CardinalityType
<1> DEFINE C == {Cardinality(incoming[t]) : t \in Seen}
           T == {t \in Seen : \A u \in Seen : Cardinality(incoming[t]) <= Cardinality(incoming[u])}
<1>3. C \in SUBSET Nat /\ C # {}
  BY <1>2
<1>4. PICK c \in C : \A b \in C : c <= b
  <2> HIDE DEF C
  <2> QED
    BY <1>3, General!LeastElement
<1>5. T # {}
  <2>1. PICK t \in Seen : c = Cardinality(incoming[t])
    BY <1>4
  <2>2. t \in T
    BY <1>4, <2>1
  <2> QED
    BY <2>2
<1>6. T \in SUBSET Nat /\ T \subseteq Seen
  <2>1. Nodes \subseteq Nat
    BY DEF Nodes, DrawingOK
  <2> QED
    BY <1>1, <2>1
<1>7. Best = LeastOf(T)
  BY DEF Best
<1>8. LeastOf(T) \in T
  <2> HIDE DEF T
  <2>1. \E a \in T : \A b \in T : a <= b
    BY <1>5, <1>6, General!LeastElement
  <2> QED
    BY <2>1 DEF LeastOf
<1> QED
  BY <1>1, <1>6, <1>7, <1>8
-----------------------------------------------------------------------------
(* What holds of the tree in each phase. *)
LayoutBegins == step = "closed" => order = <<>>

Spanning ==
  step # "closed" =>
    /\ DrawingOK(drawing) /\ TreeOK(Nodes, drawing.root, order \o queue, children)
    /\ order \in Seq(Nodes) /\ queue \in Seq(Nodes) /\ incoming \in [Nodes -> SUBSET Nodes]

Spanned == step \notin {"closed", "acyclic"} => queue = <<>> /\ ToSet(order) = Nodes

TreeInv ==
  /\ step \in {"closed", "acyclic", "route", "draw", "done"}
  /\ LayoutBegins /\ Spanning /\ Spanned

LEMMA VisitedIs ==
  ASSUME TreeInv, step # "closed"
  PROVE  /\ Visited = ToSet(order \o queue) /\ Visited \subseteq Nodes /\ drawing.root \in Visited
         /\ Nodes \subseteq Nat
<1>1. order \in Seq(Nodes) /\ queue \in Seq(Nodes) /\ drawing.nodes \in Nat
  BY DEF TreeInv, Spanning, DrawingOK
<1>2. Visited = ToSet(order \o queue)
  BY <1>1, SetAfterOther DEF Visited
<1>3. ToSet(order) \subseteq Nodes /\ ToSet(queue) \subseteq Nodes
  BY <1>1 DEF ToSet
<1>4. drawing.root \in ToSet(order \o queue)
  <2>1. TreeOK(Nodes, drawing.root, order \o queue, children)
    BY DEF TreeInv, Spanning
  <2> DEFINE put == order \o queue
  <2>2. put \in Seq(Nodes) /\ put # <<>> /\ put[1] = drawing.root
    BY <2>1 DEF TreeOK
  <2> HIDE DEF put
  <2>3. 1 \in DOMAIN put
    BY <2>2
  <2>4. drawing.root \in ToSet(put)
    BY <2>2, <2>3 DEF ToSet
  <2> QED
    BY <2>4 DEF put
<1> QED
  BY <1>1, <1>2, <1>3, <1>4 DEF Visited, Nodes

LEMMA TakeFrontTree == ASSUME TreeInv, TakeFront PROVE TreeInv'
<1> DEFINE n == Head(queue)
           P == Picks(n)
<1>1. /\ step = "acyclic" /\ queue # <<>> /\ step' = step /\ drawing' = drawing
      /\ order' = Append(order, n) /\ queue' = Tail(queue) \o P
      /\ children' = [children EXCEPT ![n] = @ \o P]
      /\ incoming' = [t \in Nodes |-> IF Contains(Outgoing(n), t) /\ t \notin Visited
                                      THEN incoming[t] \ {n} ELSE incoming[t]]
  BY DEF TakeFront
<1>2. /\ DrawingOK(drawing) /\ TreeOK(Nodes, drawing.root, order \o queue, children)
      /\ order \in Seq(Nodes) /\ queue \in Seq(Nodes) /\ incoming \in [Nodes -> SUBSET Nodes]
  BY <1>1 DEF TreeInv, Spanning
<1>3. Visited = ToSet(order \o queue) /\ Visited \subseteq Nodes
  BY <1>1, VisitedIs
<1>4. n \in Nodes /\ n \in ToSet(order \o queue) /\ Tail(queue) \in Seq(Nodes) /\ queue = <<n>> \o Tail(queue)
  <2>1. n \in Nodes /\ n = queue[1] /\ 1 \in DOMAIN queue /\ Tail(queue) \in Seq(Nodes)
    BY <1>1, <1>2
  <2>2. queue = <<n>> \o Tail(queue)
    BY <1>1, <1>2
  <2>3. n \in ToSet(queue)
    BY <2>1 DEF ToSet
  <2> QED
    BY <1>3, <2>1, <2>2, <2>3 DEF Visited
<1>5. /\ P \in Seq(Nodes) /\ IsInjective(P) /\ ToSet(P) \cap ToSet(order \o queue) = {}
  <2>1. Outgoing(n) \in Seq(Nodes) /\ IsInjective(Outgoing(n))
    BY <1>2, <1>4, OutgoingIs
  <2>2. /\ P \in Seq(Nodes) /\ IsInjective(P)
        /\ ToSet(P) = ToSet(Outgoing(n)) \cap {t \in Nodes \ Visited : incoming[t] = {n}}
    BY <2>1, OnlyIs DEF Picks
  <2> QED
    BY <1>3, <2>2
<1> HIDE DEF n, P
<1>6. TreeOK(Nodes, drawing.root, (order \o queue) \o P, children')
  BY <1>1, <1>2, <1>4, <1>5, TreeGrows
<1>7. order' \o queue' = (order \o queue) \o P /\ order' \in Seq(Nodes) /\ queue' \in Seq(Nodes)
  <2> DEFINE t == Tail(queue)
  <2>1. order' = Append(order, n) /\ queue' = t \o P /\ queue = <<n>> \o t /\ t \in Seq(Nodes)
    BY <1>1, <1>4
  <2> HIDE DEF t
  <2>2. \A q \in Seq(Nodes) : Append(order, n) \o (q \o P) = (order \o (<<n>> \o q)) \o P
    BY <1>2, <1>4, <1>5
  <2>3. Append(order, n) \in Seq(Nodes) /\ t \o P \in Seq(Nodes)
    BY <1>2, <1>4, <1>5, <2>1
  <2> QED
    BY <2>1, <2>2, <2>3
<1>8. incoming' \in [Nodes -> SUBSET Nodes]
  BY <1>1, <1>2
<1>9. Nodes' = Nodes
  BY <1>1 DEF Nodes
<1>10. Spanning'
  <2>1. TreeOK(Nodes, drawing.root, order' \o queue', children')
    BY <1>6, <1>7
  <2> QED
    BY <1>1, <1>2, <1>7, <1>8, <1>9, <2>1 DEF Spanning
<1> QED
  BY <1>1, <1>10 DEF TreeInv, LayoutBegins, Spanned

LEMMA PickBestTree == ASSUME TreeInv, PickBest PROVE TreeInv'
<1>1. /\ step = "acyclic" /\ queue = <<>> /\ Seen # {} /\ step' = step /\ drawing' = drawing
      /\ queue' = <<Best>> /\ order' = order /\ incoming' = incoming
  BY DEF PickBest
<1>2. PICK parent \in Visited : children' = [children EXCEPT ![parent] = Append(@, Best)]
  BY DEF PickBest
<1>3. /\ DrawingOK(drawing) /\ TreeOK(Nodes, drawing.root, order \o queue, children)
      /\ order \in Seq(Nodes) /\ incoming \in [Nodes -> SUBSET Nodes]
  BY <1>1 DEF TreeInv, Spanning
<1>4. Visited = ToSet(order \o queue) /\ Visited \subseteq Nodes
  BY <1>1, VisitedIs
<1>5. Best \in Nodes \ Visited
  BY <1>1, <1>3, <1>4, BestIs
<1> DEFINE P == <<Best>>
<1>6. P \in Seq(Nodes) /\ IsInjective(P) /\ ToSet(P) = {Best}
  BY <1>5 DEF IsInjective, ToSet
<1>7. children[parent] \in Seq(Nodes) /\ Append(children[parent], Best) = children[parent] \o P
  <2>1. children \in [Nodes -> Seq(Nodes)] /\ parent \in Nodes
    BY <1>3, <1>4 DEF TreeOK
  <2> QED
    <3> DEFINE c == children[parent]
               b == Best
    <3>1. c \in Seq(Nodes) /\ b \in Nodes
      BY <1>5, <2>1
    <3> HIDE DEF c, b
    <3>2. Append(c, b) = c \o <<b>>
      BY <3>1
    <3> QED
      BY <3>1, <3>2 DEF c, b
<1>8. children' = [children EXCEPT ![parent] = @ \o P]
  BY <1>2, <1>7
<1>9. order' \o queue' = (order \o queue) \o P /\ queue' \in Seq(Nodes)
  <2>1. order \o P = (order \o <<>>) \o P
    BY <1>3, <1>6
  <2> QED
    BY <1>1, <1>6, <2>1
<1> HIDE DEF P
<1>10. TreeOK(Nodes, drawing.root, (order \o queue) \o P, children')
  <2>1. ToSet(P) \cap ToSet(order \o queue) = {} /\ parent \in ToSet(order \o queue)
    BY <1>4, <1>5, <1>6
  <2> QED
    BY <1>3, <1>6, <1>8, <2>1, TreeGrows
<1>11. Nodes' = Nodes
  BY <1>1 DEF Nodes
<1>12. Spanning'
  <2>1. TreeOK(Nodes, drawing.root, order' \o queue', children')
    BY <1>9, <1>10
  <2> QED
    BY <1>1, <1>3, <1>9, <1>11, <2>1 DEF Spanning
<1> QED
  BY <1>1, <1>12 DEF TreeInv, LayoutBegins, Spanned

(* Nothing is left out: what the tree has leads to nothing else. *)
LEMMA ArrangeTree == ASSUME TreeInv, Arrange PROVE TreeInv' /\ ToSet(order) = Nodes /\ queue = <<>>
<1>1. /\ step = "acyclic" /\ queue = <<>> /\ Seen = {} /\ step' = "route" /\ UNCHANGED tree
      /\ routing' = routing
  BY DEF Arrange
<1>2. /\ DrawingOK(drawing) /\ order \in Seq(Nodes)
  BY <1>1 DEF TreeInv, Spanning
<1>3. Visited \subseteq Nodes /\ drawing.root \in Visited
  BY <1>1, VisitedIs
<1>4. ASSUME NEW i \in DOMAIN drawing.edges, drawing.edges[i][1] \in Visited
      PROVE  drawing.edges[i][2] \in Visited
  <2> DEFINE e == drawing.edges[i]
  <2>1. drawing.edges \in Seq(Nodes \X Nodes)
    BY <1>2 DEF DrawingOK, Nodes
  <2>2. e \in Nodes \X Nodes /\ e \in ToSet(drawing.edges)
    BY <2>1 DEF ToSet
  <2>3. e = <<e[1], e[2]>> /\ e[1] \in Nodes /\ e[2] \in Nodes /\ e[1] \in Visited
    BY <1>4, <2>2
  <2> HIDE DEF e
  <2>4. e[2] \in ToSet(Outgoing(e[1]))
    BY <1>2, <2>2, <2>3, OutgoingIs
  <2>5. e[2] \in Visited
    BY <1>1, <2>3, <2>4, SeenIs
  <2> QED
    BY <2>5 DEF e
<1>5. Visited = Nodes
  BY <1>2, <1>3, <1>4 DEF DrawingOK, Nodes
<1>6. ToSet(order) = Nodes
  <2>1. ToSet(<<>>) = {}
    BY DEF ToSet
  <2> QED
    BY <1>1, <1>5, <2>1 DEF Visited
<1>7. Nodes' = Nodes
  BY <1>1 DEF Nodes, tree
<1>8. Spanning' /\ Spanned'
  BY <1>1, <1>6, <1>7 DEF Spanning, Spanned, TreeInv, tree
<1> QED
  BY <1>1, <1>6, <1>8 DEF TreeInv, LayoutBegins

LEMMA TreeStays ==
  ASSUME TreeInv, UNCHANGED tree, step \notin {"closed", "acyclic"},
         step' \in {"route", "draw", "done"}
  PROVE  TreeInv'
<1>1. Nodes' = Nodes
  BY DEF Nodes, tree
<1> QED
  BY <1>1 DEF TreeInv, LayoutBegins, Spanning, Spanned, tree
-----------------------------------------------------------------------------
(* A sequence of different numbers up to N is not longer than that. *)
LEMMA NotLonger ==
  ASSUME NEW N \in Nat, NEW s \in Seq(1 .. N), IsInjective(s)
  PROVE  Len(s) <= N
<1>1. Len(s) \in Nat /\ DOMAIN s = 1 .. Len(s) /\ s \in [1 .. Len(s) -> 1 .. N]
  OBVIOUS
<1>2. s \in Injection(1 .. Len(s), 1 .. N)
  BY <1>1 DEF IsInjective, Injection
<1>3. IsFiniteSet(1 .. N) /\ Cardinality(1 .. N) = N
  BY FS_Interval
<1>4. Cardinality(1 .. Len(s)) = Len(s)
  <2>1. Len(s) \in Nat /\ 1 \in Int /\ Len(s) \in Int
    BY <1>1
  <2>2. Cardinality(1 .. Len(s)) = IF 1 > Len(s) THEN 0 ELSE Len(s) - 1 + 1
    BY <2>1, FS_Interval
  <2> QED
    BY <2>1, <2>2
<1>5. Cardinality(1 .. Len(s)) <= Cardinality(1 .. N)
  BY <1>2, <1>3, FS_Injection
<1> QED
  BY <1>3, <1>4, <1>5

LEMMA TreeShown == TreeInv => EachNodeOnce
<1> SUFFICES ASSUME TreeInv, step # "closed" PROVE EachNodeOnce
  BY DEF EachNodeOnce
<1> DEFINE put == order \o queue
           Places(n) == {e \in Nodes \X Nodes : e[2] \in DOMAIN children[e[1]]
                                                  /\ children[e[1]][e[2]] = n}
<1>1. TreeOK(Nodes, drawing.root, put, children)
  BY DEF TreeInv, Spanning
<1>2. Visited = ToSet(put) /\ Visited \subseteq Nodes
  BY VisitedIs
<1> HIDE DEF put
<1>3. IsInjective(put) /\ \A n \in Nodes : ToSet(children[n]) \subseteq Visited \ {drawing.root}
  BY <1>1, <1>2 DEF TreeOK
<1>4. step # "acyclic" => Visited = Nodes
  <2>1. ToSet(<<>>) = {}
    BY DEF ToSet
  <2> QED
    BY <2>1 DEF TreeInv, Spanned, Visited
<1>5. ASSUME NEW n \in Visited \ {drawing.root} PROVE Cardinality(Places(n)) = 1
  <2>1. /\ put \in Seq(Nodes) /\ put[1] = drawing.root /\ children \in [Nodes -> Seq(Nodes)]
        /\ \A i \in DOMAIN put : i # 1 => \E j \in 1 .. i - 1 : put[i] \in ToSet(children[put[j]])
        /\ \A p, q \in Nodes : \A k \in DOMAIN children[p], l \in DOMAIN children[q] :
             children[p][k] = children[q][l] => p = q /\ k = l
    BY <1>1 DEF TreeOK
  <2>2. PICK i \in DOMAIN put : put[i] = n
    BY <1>2 DEF ToSet
  <2>3. i # 1 /\ DOMAIN put = 1 .. Len(put) /\ Len(put) \in Nat
    BY <2>1, <2>2
  <2>4. PICK j \in 1 .. i - 1 : n \in ToSet(children[put[j]])
    BY <2>1, <2>2, <2>3
  <2>5. PICK p \in Nodes : n \in ToSet(children[p])
    <3>1. j \in DOMAIN put
      BY <2>3
    <3>2. put[j] \in Nodes
      BY <2>1, <3>1
    <3> QED
      BY <2>4, <3>2
  <2>6. PICK k \in DOMAIN children[p] : children[p][k] = n
    BY <2>5 DEF ToSet
  <2>7. k \in Nodes
    <3> DEFINE c == children[p]
    <3>1. drawing.nodes \in Nat /\ Nodes = 1 .. drawing.nodes
      BY DEF TreeInv, Spanning, DrawingOK, Nodes
    <3>2. c \in Seq(1 .. drawing.nodes)
      BY <2>1, <3>1
    <3>3. IsInjective(c)
      BY <2>1 DEF IsInjective
    <3>4. k \in DOMAIN c
      BY <2>6
    <3> HIDE DEF c
    <3>5. Len(c) <= drawing.nodes /\ DOMAIN c = 1 .. Len(c) /\ Len(c) \in Nat
      BY <3>1, <3>2, <3>3, NotLonger
    <3> QED
      BY <3>1, <3>4, <3>5
  <2>8. <<p, k>> \in Places(n)
    BY <2>6, <2>7
  <2>9. ASSUME NEW e \in Places(n) PROVE e = <<p, k>>
    <3>1. e = <<e[1], e[2]>> /\ e[1] \in Nodes /\ e[2] \in DOMAIN children[e[1]]
          /\ children[e[1]][e[2]] = n
      OBVIOUS
    <3>2. e[1] = p /\ e[2] = k
      BY <2>1, <2>6, <3>1
    <3> QED
      BY <3>1, <3>2
  <2> HIDE DEF Places
  <2>10. Places(n) = {<<p, k>>}
    BY <2>8, <2>9
  <2> QED
    BY <2>10, FS_Singleton
<1> HIDE DEF Places
<1>6. \A n \in Visited \ {drawing.root} : Cardinality(Places(n)) = 1
  BY <1>5
<1> QED
  BY <1>3, <1>4, <1>6 DEF EachNodeOnce, put, Places
-----------------------------------------------------------------------------
(* The graph that the layout gets is one with a root that leads everywhere. *)
Drawn(g, type, size) ==
  LET n == Len(g.leaders)
  IN  [nodes |-> n, edges |-> g.edges, root |-> NodeOf(g, g.start), type |-> type,
       width |-> [m \in 1 .. n |-> size[m][1]],
       height |-> [m \in 1 .. n |-> size[m][2] + NODE_PADDING]]

LEMMA DrawnIs ==
  ASSUME NEW n, NEW g, Complete(n, g), NEW type, NEW size \in [Code -> Nat \X Nat]
  PROVE  DrawingOK(Drawn(g, type, size))
<1> DEFINE N == Len(g.leaders)
           d == Drawn(g, type, size)
<1>1. /\ g \in GraphRecord /\ GraphOK(g) /\ Divided(n, g) /\ NodesReached(g) = DOMAIN g.leaders
  BY FlowShown DEF Complete
<1>2. /\ g.leaders \in Seq(Code) /\ IsInjective(g.leaders) /\ g.leaders # <<>>
      /\ g.leaders[1] = g.start /\ g.edges \in Seq(Nat \X Nat) /\ IsInjective(g.edges)
      /\ \A i \in DOMAIN g.edges : g.edges[i] \in (DOMAIN g.leaders) \X (DOMAIN g.leaders)
  BY <1>1 DEF GraphRecord, GraphOK, Divided
<1>3. N \in Nat /\ DOMAIN g.leaders = 1 .. N /\ 1 \in 1 .. N
  BY <1>2
<1>4. N <= Limit /\ 1 .. N \subseteq Code
  <2>1. Limit \in Nat /\ g.leaders \in Seq(1 .. Limit)
    BY <1>2, Bounded DEF Code
  <2>2. N <= Limit
    BY <1>2, <2>1, NotLonger
  <2> QED
    BY <1>3, <2>1, <2>2 DEF Code
<1>5. NodeOf(g, g.start) = 1
  BY <1>1, <1>2, <1>3, NodeIsOne
<1> DEFINE w == [m \in 1 .. N |-> size[m][1]]
           h == [m \in 1 .. N |-> size[m][2] + NODE_PADDING]
<1>6. /\ d.nodes = N /\ d.edges = g.edges /\ d.root = 1
      /\ d.width = w /\ d.height = h
  BY <1>5 DEF Drawn
<1>7. w \in [1 .. N -> Nat] /\ h \in [1 .. N -> Nat] /\ \A m \in 1 .. N : h[m] >= NODE_PADDING
  <2>1. \A m \in 1 .. N : size[m] \in Nat \X Nat
    BY <1>4
  <2>2. \A m \in 1 .. N : size[m][1] \in Nat /\ size[m][2] \in Nat
    BY <2>1
  <2> QED
    BY <2>2 DEF NODE_PADDING
<1> HIDE DEF w, h, d, N
<1>8. g.edges \in Seq((1 .. N) \X (1 .. N))
  <2> DEFINE E == g.edges
             S == (1 .. N) \X (1 .. N)
  <2>1. E \in Seq(Nat \X Nat) /\ \A i \in DOMAIN E : E[i] \in S
    BY <1>2, <1>3
  <2> HIDE DEF E, S
  <2>2. E \in Seq(S)
    BY <2>1
  <2> QED
    BY <2>2 DEF E, S
<1>9. ASSUME NEW S \in SUBSET (1 .. N), 1 \in S,
             \A i \in DOMAIN g.edges : g.edges[i][1] \in S => g.edges[i][2] \in S
      PROVE  S = 1 .. N
  <2>1. ASSUME NEW s \in S, NEW t \in DOMAIN g.leaders, Contains(g.edges, <<s, t>>) PROVE t \in S
    <3>1. PICK i \in DOMAIN g.edges : g.edges[i] = <<s, t>>
      BY <2>1 DEF Contains
    <3>2. g.edges[i][1] = s /\ g.edges[i][2] = t
      BY <3>1
    <3> QED
      BY <1>9, <3>2
  <2>2. S \in SUBSET DOMAIN g.leaders
    BY <1>3
  <2>3. \A m \in NodesReached(g) : m \in S
    BY <1>9, <2>1, <2>2 DEF NodesReached
  <2> QED
    BY <1>1, <1>3, <2>3
<1>10. DrawingOK(d)
  BY <1>2, <1>3, <1>6, <1>7, <1>8, <1>9 DEF DrawingOK
<1> QED
  BY <1>10 DEF d

LEMMA ExecuteTree == ASSUME GraphsInv, TreeInv, Execute PROVE TreeInv'
<1>1. step = "closed" /\ order = <<>>
  BY DEF Execute, TreeInv, LayoutBegins
<1>2. PICK s \in DOMAIN graphs, type \in LayoutTypes, size \in NodeSizes :
        Open(Len(graphs[s].leaders), graphs[s].edges, NodeOf(graphs[s], s), type, size)
  BY DEF Execute
<1>3. Complete(net, graphs[s]) /\ graphs[s].start = s /\ size \in [Code -> Nat \X Nat]
  BY SizesAssumption DEF GraphsInv, GraphsKept
<1>4. drawing' = Drawn(graphs[s], type, size)
  BY <1>2, <1>3 DEF Open, Drawn
<1>5. DrawingOK(drawing')
  BY <1>3, <1>4, DrawnIs
<1> DEFINE N == 1 .. drawing'.nodes
           root == drawing'.root
           kids == children'
           from == incoming'
<1>6. N = Nodes' /\ root \in N
  BY <1>5 DEF Nodes, DrawingOK
<1>7. /\ step' = "acyclic" /\ order' = <<>> /\ queue' = <<root>>
      /\ kids = [m \in N |-> <<>>]
      /\ from \in [N -> SUBSET N]
  BY <1>1, <1>2, <1>4 DEF Open, Drawn
<1> HIDE DEF N, root, kids, from
<1>8. TreeOK(N, root, <<>> \o <<root>>, kids)
  <2> DEFINE put == <<>> \o <<root>>
  <2>1. put = <<root>> /\ put \in Seq(N) /\ DOMAIN put = {1} /\ put[1] = root /\ put # <<>>
    BY <1>6
  <2> HIDE DEF put
  <2>2. kids \in [N -> Seq(N)] /\ \A p \in N : kids[p] = <<>> /\ ToSet(kids[p]) = {} /\ DOMAIN kids[p] = {}
    <3>1. <<>> \in Seq(N) /\ ToSet(<<>>) = {} /\ DOMAIN <<>> = {}
      BY DEF ToSet
    <3> QED
      BY <1>7, <3>1
  <2>3. IsInjective(put)
    BY <2>1 DEF IsInjective
  <2>4. TreeOK(N, root, put, kids)
    BY <2>1, <2>2, <2>3 DEF TreeOK
  <2> QED
    BY <2>4 DEF put
<1>9. order' \in Seq(N) /\ queue' \in Seq(N)
  BY <1>6, <1>7
<1>10. Spanning'
  <2>1. TreeOK(N, root, order' \o queue', kids)
    BY <1>7, <1>8
  <2> QED
    BY <1>5, <1>6, <1>7, <1>9, <2>1 DEF Spanning, root, kids, from
<1> QED
  BY <1>7, <1>10 DEF TreeInv, LayoutBegins, Spanned

LEMMA TreeInit == LayoutInit => TreeInv
BY DEF LayoutInit, TreeInv, LayoutBegins, Spanning, Spanned

LEMMA TreeUnmoved == ASSUME TreeInv, UNCHANGED layoutVars PROVE TreeInv'
<1>1. UNCHANGED <<step, drawing, incoming, children, queue, order>> /\ Nodes' = Nodes
  BY DEF layoutVars, tree, Nodes
<1> QED
  BY <1>1 DEF TreeInv, LayoutBegins, Spanning, Spanned

LEMMA TreeNext == GraphsInv /\ TreeInv /\ [Next]_vars => TreeInv'
<1> SUFFICES ASSUME GraphsInv, TreeInv, [Next]_vars PROVE TreeInv'
  OBVIOUS
<1>1. CASE TakeFront
  BY <1>1, TakeFrontTree
<1>2. CASE PickBest
  BY <1>2, PickBestTree
<1>3. CASE Arrange
  BY <1>3, ArrangeTree
<1>4. CASE RouteEdge \/ Measure \/ Draw
  <2>1. UNCHANGED tree /\ step \notin {"closed", "acyclic"} /\ step' \in {"route", "draw", "done"}
    BY <1>4 DEF RouteEdge, Measure, Draw
  <2> QED
    BY <2>1, TreeStays
<1>5. CASE Execute
  BY <1>5, ExecuteTree
<1>6. CASE UNCHANGED layoutVars
  BY <1>6, TreeUnmoved
<1>7. CASE UNCHANGED vars
  BY <1>6, <1>7 DEF vars
<1> QED
  BY <1>1, <1>2, <1>3, <1>4, <1>5, <1>6, <1>7 DEF Next, Layout, LayoutNext, BuildGraphs

LEMMA TreeAlways == Spec => []TreeInv
<1>1. Init => TreeInv
  BY TreeInit DEF Init
<1> QED
  BY <1>1, GraphsAlways, TreeNext, PTL DEF Spec

(* makeAcyclic makes a tree of any graph that cfgStep makes, whichever way  *)
(* it goes through m_blocks: each node is in it once and has one parent,    *)
(* and none is left out (layeredlayout.cpp:30, 72).                         *)
THEOREM LayoutSpans == Spec => []EachNodeOnce
BY TreeAlways, TreeShown, PTL
-----------------------------------------------------------------------------
(* Layouts: cells of some of the nodes N in a grid.                         *)
Cell == [row : Nat, col : Nat]
CellsOf(N) == UNION {[S -> Cell] : S \in SUBSET N}
LayoutOf(N) == [cell : CellsOf(N), rows : Nat, cols : Nat]

Apart(a, b) == a.row # b.row \/ a.col + 2 <= b.col \/ b.col + 2 <= a.col

CellsApart(f) == \A m, l \in DOMAIN f : m # l => Apart(f[m], f[l])

(* The layouts below a node, moved down by a row; and that of a node, which *)
(* is alone in its row.                                                     *)
Under(N, g) ==
  /\ g \in LayoutOf(N) /\ CellsApart(g.cell)
  /\ \A m \in DOMAIN g.cell : /\ 1 <= g.cell[m].row /\ g.cell[m].row <= g.rows
                              /\ g.cell[m].col + 2 <= g.cols

Top(N, g, n) ==
  /\ g \in LayoutOf(N) /\ CellsApart(g.cell)
  /\ n \in DOMAIN g.cell /\ g.cell[n].row = 0
  /\ \A m \in DOMAIN g.cell : /\ g.cell[m].row + 1 <= g.rows /\ g.cell[m].col + 2 <= g.cols
                              /\ m # n => g.cell[m].row # 0

Leaf(g, n) == DOMAIN g.cell = {n} /\ g.cell[n].col = 0

LEMMA CellsAre ==
  ASSUME NEW N, NEW f
  PROVE  f \in CellsOf(N) <=> f \in [DOMAIN f -> Cell] /\ DOMAIN f \subseteq N
BY DEF CellsOf

LEMMA LayoutsAre ==
  ASSUME NEW N, NEW g \in LayoutOf(N)
  PROVE  /\ g.cell \in CellsOf(N) /\ g.rows \in Nat /\ g.cols \in Nat
         /\ DOMAIN g.cell \subseteq N
         /\ \A m \in DOMAIN g.cell : g.cell[m] \in Cell
<1>1. g.cell \in CellsOf(N) /\ g.rows \in Nat /\ g.cols \in Nat
  BY DEF LayoutOf
<1>2. g.cell \in [DOMAIN g.cell -> Cell] /\ DOMAIN g.cell \subseteq N
  BY <1>1, CellsAre
<1> QED
  BY <1>1, <1>2

(* g is f a row down and c columns to the right. *)
Moves(g, f, c) ==
  /\ DOMAIN g = DOMAIN f
  /\ \A m \in DOMAIN f : /\ g[m].row = f[m].row + 1 /\ g[m].col = f[m].col + c
                         /\ f[m].row \in Nat /\ f[m].col \in Nat

LEMMA ShiftedIs ==
  ASSUME NEW N, NEW f, NEW c, f \in CellsOf(N), c \in Nat
  PROVE  /\ Shifted(f, c) \in CellsOf(N) /\ Moves(Shifted(f, c), f, c)
         /\ CellsApart(f) => CellsApart(Shifted(f, c))
<1> DEFINE g == Shifted(f, c)
<1>1. f \in [DOMAIN f -> Cell] /\ DOMAIN f \subseteq N
  BY CellsAre
<1>2. \A m \in DOMAIN f : f[m].row \in Nat /\ f[m].col \in Nat
  BY <1>1 DEF Cell
<1>3. /\ DOMAIN g = DOMAIN f
      /\ \A m \in DOMAIN f : /\ g[m].row = f[m].row + 1 /\ g[m].col = f[m].col + c
                             /\ g[m] \in Cell
  BY <1>2 DEF Shifted, Cell
<1>4. g \in [DOMAIN g -> Cell]
  BY <1>3 DEF Shifted
<1>5. g \in CellsOf(N)
  BY <1>1, <1>3, <1>4, CellsAre
<1> HIDE DEF g
<1>6. CellsApart(f) => CellsApart(g)
  BY <1>2, <1>3 DEF CellsApart, Apart
<1>7. Moves(g, f, c)
  BY <1>2, <1>3 DEF Moves
<1> QED
  BY <1>5, <1>6, <1>7 DEF g

(* h is f and, where that has no cell, g. *)
Merges(h, f, g) ==
  /\ DOMAIN h = DOMAIN f \cup DOMAIN g
  /\ \A m \in DOMAIN f : h[m] = f[m]
  /\ \A m \in DOMAIN g : m \notin DOMAIN f => h[m] = g[m]

LEMMA BothIs ==
  ASSUME NEW N, NEW f, NEW g, f \in CellsOf(N), g \in CellsOf(N)
  PROVE  Both(f, g) \in CellsOf(N) /\ Merges(Both(f, g), f, g)
<1>1. /\ f \in [DOMAIN f -> Cell] /\ DOMAIN f \subseteq N
      /\ g \in [DOMAIN g -> Cell] /\ DOMAIN g \subseteq N
  BY CellsAre
<1>2. /\ Both(f, g) \in [DOMAIN f \cup DOMAIN g -> Cell] 
      /\ DOMAIN Both(f, g) = DOMAIN f \cup DOMAIN g
      /\ \A m \in DOMAIN f : Both(f, g)[m] = f[m]
      /\ \A m \in DOMAIN g : m \notin DOMAIN f => Both(f, g)[m] = g[m]
  BY <1>1 DEF Both
<1> QED
  BY <1>1, <1>2, CellsAre DEF Merges

(* Cells of two layouts, where those of one are apart from the other's.     *)
LEMMA BothApart ==
  ASSUME NEW N, NEW f \in CellsOf(N), NEW g \in CellsOf(N), CellsApart(f), CellsApart(g),
         \A m \in DOMAIN f, l \in DOMAIN g : Apart(f[m], g[l])
  PROVE  CellsApart(Both(f, g))
<1> DEFINE h == Both(f, g)
<1>1. /\ DOMAIN h = DOMAIN f \cup DOMAIN g
      /\ \A m \in DOMAIN f : h[m] = f[m]
      /\ \A m \in DOMAIN g : m \notin DOMAIN f => h[m] = g[m]
  <2>1. Merges(h, f, g)
    BY BothIs
  <2> HIDE DEF h
  <2> QED
    BY <2>1 DEF Merges
<1> HIDE DEF h
<1>2. \A a, b : Apart(a, b) <=> Apart(b, a)
  BY DEF Apart
<1>3. \A m \in DOMAIN f, l \in DOMAIN g : Apart(f[m], g[l]) /\ Apart(g[l], f[m])
  BY <1>2
<1>4. CellsApart(h)
  <2> SUFFICES ASSUME NEW m \in DOMAIN h, NEW l \in DOMAIN h, m # l PROVE Apart(h[m], h[l])
    BY DEF CellsApart
  <2>1. CASE m \in DOMAIN f /\ l \in DOMAIN f
    BY <1>1, <2>1 DEF CellsApart
  <2>2. CASE m \in DOMAIN f /\ l \notin DOMAIN f
    BY <1>1, <1>3, <2>2
  <2>3. CASE m \notin DOMAIN f /\ l \in DOMAIN f
    BY <1>1, <1>3, <2>3
  <2>4. CASE m \notin DOMAIN f /\ l \notin DOMAIN f
    BY <1>1, <2>4 DEF CellsApart
  <2> QED
    BY <2>1, <2>2, <2>3, <2>4
<1> QED
  BY <1>4 DEF h

LEMMA BesideIs ==
  ASSUME NEW N, NEW L \in LayoutOf(N), NEW R \in LayoutOf(N)
  PROVE  /\ Beside(L, R) \in LayoutOf(N)
         /\ DOMAIN Beside(L, R).cell = DOMAIN L.cell \cup DOMAIN R.cell
         /\ Beside(L, R).cols = L.cols + R.cols
<1> DEFINE s == Shifted(R.cell, L.cols)
           b == Both(L.cell, s)
<1>1. /\ L.cell \in CellsOf(N) /\ L.cols \in Nat /\ L.rows \in Nat
      /\ R.cell \in CellsOf(N) /\ R.cols \in Nat /\ R.rows \in Nat
  BY LayoutsAre
<1>2. s \in CellsOf(N) /\ Moves(s, R.cell, L.cols)
  BY <1>1, ShiftedIs
<1> HIDE DEF s
<1>3. b \in CellsOf(N) /\ Merges(b, L.cell, s)
  BY <1>1, <1>2, BothIs
<1>4. Larger(L.rows, R.rows) \in Nat /\ L.cols + R.cols \in Nat
  BY <1>1 DEF Larger
<1>5. Beside(L, R) = [cell |-> b, rows |-> Larger(L.rows, R.rows), cols |-> L.cols + R.cols]
  BY DEF Beside, s
<1> HIDE DEF b
<1> QED
  BY <1>2, <1>3, <1>4, <1>5 DEF LayoutOf, Merges, Moves

LEMMA BesideUnder ==
  ASSUME NEW N, NEW L, NEW R, NEW r, Under(N, L), Top(N, R, r),
         DOMAIN L.cell \cap DOMAIN R.cell = {}
  PROVE  Under(N, Beside(L, R))
<1> DEFINE s == Shifted(R.cell, L.cols)
           b == Both(L.cell, s)
           B == Beside(L, R)
<1>1. /\ L \in LayoutOf(N) /\ R \in LayoutOf(N)
      /\ L.cell \in CellsOf(N) /\ L.cols \in Nat /\ L.rows \in Nat
      /\ R.cell \in CellsOf(N) /\ R.cols \in Nat /\ R.rows \in Nat
      /\ \A m \in DOMAIN L.cell : L.cell[m].row \in Nat /\ L.cell[m].col \in Nat
  BY LayoutsAre DEF Under, Top, Cell
<1>1a. s \in CellsOf(N) /\ Moves(s, R.cell, L.cols) /\ CellsApart(s)
  BY <1>1, ShiftedIs DEF Top
<1>2. /\ s \in CellsOf(N) /\ DOMAIN s = DOMAIN R.cell /\ CellsApart(s)
      /\ \A m \in DOMAIN s : /\ s[m].row = R.cell[m].row + 1 /\ s[m].col = R.cell[m].col + L.cols
                             /\ R.cell[m].row \in Nat /\ R.cell[m].col \in Nat
  <2> HIDE DEF s
  <2> QED
    BY <1>1a DEF Moves
<1>3. \A m \in DOMAIN s : /\ 1 <= s[m].row /\ s[m].row <= R.rows /\ s[m].col + 2 <= L.cols + R.cols
                          /\ L.cols <= s[m].col
  BY <1>1, <1>2 DEF Top
<1>4. \A m \in DOMAIN L.cell : /\ 1 <= L.cell[m].row /\ L.cell[m].row <= L.rows
                               /\ L.cell[m].col + 2 <= L.cols
  BY DEF Under
<1>5. B.cell = b /\ B.rows = Larger(L.rows, R.rows) /\ B.cols = L.cols + R.cols
  BY DEF Beside
<1> HIDE DEF s
<1>5a. Merges(b, L.cell, s)
  BY <1>1, <1>2, BothIs
<1>6. /\ DOMAIN b = DOMAIN L.cell \cup DOMAIN s
      /\ \A m \in DOMAIN L.cell : b[m] = L.cell[m]
      /\ \A m \in DOMAIN s : m \notin DOMAIN L.cell => b[m] = s[m]
  BY <1>5a DEF Merges
<1>7. CellsApart(b)
  <2>1. \A m \in DOMAIN L.cell, l \in DOMAIN s : Apart(L.cell[m], s[l])
    BY <1>1, <1>2, <1>3, <1>4 DEF Apart
  <2> QED
    BY <1>1, <1>2, <2>1, BothApart DEF Under
<1> HIDE DEF b
<1>8. /\ L.rows <= Larger(L.rows, R.rows) /\ R.rows <= Larger(L.rows, R.rows)
      /\ Larger(L.rows, R.rows) \in Nat
  BY <1>1 DEF Larger
<1>9. B \in LayoutOf(N)
  BY <1>1, BesideIs
<1> HIDE DEF B
<1>10. ASSUME NEW m \in DOMAIN b
       PROVE  1 <= b[m].row /\ b[m].row <= B.rows /\ b[m].col + 2 <= B.cols
  <2>1. CASE m \in DOMAIN L.cell
    BY <1>1, <1>4, <1>5, <1>6, <1>8, <2>1
  <2>2. CASE m \notin DOMAIN L.cell
    BY <1>1, <1>2, <1>3, <1>5, <1>6, <1>8, <1>10, <2>2
  <2> QED
    BY <2>1, <2>2
<1>11. Under(N, B)
  BY <1>5, <1>7, <1>9, <1>10 DEF Under
<1> QED
  BY <1>11 DEF B

(* A node above what is under it, inside its columns. *)
LEMMA AboveTop ==
  ASSUME NEW N, NEW g, Under(N, g), NEW n \in N \ DOMAIN g.cell, NEW col \in Nat,
         NEW cols \in Nat, NEW rows \in Nat, col + 2 <= cols, g.cols <= cols, rows = 1 + g.rows
  PROVE  /\ Top(N, Above(n, g.cell, col, cols, rows), n)
         /\ DOMAIN Above(n, g.cell, col, cols, rows).cell = {n} \cup DOMAIN g.cell
<1> DEFINE top == [m \in {n} |-> [row |-> 0, col |-> col]]
           b == Both(top, g.cell)
           A == Above(n, g.cell, col, cols, rows)
<1>1. /\ g.cell \in CellsOf(N) /\ g.cols \in Nat /\ g.rows \in Nat
      /\ \A m \in DOMAIN g.cell : g.cell[m].row \in Nat /\ g.cell[m].col \in Nat
  BY LayoutsAre DEF Under, Cell
<1>2. DOMAIN top = {n} /\ top[n].row = 0 /\ top[n].col = col /\ top[n] \in Cell
  BY DEF Cell
<1>3. top \in CellsOf(N) /\ CellsApart(top)
  <2>1. top \in [DOMAIN top -> Cell] /\ DOMAIN top \subseteq N
    BY <1>2
  <2> HIDE DEF top
  <2> QED
    BY <1>2, <2>1, CellsAre DEF CellsApart
<1>4. A.cell = b /\ A = [cell |-> b, rows |-> rows, cols |-> cols]
  BY DEF Above
<1> HIDE DEF top
<1>4a. b \in CellsOf(N) /\ Merges(b, top, g.cell)
  BY <1>1, <1>3, BothIs
<1>5. /\ DOMAIN b = {n} \cup DOMAIN g.cell /\ b[n] = top[n]
      /\ \A m \in DOMAIN g.cell : m # n /\ b[m] = g.cell[m]
  BY <1>2, <1>4a DEF Merges
<1>6. \A m \in DOMAIN g.cell : /\ 1 <= g.cell[m].row /\ g.cell[m].row <= g.rows
                               /\ g.cell[m].col + 2 <= g.cols
  BY DEF Under
<1>7. CellsApart(b)
  <2>1. \A m \in DOMAIN top, l \in DOMAIN g.cell : Apart(top[m], g.cell[l])
    BY <1>1, <1>2, <1>6 DEF Apart
  <2> QED
    BY <1>1, <1>3, <2>1, BothApart DEF Under
<1> HIDE DEF b
<1>8. A \in LayoutOf(N) /\ A.rows = rows /\ A.cols = cols
  BY <1>4, <1>4a DEF LayoutOf
<1> HIDE DEF A
<1>9. ASSUME NEW m \in DOMAIN b
      PROVE  /\ b[m].row + 1 <= A.rows /\ b[m].col + 2 <= A.cols
             /\ m # n => b[m].row # 0
  <2>1. CASE m = n
    BY <1>1, <1>2, <1>5, <1>8, <2>1
  <2>2. CASE m \in DOMAIN g.cell
    BY <1>1, <1>5, <1>6, <1>8, <2>2
  <2> QED
    BY <1>5, <1>9, <2>1, <2>2
<1>10. Top(N, A, n) /\ DOMAIN A.cell = {n} \cup DOMAIN g.cell
  BY <1>2, <1>4, <1>5, <1>7, <1>8, <1>9 DEF Top
<1> QED
  BY <1>10 DEF A

(* Two layouts fit next to each other, moved by put.                        *)
Fit(L, R, put) ==
  /\ DOMAIN put = {"left", "right", "cols"}
  /\ put.left \in Nat /\ put.right \in Nat /\ put.cols \in Nat
  /\ \A m \in DOMAIN L.cell : L.cell[m].col + put.left + 2 <= put.cols
  /\ \A k \in DOMAIN R.cell : R.cell[k].col + put.right + 2 <= put.cols
  /\ \A m \in DOMAIN L.cell, k \in DOMAIN R.cell :
       L.cell[m].row = R.cell[k].row =>
         \/ L.cell[m].col + put.left + 2 <= R.cell[k].col + put.right
         \/ R.cell[k].col + put.right + 2 <= L.cell[m].col + put.left

LEMMA NextToFits ==
  ASSUME NEW N, NEW L, NEW R, NEW l, NEW r, Top(N, L, l), Top(N, R, r),
         NEW leftleaf \in BOOLEAN, NEW rightleaf \in BOOLEAN,
         leftleaf => Leaf(L, l), rightleaf => Leaf(R, r)
  PROVE  Fit(L, R, NextTo(L, R, L.cell[l].col, R.cell[r].col, leftleaf, rightleaf))
<1> DEFINE lc == L.cell[l].col
           rc == R.cell[r].col
           put == NextTo(L, R, lc, rc, leftleaf, rightleaf)
<1>1. /\ L \in LayoutOf(N) /\ R \in LayoutOf(N)
      /\ L.cols \in Nat /\ R.cols \in Nat
      /\ \A m \in DOMAIN L.cell : L.cell[m].row \in Nat /\ L.cell[m].col \in Nat
      /\ \A k \in DOMAIN R.cell : R.cell[k].row \in Nat /\ R.cell[k].col \in Nat
  BY LayoutsAre DEF Top, Cell
<1>2. /\ l \in DOMAIN L.cell /\ L.cell[l].row = 0 /\ r \in DOMAIN R.cell /\ R.cell[r].row = 0
      /\ \A m \in DOMAIN L.cell : L.cell[m].col + 2 <= L.cols /\ (m # l => L.cell[m].row # 0)
      /\ \A k \in DOMAIN R.cell : R.cell[k].col + 2 <= R.cols /\ (k # r => R.cell[k].row # 0)
  BY DEF Top
<1>3. lc \in Nat /\ rc \in Nat /\ lc + 2 <= L.cols /\ rc + 2 <= R.cols
  BY <1>1, <1>2
<1>4. CASE leftleaf
  <2> DEFINE add == Larger(0, 2 - rc)
  <2>1. put = [left |-> rc - 2 + add, right |-> add, cols |-> R.cols + add]
    BY <1>4 DEF NextTo
  <2>2. add \in Nat /\ rc - 2 + add \in Nat
    BY <1>3 DEF Larger
  <2>3. DOMAIN L.cell = {l} /\ lc = 0
    BY <1>4 DEF Leaf
  <2> HIDE DEF add, put
  <2>4. /\ put.left = rc - 2 + add /\ put.right = add /\ put.cols = R.cols + add
        /\ DOMAIN put = {"left", "right", "cols"}
    BY <2>1
  <2>5. \A m \in DOMAIN L.cell : L.cell[m].col = 0 /\ L.cell[m].row = 0
    BY <1>2, <2>3
  <2> HIDE DEF rc, lc
  <2>6. \A m \in DOMAIN L.cell : L.cell[m].col + put.left + 2 <= put.cols
    BY <1>1, <1>3, <2>2, <2>4, <2>5
  <2>7. \A k \in DOMAIN R.cell : R.cell[k].col + put.right + 2 <= put.cols
    BY <1>1, <1>2, <2>2, <2>4
  <2>8. ASSUME NEW m \in DOMAIN L.cell, NEW k \in DOMAIN R.cell, L.cell[m].row = R.cell[k].row
        PROVE  L.cell[m].col + put.left + 2 <= R.cell[k].col + put.right
    <3>1. k = r /\ R.cell[k].col = rc
      BY <1>2, <2>5, <2>8 DEF rc
    <3> QED
      BY <1>3, <2>2, <2>4, <2>5, <3>1
  <2> QED
    BY <1>1, <2>2, <2>4, <2>6, <2>7, <2>8 DEF Fit, put, rc, lc
<1>5. CASE ~leftleaf /\ rightleaf
  <2>1. put = [left |-> 0, right |-> lc + 2, cols |-> Larger(L.cols, lc + 4)]
    BY <1>5 DEF NextTo
  <2>2. DOMAIN R.cell = {r} /\ rc = 0
    BY <1>5 DEF Leaf
  <2>3. /\ Larger(L.cols, lc + 4) \in Nat /\ L.cols <= Larger(L.cols, lc + 4)
        /\ lc + 4 <= Larger(L.cols, lc + 4)
    BY <1>1, <1>3 DEF Larger
  <2> HIDE DEF put
  <2>4. /\ put.left = 0 /\ put.right = lc + 2 /\ put.cols = Larger(L.cols, lc + 4)
        /\ DOMAIN put = {"left", "right", "cols"}
    BY <2>1
  <2>5. \A k \in DOMAIN R.cell : R.cell[k].col = 0 /\ R.cell[k].row = 0
    BY <1>2, <2>2
  <2> HIDE DEF rc, lc
  <2>6. \A m \in DOMAIN L.cell : L.cell[m].col + put.left + 2 <= put.cols
    BY <1>1, <1>2, <2>3, <2>4
  <2>7. \A k \in DOMAIN R.cell : R.cell[k].col + put.right + 2 <= put.cols
    BY <1>1, <1>3, <2>3, <2>4, <2>5
  <2>8. ASSUME NEW m \in DOMAIN L.cell, NEW k \in DOMAIN R.cell, L.cell[m].row = R.cell[k].row
        PROVE  L.cell[m].col + put.left + 2 <= R.cell[k].col + put.right
    <3>1. m = l /\ L.cell[m].col = lc
      BY <1>2, <2>5, <2>8 DEF lc
    <3> QED
      BY <1>3, <2>4, <2>5, <3>1
  <2> QED
    BY <1>1, <1>3, <2>3, <2>4, <2>6, <2>7, <2>8 DEF Fit, put, rc, lc
<1>6. CASE ~leftleaf /\ ~rightleaf
  <2>1. put = [left |-> 0, right |-> L.cols, cols |-> L.cols + R.cols]
    BY <1>6 DEF NextTo
  <2> HIDE DEF put
  <2>4. /\ put.left = 0 /\ put.right = L.cols /\ put.cols = L.cols + R.cols
        /\ DOMAIN put = {"left", "right", "cols"}
    BY <2>1
  <2>6. \A m \in DOMAIN L.cell : L.cell[m].col + put.left + 2 <= put.cols
    BY <1>1, <1>2, <2>4
  <2>7. \A k \in DOMAIN R.cell : R.cell[k].col + put.right + 2 <= put.cols
    BY <1>1, <1>2, <2>4
  <2>8. \A m \in DOMAIN L.cell, k \in DOMAIN R.cell :
          L.cell[m].col + put.left + 2 <= R.cell[k].col + put.right
    BY <1>1, <1>2, <2>4
  <2> QED
    BY <1>1, <2>4, <2>6, <2>7, <2>8 DEF Fit, put
<1> QED
  BY <1>4, <1>5, <1>6

(* The two layouts together. *)
Two(L, R, put) ==
  [cell |-> Both(Shifted(L.cell, put.left), Shifted(R.cell, put.right)),
   rows |-> Larger(L.rows, R.rows), cols |-> put.cols]

UnderTwo(N, L, R, put) ==
  LET g == Two(L, R, put)
  IN  /\ Under(N, g) /\ DOMAIN g.cell = DOMAIN L.cell \cup DOMAIN R.cell
      /\ g.cols = put.cols /\ g.rows = Larger(L.rows, R.rows)

LEMMA TwoUnder ==
  ASSUME NEW N, NEW L, NEW R, NEW l, NEW r, Top(N, L, l), Top(N, R, r), NEW put, Fit(L, R, put),
         DOMAIN L.cell \cap DOMAIN R.cell = {}
  PROVE  UnderTwo(N, L, R, put)
<1> DEFINE g == Two(L, R, put)
           s == Shifted(L.cell, put.left)
           t == Shifted(R.cell, put.right)
           b == Both(s, t)
<1>1. /\ L \in LayoutOf(N) /\ R \in LayoutOf(N)
      /\ L.cell \in CellsOf(N) /\ L.rows \in Nat /\ R.cell \in CellsOf(N) /\ R.rows \in Nat
      /\ CellsApart(L.cell) /\ CellsApart(R.cell)
  BY LayoutsAre DEF Top
<1>2. put.left \in Nat /\ put.right \in Nat /\ put.cols \in Nat
  BY DEF Fit
<1>3. s \in CellsOf(N) /\ Moves(s, L.cell, put.left) /\ CellsApart(s)
  BY <1>1, <1>2, ShiftedIs
<1>4. t \in CellsOf(N) /\ Moves(t, R.cell, put.right) /\ CellsApart(t)
  BY <1>1, <1>2, ShiftedIs
<1>5. b \in CellsOf(N) /\ Merges(b, s, t)
  BY <1>3, <1>4, BothIs
<1> HIDE DEF s, t
<1>6. /\ DOMAIN s = DOMAIN L.cell
      /\ \A m \in DOMAIN s : /\ s[m].row = L.cell[m].row + 1 /\ s[m].col = L.cell[m].col + put.left
                             /\ L.cell[m].row \in Nat /\ L.cell[m].col \in Nat
  BY <1>3 DEF Moves
<1>7. /\ DOMAIN t = DOMAIN R.cell
      /\ \A k \in DOMAIN t : /\ t[k].row = R.cell[k].row + 1 /\ t[k].col = R.cell[k].col + put.right
                             /\ R.cell[k].row \in Nat /\ R.cell[k].col \in Nat
  BY <1>4 DEF Moves
<1>8. CellsApart(b)
  <2>1. ASSUME NEW m \in DOMAIN s, NEW k \in DOMAIN t PROVE Apart(s[m], t[k])
    <3>1. L.cell[m].row = R.cell[k].row =>
            \/ L.cell[m].col + put.left + 2 <= R.cell[k].col + put.right
            \/ R.cell[k].col + put.right + 2 <= L.cell[m].col + put.left
      BY <1>6, <1>7 DEF Fit
    <3>2. /\ s[m].row = L.cell[m].row + 1 /\ s[m].col = L.cell[m].col + put.left
          /\ L.cell[m].row \in Nat /\ L.cell[m].col \in Nat
      BY <1>6
    <3>3. /\ t[k].row = R.cell[k].row + 1 /\ t[k].col = R.cell[k].col + put.right
          /\ R.cell[k].row \in Nat /\ R.cell[k].col \in Nat
      BY <1>7
    <3>4. CASE L.cell[m].row # R.cell[k].row
      <4>1. s[m].row # t[k].row
        BY <3>2, <3>3, <3>4
      <4> QED
        BY <4>1 DEF Apart
    <3>5. CASE L.cell[m].col + put.left + 2 <= R.cell[k].col + put.right
      <4>1. s[m].col + 2 <= t[k].col
        BY <1>2, <3>2, <3>3, <3>5
      <4> QED
        BY <4>1 DEF Apart
    <3>6. CASE R.cell[k].col + put.right + 2 <= L.cell[m].col + put.left
      <4>1. t[k].col + 2 <= s[m].col
        BY <1>2, <3>2, <3>3, <3>6
      <4> QED
        BY <4>1 DEF Apart
    <3> QED
      BY <3>1, <3>4, <3>5, <3>6
  <2> QED
    BY <1>3, <1>4, <2>1, BothApart
<1>9. g.cell = b /\ g.rows = Larger(L.rows, R.rows) /\ g.cols = put.cols
      /\ g = [cell |-> b, rows |-> Larger(L.rows, R.rows), cols |-> put.cols]
  BY DEF s, t, Two
<1> HIDE DEF b, g
<1>10. /\ L.rows <= Larger(L.rows, R.rows) /\ R.rows <= Larger(L.rows, R.rows)
       /\ Larger(L.rows, R.rows) \in Nat
  BY <1>1 DEF Larger
<1>11. g \in LayoutOf(N)
  <2>1. b \in CellsOf(N)
    BY <1>5
  <2> QED
    BY <1>2, <1>9, <1>10, <2>1 DEF LayoutOf
<1>12. DOMAIN b = DOMAIN s \cup DOMAIN t /\ (\A m \in DOMAIN s : b[m] = s[m])
       /\ \A m \in DOMAIN t : m \notin DOMAIN s => b[m] = t[m]
  BY <1>5 DEF Merges
<1>13. ASSUME NEW m \in DOMAIN b
       PROVE  1 <= b[m].row /\ b[m].row <= g.rows /\ b[m].col + 2 <= g.cols
  <2>1. CASE m \in DOMAIN s
    <3>1. L.cell[m].row + 1 <= L.rows /\ L.cell[m].col + put.left + 2 <= put.cols
      BY <1>6, <2>1 DEF Top, Fit
    <3>2. b[m].row = L.cell[m].row + 1 /\ b[m].col = L.cell[m].col + put.left
          /\ L.cell[m].row \in Nat /\ L.cell[m].col \in Nat
      BY <1>6, <1>12, <2>1
    <3> QED
      BY <1>1, <1>2, <1>9, <1>10, <3>1, <3>2
  <2>2. CASE m \in DOMAIN t /\ m \notin DOMAIN s
    <3>1. R.cell[m].row + 1 <= R.rows /\ R.cell[m].col + put.right + 2 <= put.cols
      BY <1>7, <2>2 DEF Top, Fit
    <3>2. b[m].row = R.cell[m].row + 1 /\ b[m].col = R.cell[m].col + put.right
          /\ R.cell[m].row \in Nat /\ R.cell[m].col \in Nat
      BY <1>7, <1>12, <2>2
    <3> QED
      BY <1>1, <1>2, <1>9, <1>10, <3>1, <3>2
  <2> QED
    BY <1>12, <1>13, <2>1, <2>2
<1> QED
  BY <1>6, <1>7, <1>8, <1>9, <1>11, <1>12, <1>13 DEF Under, UnderTwo, g

(* The layouts of the nodes in T may be put side by side. *)
Ready(N, T, layouts) ==
  /\ \A c \in T : Top(N, layouts[c], c) /\ (children[c] = <<>> => Leaf(layouts[c], c))
  /\ \A c, e \in T : c # e => DOMAIN layouts[c].cell \cap DOMAIN layouts[e].cell = {}

(* x is the row of the first i of the nodes of kids. *)
InRow(N, kids, i, layouts, x) ==
  /\ Under(N, x)
  /\ \A m : m \in DOMAIN x.cell <=> \E j \in 1 .. i : m \in DOMAIN layouts[kids[j]].cell
  /\ \A j \in 1 .. i : layouts[kids[j]].cols <= x.cols

LEMMA RowMore ==
  ASSUME NEW N, NEW kids \in Seq(N), IsInjective(kids), NEW layouts,
         Ready(N, ToSet(kids), layouts),
         NEW i \in 1 .. Len(kids), NEW x, InRow(N, kids, i - 1, layouts, x)
  PROVE  InRow(N, kids, i, layouts, Beside(x, layouts[kids[i]]))
<1> DEFINE R == layouts[kids[i]]
           B == Beside(x, R)
<1>1. Len(kids) \in Nat /\ DOMAIN kids = 1 .. Len(kids) /\ \A j \in 1 .. Len(kids) : kids[j] \in ToSet(kids)
  BY DEF ToSet
<1>2. Top(N, R, kids[i]) /\ R \in LayoutOf(N) /\ x \in LayoutOf(N) /\ Under(N, x)
  BY <1>1 DEF Ready, Top, Under, InRow
<1>3. x.cols \in Nat /\ R.cols \in Nat
  BY <1>2, LayoutsAre
<1>4. ASSUME NEW j \in 1 .. i - 1 PROVE DOMAIN layouts[kids[j]].cell \cap DOMAIN R.cell = {}
  <2>1. j \in DOMAIN kids /\ j # i
    BY <1>1
  <2>2. kids[j] # kids[i]
    BY <1>1, <2>1 DEF IsInjective
  <2> QED
    BY <1>1, <2>1, <2>2 DEF Ready
<1>5. DOMAIN x.cell \cap DOMAIN R.cell = {}
  BY <1>4 DEF InRow
<1> HIDE DEF R
<1>6. Under(N, B) /\ DOMAIN B.cell = DOMAIN x.cell \cup DOMAIN R.cell /\ B.cols = x.cols + R.cols
  BY <1>2, <1>5, BesideUnder, BesideIs
<1> HIDE DEF B
<1>7. \A m : m \in DOMAIN B.cell <=> \E j \in 1 .. i : m \in DOMAIN layouts[kids[j]].cell
  <2>1. \A j : j \in 1 .. i <=> j \in 1 .. i - 1 \/ j = i
    BY <1>1
  <2>2. \A m : m \in DOMAIN x.cell <=> \E j \in 1 .. i - 1 : m \in DOMAIN layouts[kids[j]].cell
    BY DEF InRow
  <2>3. \A m : m \in DOMAIN B.cell <=> m \in DOMAIN x.cell \/ m \in DOMAIN layouts[kids[i]].cell
    BY <1>6 DEF R
  <2> QED
    BY <2>1, <2>2, <2>3, Zenon
<1>8. ASSUME NEW j \in 1 .. i PROVE layouts[kids[j]].cols <= B.cols
  <2>1. CASE j = i
    BY <1>3, <1>6, <2>1 DEF R
  <2>2. CASE j \in 1 .. i - 1
    <3>1. layouts[kids[j]].cols <= x.cols
      BY <2>2 DEF InRow
    <3>2. layouts[kids[j]] \in LayoutOf(N)
      BY <1>1, <2>2 DEF Ready, Top
    <3>3. layouts[kids[j]].cols \in Nat
      BY <3>2, LayoutsAre
    <3> QED
      BY <1>3, <1>6, <3>1, <3>3
  <2> QED
    BY <2>1, <2>2
<1>9. InRow(N, kids, i, layouts, B)
  BY <1>6, <1>7, <1>8 DEF InRow
<1> QED
  BY <1>9 DEF B, R

LEMMA NoGridIs == ASSUME NEW N PROVE Under(N, NoGrid) /\ DOMAIN NoGrid.cell = {} /\ NoGrid.cols = 0
<1> DEFINE f == [n \in {} |-> 0]
<1>1. DOMAIN f = {} /\ f \in [{} -> Cell]
  OBVIOUS
<1> HIDE DEF f
<1>2. f \in CellsOf(N)
  BY <1>1, CellsAre
<1>3. NoGrid = [cell |-> f, rows |-> 0, cols |-> 0]
  BY DEF NoGrid, f
<1> QED
  BY <1>1, <1>2, <1>3 DEF Under, LayoutOf, CellsApart

LEMMA RowOfIs ==
  ASSUME NEW N, NEW kids \in Seq(N), IsInjective(kids), NEW layouts,
         Ready(N, ToSet(kids), layouts)
  PROVE  /\ InRow(N, kids, Len(kids), layouts, RowOf(kids, layouts))
         /\ Len(kids) = 0 => RowOf(kids, layouts) = NoGrid
<1> DEFINE K == Len(kids)
           S == LayoutOf(N)
           More(x, i) == Beside(x, layouts[kids[i]])
           adds == [i \in (0 .. K) \ {0} |-> [x \in S |-> More(x, i)]]
           row[i \in 0 .. Len(kids)] ==
             IF i = 0 THEN NoGrid ELSE Beside(row[i - 1], layouts[kids[i]])
<1>0. RowOf(kids, layouts) = row[K]
  BY DEF RowOf, row, K
<1> HIDE DEF row
<1>1. K \in Nat /\ NoGrid \in S /\ \A i \in 1 .. K : layouts[kids[i]] \in S
  <2>1. NoGrid \in S
    BY NoGridIs DEF Under
  <2>2. \A i \in 1 .. K : kids[i] \in ToSet(kids)
    BY DEF ToSet
  <2> QED
    BY <2>1, <2>2 DEF Ready, Top
<1>2. PICK f : General!Follows(f, 0, K, S, NoGrid, adds)
  <2>1. General!Steps(adds, 0, K, S)
    <3>1. \A x \in S, i \in (0 .. K) \ {0} : More(x, i) \in S
      BY <1>1, BesideIs
    <3> HIDE DEF More, K, S
    <3> QED
      BY <3>1 DEF General!Steps
  <2>2. 0 \in Int /\ K \in Int /\ 0 <= K
    BY <1>1
  <2> HIDE DEF adds, K, S
  <2> QED
    BY <1>1, <2>1, <2>2, General!Recursion
<1>3. f \in [0 .. K -> S] /\ f[0] = NoGrid
  <2> HIDE DEF adds, K, S
  <2> QED
    BY <1>2 DEF General!Follows
<1>4. ASSUME NEW i \in (0 .. K) \ {0} PROVE f[i - 1] \in S /\ f[i] = More(f[i - 1], i)
  <2>1. f[i] = adds[i][f[i - 1]]
    <3> HIDE DEF adds, K, S
    <3> QED
      BY <1>2 DEF General!Follows
  <2>2. f[i - 1] \in S
    <3>1. i - 1 \in 0 .. K
      BY <1>1
    <3> HIDE DEF K, S
    <3> QED
      BY <1>3, <3>1
  <2> HIDE DEF More, K, S
  <2> QED
    BY <2>1, <2>2
<1>5. \A i \in 0 .. K : f[i] = IF i = 0 THEN NoGrid ELSE Beside(f[i - 1], layouts[kids[i]])
  <2> HIDE DEF K, S
  <2> QED
    BY <1>3, <1>4
<1>6. f = [i \in 0 .. Len(kids) |->
             IF i = 0 THEN NoGrid ELSE Beside(f[i - 1], layouts[kids[i]])]
  <2>1. f \in [0 .. Len(kids) -> S]
    BY <1>3
  <2> HIDE DEF S
  <2> QED
    BY <1>5, <2>1
<1>7. row = [i \in 0 .. Len(kids) |->
             IF i = 0 THEN NoGrid ELSE Beside(row[i - 1], layouts[kids[i]])]
  BY <1>6, Zenon DEF row
<1>8. row[0] = NoGrid /\ \A i \in (0 .. K) \ {0} : row[i] = More(row[i - 1], i)
  <2>1. ASSUME NEW i \in 0 .. Len(kids)
        PROVE  row[i] = IF i = 0 THEN NoGrid ELSE Beside(row[i - 1], layouts[kids[i]])
    BY <1>7, Zenon
  <2>2. 0 \in 0 .. Len(kids)
    BY <1>1
  <2> QED
    BY <2>1, <2>2
<1> DEFINE G == {i \in 0 .. K : InRow(N, kids, i, layouts, row[i])}
<1> HIDE DEF adds, S
<1>10. 0 \in G
  <2>1. InRow(N, kids, 0, layouts, NoGrid)
    BY NoGridIs DEF InRow
  <2> QED
    BY <1>1, <1>8, <2>1
<1>11. ASSUME NEW i \in 0 .. K, i # 0, i - 1 \in G PROVE i \in G
  <2>1. InRow(N, kids, i - 1, layouts, row[i - 1]) /\ i \in 1 .. Len(kids)
    BY <1>11
  <2>2. InRow(N, kids, i, layouts, Beside(row[i - 1], layouts[kids[i]]))
    BY <2>1, RowMore
  <2>3. row[i] = Beside(row[i - 1], layouts[kids[i]])
    BY <1>8, <1>11
  <2> QED
    BY <2>2, <2>3
<1>12. InRow(N, kids, K, layouts, row[K])
  <2>1. 0 .. K \subseteq G
    <3> HIDE DEF G, K
    <3>1. 0 \in Int /\ K \in Int
      BY <1>1
    <3> QED
      BY <3>1, <1>10, <1>11, General!IntervalInduction
  <2>2. K \in G
    BY <1>1, <2>1
  <2> QED
    BY <2>2
<1> QED
  BY <1>0, <1>8, <1>12

(* What a node's layout has, from those of its children. *)
TopOf(n, layouts, g) ==
  /\ Top(Nodes, g, n)
  /\ \A m : m \in DOMAIN g.cell <=>
              m = n \/ \E c \in ToSet(children[n]) : m \in DOMAIN layouts[c].cell
  /\ children[n] = <<>> => Leaf(g, n)

LEMMA InARowIs ==
  ASSUME NEW n \in Nodes, children[n] \in Seq(Nodes), IsInjective(children[n]), NEW layouts,
         Ready(Nodes, ToSet(children[n]), layouts),
         \A c \in ToSet(children[n]) : n \notin DOMAIN layouts[c].cell
  PROVE  TopOf(n, layouts, InARow(n, children[n], layouts))
<1> DEFINE kids == children[n]
           sum == RowOf(kids, layouts)
           col == IF Len(kids) = 1 THEN layouts[kids[1]].cell[kids[1]].col
                  ELSE IF sum.cols >= 2 THEN (sum.cols - 2) \div 2 ELSE 0
           cols == Larger(2, sum.cols)
           g == Above(n, sum.cell, col, cols, 1 + sum.rows)
<1>1. InRow(Nodes, kids, Len(kids), layouts, sum) /\ (Len(kids) = 0 => sum = NoGrid)
  BY RowOfIs
<1>2. InARow(n, kids, layouts) = g
  BY DEF InARow
<1> HIDE DEF kids, sum
<1>3. kids \in Seq(Nodes) /\ Len(kids) \in Nat /\ DOMAIN kids = 1 .. Len(kids)
      /\ (kids = <<>> <=> Len(kids) = 0)
  BY DEF kids
<1>4. Under(Nodes, sum) /\ sum \in LayoutOf(Nodes) /\ sum.cols \in Nat /\ sum.rows \in Nat
  <2>1. Under(Nodes, sum) /\ sum \in LayoutOf(Nodes)
    BY <1>1 DEF InRow, Under
  <2> QED
    BY <2>1, LayoutsAre
<1>5. \A m : m \in DOMAIN sum.cell <=> \E c \in ToSet(kids) : m \in DOMAIN layouts[c].cell
  <2>1. \A m : m \in DOMAIN sum.cell <=> \E j \in 1 .. Len(kids) : m \in DOMAIN layouts[kids[j]].cell
    BY <1>1 DEF InRow
  <2>2. /\ \A j \in 1 .. Len(kids) : kids[j] \in ToSet(kids)
        /\ \A c \in ToSet(kids) : \E j \in 1 .. Len(kids) : c = kids[j]
    BY <1>3 DEF ToSet
  <2>3. ASSUME NEW m, NEW c \in ToSet(kids), m \in DOMAIN layouts[c].cell
        PROVE  m \in DOMAIN sum.cell
    BY <2>1, <2>2, <2>3
  <2>4. ASSUME NEW m \in DOMAIN sum.cell
        PROVE  \E c \in ToSet(kids) : m \in DOMAIN layouts[c].cell
    BY <2>1, <2>2
  <2> QED
    BY <2>3, <2>4
<1>6. cols \in Nat /\ 2 <= cols /\ sum.cols <= cols
  BY <1>4 DEF Larger
<1>7. col \in Nat /\ col + 2 <= cols
  <2>1. CASE Len(kids) = 1
    <3> DEFINE c == kids[1]
               L == layouts[c]
    <3>1. c \in ToSet(kids) /\ 1 \in 1 .. Len(kids)
      BY <1>3, <2>1 DEF ToSet
    <3>2. Top(Nodes, L, c) /\ L.cols <= sum.cols
      BY <1>1, <3>1 DEF Ready, InRow, kids
    <3>3. L \in LayoutOf(Nodes) /\ c \in DOMAIN L.cell /\ L.cell[c].col + 2 <= L.cols
      BY <3>2 DEF Top
    <3>4. L.cols \in Nat /\ L.cell[c].col \in Nat
      BY <3>3, LayoutsAre DEF Cell
    <3>5. col = L.cell[c].col
      BY <2>1
    <3> HIDE DEF L, c, col, cols
    <3> QED
      BY <1>4, <1>6, <3>2, <3>3, <3>4, <3>5
  <2>2. CASE Len(kids) # 1
    <3>1. col = IF sum.cols >= 2 THEN (sum.cols - 2) \div 2 ELSE 0
      BY <2>2
    <3> HIDE DEF col, cols
    <3> QED
      BY <1>4, <1>6, <3>1
  <2> QED
    BY <2>1, <2>2
<1>8. n \notin DOMAIN sum.cell
  BY <1>5 DEF kids
<1>9. CASE kids = <<>>
  <2>1. sum = NoGrid /\ DOMAIN sum.cell = {} /\ sum.cols = 0 /\ col = 0
    BY <1>1, <1>3, <1>9, NoGridIs
  <2>2. g.cell = Both([m \in {n} |-> [row |-> 0, col |-> col]], sum.cell)
    BY DEF Above
  <2>3. g.cell[n].col = 0
    BY <2>1, <2>2 DEF Both
  <2>4. DOMAIN g.cell = {n}
    BY <2>1, <2>2 DEF Both
  <2> HIDE DEF g
  <2>5. Leaf(g, n)
    BY <2>3, <2>4 DEF Leaf
  <2>6. Top(Nodes, g, n)
    <3> HIDE DEF col, cols
    <3> QED
      BY <1>4, <1>6, <1>7, <1>8, AboveTop DEF g
  <2>7. \A m : m \in DOMAIN g.cell <=> m = n \/ \E c \in ToSet(kids) : m \in DOMAIN layouts[c].cell
    BY <1>5, <2>1, <2>4
  <2> QED
    BY <1>2, <2>5, <2>6, <2>7 DEF TopOf, kids
<1>10. CASE kids # <<>>
  <2>1. Top(Nodes, g, n) /\ DOMAIN g.cell = {n} \cup DOMAIN sum.cell
    <3> HIDE DEF col, cols
    <3> QED
      BY <1>4, <1>6, <1>7, <1>8, AboveTop
  <2> HIDE DEF g
  <2>2. \A m : m \in DOMAIN g.cell <=> m = n \/ \E c \in ToSet(kids) : m \in DOMAIN layouts[c].cell
    BY <1>5, <2>1
  <2> QED
    BY <1>2, <1>10, <2>1, <2>2 DEF TopOf, kids
<1> QED
  BY <1>9, <1>10

LEMMA Middle ==
  ASSUME NEW a \in Nat, NEW b \in Nat, NEW c \in Nat, NEW d \in Nat, a + 2 <= c, b + 2 <= c, c <= d
  PROVE  (a + b) \div 2 \in Nat /\ ((a + b) \div 2) + 2 <= d
OBVIOUS

LEMMA OverTwoIs ==
  ASSUME NEW n \in Nodes, children[n] \in Seq(Nodes), IsInjective(children[n]), NEW layouts,
         Ready(Nodes, ToSet(children[n]), layouts), Len(children[n]) = 2,
         \A c \in ToSet(children[n]) : n \notin DOMAIN layouts[c].cell
  PROVE  TopOf(n, layouts, OverTwo(n, layouts[children[n][1]], layouts[children[n][2]],
                                   children[n][1], children[n][2]))
<1> DEFINE kids == children[n]
           l == kids[1]
           r == kids[2]
           L == layouts[l]
           R == layouts[r]
           leftleaf == children[l] = <<>>
           rightleaf == children[r] = <<>>
           put == NextTo(L, R, L.cell[l].col, R.cell[r].col, leftleaf, rightleaf)
           b == Both(Shifted(L.cell, put.left), Shifted(R.cell, put.right))
           sum == [cell |-> b, rows |-> Larger(L.rows, R.rows), cols |-> put.cols]
           col == IF drawing.type = "Medium" THEN (b[l].col + b[r].col) \div 2
                  ELSE (put.cols - 2) \div 2
           cols == Larger(2, put.cols)
           g == Above(n, b, col, cols, 1 + Larger(L.rows, R.rows))
<1>1. OverTwo(n, L, R, l, r) = g
  BY DEF OverTwo
<1>2. /\ l \in ToSet(kids) /\ r \in ToSet(kids) /\ l # r /\ kids # <<>>
      /\ \A c : c \in ToSet(kids) <=> c = l \/ c = r
  <2>1. DOMAIN kids = {1, 2} /\ kids # <<>>
    OBVIOUS
  <2>2. ToSet(kids) = {kids[1], kids[2]}
    <3> HIDE DEF kids
    <3> QED
      BY <2>1 DEF ToSet
  <2>3. kids[1] # kids[2]
    BY <2>1 DEF IsInjective
  <2> QED
    BY <2>1, <2>2, <2>3
<1> HIDE DEF kids
<1>3. /\ Top(Nodes, L, l) /\ (leftleaf => Leaf(L, l))
      /\ Top(Nodes, R, r) /\ (rightleaf => Leaf(R, r))
      /\ DOMAIN L.cell \cap DOMAIN R.cell = {}
      /\ n \notin DOMAIN L.cell /\ n \notin DOMAIN R.cell
  BY <1>2 DEF Ready, kids
<1> HIDE DEF l, r, L, R
<1>4. leftleaf \in BOOLEAN /\ rightleaf \in BOOLEAN
  OBVIOUS
<1> HIDE DEF leftleaf, rightleaf
<1>5. Fit(L, R, put)
  BY <1>3, <1>4, NextToFits
<1> HIDE DEF put
<1>6. /\ Under(Nodes, sum) /\ DOMAIN sum.cell = DOMAIN L.cell \cup DOMAIN R.cell
      /\ sum.cols = put.cols /\ sum.rows = Larger(L.rows, R.rows) /\ sum.cell = b
  <2>1. sum.cell = b /\ sum = [cell |-> b, rows |-> Larger(L.rows, R.rows), cols |-> put.cols]
    OBVIOUS
  <2> HIDE DEF b
  <2>2. /\ Under(Nodes, sum) /\ DOMAIN sum.cell = DOMAIN L.cell \cup DOMAIN R.cell
        /\ sum.cols = put.cols /\ sum.rows = Larger(L.rows, R.rows)
    <3>1. sum = Two(L, R, put)
      BY DEF b, Two
    <3> HIDE DEF sum
    <3>2. UnderTwo(Nodes, L, R, put)
      BY <1>3, <1>5, TwoUnder
    <3> QED
      BY <3>1, <3>2 DEF UnderTwo
  <2> QED
    BY <2>1, <2>2
<1> HIDE DEF b
<1>7. put.cols \in Nat /\ sum.rows \in Nat /\ sum.cols \in Nat
  <2>1. sum \in LayoutOf(Nodes)
    BY <1>6 DEF Under
  <2>2. sum.cols \in Nat /\ sum.rows \in Nat
    <3> HIDE DEF sum
    <3> QED
      BY <2>1, LayoutsAre
  <2> QED
    BY <2>2
<1>8. cols \in Nat /\ 2 <= cols /\ put.cols <= cols
  BY <1>7 DEF Larger
<1> HIDE DEF sum
<1>9. /\ b[l].col \in Nat /\ b[l].col + 2 <= put.cols
      /\ b[r].col \in Nat /\ b[r].col + 2 <= put.cols
  <2>1. l \in DOMAIN sum.cell /\ r \in DOMAIN sum.cell
    BY <1>3, <1>6 DEF Top
  <2>2. sum.cell[l].col + 2 <= sum.cols /\ sum.cell[r].col + 2 <= sum.cols /\ sum \in LayoutOf(Nodes)
    BY <1>6, <2>1 DEF Under
  <2>3. sum.cell[l] \in Cell /\ sum.cell[r] \in Cell
    BY <2>1, <2>2, LayoutsAre
  <2> QED
    BY <1>6, <2>2, <2>3 DEF Cell
<1>10. col \in Nat /\ col + 2 <= cols
  <2>1. CASE drawing.type = "Medium"
    <3>1. col = (b[l].col + b[r].col) \div 2
      BY <2>1
    <3> HIDE DEF col, cols
    <3> QED
      BY <1>7, <1>8, <1>9, <3>1, Middle
  <2>2. CASE drawing.type # "Medium"
    <3>1. col = (put.cols - 2) \div 2 /\ 2 <= put.cols
      BY <1>7, <1>9, <2>2
    <3> HIDE DEF col, cols
    <3> QED
      BY <1>7, <1>8, <3>1
  <2> QED
    BY <2>1, <2>2
<1>11. g = Above(n, sum.cell, col, cols, 1 + sum.rows)
  BY <1>6
<1> HIDE DEF col, cols, g
<1>12. n \notin DOMAIN sum.cell
  BY <1>3, <1>6
<1>13. Top(Nodes, g, n) /\ DOMAIN g.cell = {n} \cup DOMAIN sum.cell
  <2>1. sum.cols <= cols /\ 1 + sum.rows \in Nat /\ n \in Nodes \ DOMAIN sum.cell
    BY <1>6, <1>7, <1>8, <1>12
  <2> QED
    <3> DEFINE rows == 1 + sum.rows
    <3>1. rows \in Nat /\ rows = 1 + sum.rows
      BY <2>1
    <3> HIDE DEF rows
    <3>2. /\ Top(Nodes, Above(n, sum.cell, col, cols, rows), n)
          /\ DOMAIN Above(n, sum.cell, col, cols, rows).cell = {n} \cup DOMAIN sum.cell
      <4>1. Under(Nodes, sum) /\ n \in Nodes \ DOMAIN sum.cell /\ col \in Nat /\ cols \in Nat
            /\ col + 2 <= cols /\ sum.cols <= cols
        BY <1>6, <1>8, <1>10, <2>1
      <4> QED
        BY <3>1, <4>1, AboveTop
    <3> QED
      BY <1>11, <3>1, <3>2
<1>14. \A m : m \in DOMAIN g.cell <=> m = n \/ \E c \in ToSet(kids) : m \in DOMAIN layouts[c].cell
  BY <1>2, <1>6, <1>13 DEF L, R
<1>15. TopOf(n, layouts, g)
  BY <1>2, <1>13, <1>14 DEF TopOf, kids
<1> QED
  BY <1>1, <1>15 DEF L, R, l, r, kids

LEMMA LayoutFromIs ==
  ASSUME NEW n \in Nodes, children[n] \in Seq(Nodes), IsInjective(children[n]), NEW layouts,
         Ready(Nodes, ToSet(children[n]), layouts),
         \A c \in ToSet(children[n]) : n \notin DOMAIN layouts[c].cell
  PROVE  TopOf(n, layouts, LayoutFrom(n, layouts))
<1>1. CASE Len(children[n]) = 2 /\ drawing.type # "Wide"
  <2>1. LayoutFrom(n, layouts) = OverTwo(n, layouts[children[n][1]], layouts[children[n][2]],
                                         children[n][1], children[n][2])
    BY <1>1 DEF LayoutFrom
  <2> QED
    BY <1>1, <2>1, OverTwoIs
<1>2. CASE ~(Len(children[n]) = 2 /\ drawing.type # "Wide")
  <2>1. LayoutFrom(n, layouts) = InARow(n, children[n], layouts)
    BY <1>2 DEF LayoutFrom
  <2> QED
    BY <2>1, InARowIs
<1> QED
  BY <1>1, <1>2
-----------------------------------------------------------------------------
(* A node is a child of one node. *)
LEMMA ParentIsOne ==
  ASSUME NEW N, NEW root, NEW put, NEW kids, TreeOK(N, root, put, kids),
         NEW p \in N, NEW q \in N, NEW c, c \in ToSet(kids[p]), c \in ToSet(kids[q])
  PROVE  p = q
<1>1. PICK k \in DOMAIN kids[p] : kids[p][k] = c
  BY DEF ToSet
<1>2. PICK l \in DOMAIN kids[q] : kids[q][l] = c
  BY DEF ToSet
<1> QED
  BY <1>1, <1>2 DEF TreeOK

(* The children of a node are behind it in the order.                       *)
LEMMA ChildrenBehind ==
  ASSUME NEW N, NEW root, NEW put, NEW kids, TreeOK(N, root, put, kids),
         NEW i \in DOMAIN put, NEW c \in ToSet(kids[put[i]])
  PROVE  \E j \in DOMAIN put : i < j /\ put[j] = c
<1>1. /\ put \in Seq(N) /\ Len(put) \in Nat /\ DOMAIN put = 1 .. Len(put) /\ put[1] = root
      /\ IsInjective(put) /\ kids \in [N -> Seq(N)]
  BY DEF TreeOK
<1>2. put[i] \in N
  BY <1>1
<1>3. PICK j \in DOMAIN put : put[j] = c /\ c # root
  <2>1. c \in ToSet(put) \ {root}
    BY <1>2 DEF TreeOK
  <2> QED
    BY <2>1 DEF ToSet
<1>4. PICK h \in 1 .. j - 1 : c \in ToSet(kids[put[h]])
  <2>1. j # 1
    BY <1>1, <1>3
  <2> QED
    BY <1>3, <2>1 DEF TreeOK
<1>5. h \in DOMAIN put /\ put[h] \in N
  BY <1>1
<1>6. put[h] = put[i]
  BY <1>2, <1>4, <1>5, ParentIsOne
<1>7. h = i
  BY <1>1, <1>5, <1>6 DEF IsInjective
<1> QED
  BY <1>1, <1>3, <1>7

LEMMA ChildrenOnce ==
  ASSUME NEW N, NEW root, NEW put, NEW kids, TreeOK(N, root, put, kids), NEW p \in N
  PROVE  kids[p] \in Seq(N) /\ IsInjective(kids[p])
<1>1. kids[p] \in Seq(N)
  BY DEF TreeOK
<1>2. \A k, l \in DOMAIN kids[p] : kids[p][k] = kids[p][l] => k = l
  BY DEF TreeOK
<1> QED
  BY <1>1, <1>2 DEF IsInjective

(* The tree of all nodes. *)
Settled ==
  /\ TreeOK(Nodes, drawing.root, order, children) /\ ToSet(order) = Nodes
  /\ Nodes \subseteq Nat

(* The last k nodes of the order. *)
Behind(k) == {order[i] : i \in (Len(order) + 1 - k) .. Len(order)}

(* g is the layout of a node and all below it, which are in P.              *)
Below(P, n, g) ==
  /\ Top(Nodes, g, n) /\ (children[n] = <<>> => Leaf(g, n))
  /\ DOMAIN g.cell \subseteq P
  /\ \A x \in DOMAIN g.cell \ {n} : \E p \in DOMAIN g.cell : x \in ToSet(children[p])
  /\ \A p \in DOMAIN g.cell : ToSet(children[p]) \subseteq DOMAIN g.cell

(* The layouts of the nodes in P: what is below two of them is apart, or    *)
(* one is below the other.                                                  *)
LaidOut(P, layouts) ==
  /\ layouts \in [P -> LayoutOf(Nodes)] /\ P \subseteq Nodes
  /\ \A n \in P : Below(P, n, layouts[n])
  /\ \A a, b \in P : \/ DOMAIN layouts[a].cell \cap DOMAIN layouts[b].cell = {}
                     \/ a \in DOMAIN layouts[b].cell \/ b \in DOMAIN layouts[a].cell

LEMMA LaidOutMore ==
  ASSUME Settled, NEW P, NEW layouts, LaidOut(P, layouts),
         NEW n \in Nodes \ P, ToSet(children[n]) \subseteq P
  PROVE  LaidOut(P \cup {n}, Both([m \in {n} |-> LayoutFrom(n, layouts)], layouts))
<1> DEFINE kids == children[n]
           g == LayoutFrom(n, layouts)
           h == Both([m \in {n} |-> g], layouts)
           D(a) == DOMAIN layouts[a].cell
<1>1. kids \in Seq(Nodes) /\ IsInjective(kids)
  BY ChildrenOnce DEF Settled
<1>2. \A p, q \in Nodes : \A c : c \in ToSet(children[p]) /\ c \in ToSet(children[q]) => p = q
  BY ParentIsOne DEF Settled
<1>3. /\ P \subseteq Nodes /\ n \notin P
      /\ \A a \in P : D(a) \subseteq P /\ a \in D(a) /\ Top(Nodes, layouts[a], a)
  BY DEF LaidOut, Below, Top
<1>4. \A a \in P : \A x \in D(a) \ {a} : \E p \in D(a) : x \in ToSet(children[p])
  BY DEF LaidOut, Below
<1>5. \A c \in ToSet(kids), b \in P : c \in D(b) => c = b
  <2> SUFFICES ASSUME NEW c \in ToSet(kids), NEW b \in P, c \in D(b), c # b PROVE FALSE
    OBVIOUS
  <2>1. PICK p \in D(b) : c \in ToSet(children[p])
    BY <1>4
  <2>2. p \in P
    BY <1>3
  <2> QED
    BY <1>2, <1>3, <2>1, <2>2
<1>6. Ready(Nodes, ToSet(kids), layouts) /\ \A c \in ToSet(kids) : n \notin D(c)
  <2>1. \A c \in ToSet(kids) : Top(Nodes, layouts[c], c) /\ (children[c] = <<>> => Leaf(layouts[c], c))
    BY DEF LaidOut, Below
  <2>2. ASSUME NEW c \in ToSet(kids), NEW e \in ToSet(kids), c # e PROVE D(c) \cap D(e) = {}
    <3>1. c \in P /\ e \in P
      OBVIOUS
    <3>2. D(c) \cap D(e) = {} \/ c \in D(e) \/ e \in D(c)
      BY <3>1 DEF LaidOut
    <3> QED
      BY <1>5, <2>2, <3>1, <3>2
  <2> QED
    BY <1>3, <2>1, <2>2 DEF Ready
<1>7. TopOf(n, layouts, g)
  BY <1>1, <1>6, LayoutFromIs
<1> HIDE DEF g
<1>8. /\ DOMAIN h = P \cup {n} /\ h[n] = g /\ \A a \in P : h[a] = layouts[a]
      /\ h \in [P \cup {n} -> LayoutOf(Nodes)]
  <2>1. g \in LayoutOf(Nodes)
    BY <1>7 DEF TopOf, Top
  <2> QED
    BY <1>3, <2>1 DEF Both, LaidOut
<1> HIDE DEF h
<1>9. /\ \A x : x \in DOMAIN g.cell <=> x = n \/ \E c \in ToSet(kids) : x \in D(c)
      /\ Top(Nodes, g, n) /\ (kids = <<>> => Leaf(g, n))
  BY <1>7 DEF TopOf
<1>10. Below(P \cup {n}, n, g)
  <2>1. DOMAIN g.cell \subseteq P \cup {n}
    BY <1>3, <1>9
  <2>2. ASSUME NEW x \in DOMAIN g.cell \ {n}
        PROVE  \E p \in DOMAIN g.cell : x \in ToSet(children[p])
    <3>1. PICK c \in ToSet(kids) : x \in D(c)
      BY <1>9
    <3>2. CASE x = c
      BY <1>9, <3>2
    <3>3. CASE x # c
      <4>1. PICK p \in D(c) : x \in ToSet(children[p])
        BY <1>4, <3>1, <3>3
      <4> QED
        BY <1>9, <4>1
    <3> QED
      BY <3>2, <3>3
  <2>3. ASSUME NEW p \in DOMAIN g.cell PROVE ToSet(children[p]) \subseteq DOMAIN g.cell
    <3>1. CASE p = n
      BY <1>3, <1>9, <3>1
    <3>2. CASE p # n
      <4>1. PICK c \in ToSet(kids) : p \in D(c)
        BY <1>9, <3>2
      <4>2. ToSet(children[p]) \subseteq D(c)
        BY <4>1 DEF LaidOut, Below
      <4> QED
        BY <1>9, <4>2
    <3> QED
      BY <3>1, <3>2
  <2> QED
    BY <1>9, <2>1, <2>2, <2>3 DEF Below
<1>11. \A a \in P : Below(P \cup {n}, a, layouts[a])
  BY DEF LaidOut, Below
<1>12. ASSUME NEW b \in P
       PROVE  DOMAIN g.cell \cap D(b) = {} \/ b \in DOMAIN g.cell
  <2> SUFFICES ASSUME NEW x \in DOMAIN g.cell, x \in D(b) PROVE b \in DOMAIN g.cell
    OBVIOUS
  <2>1. x # n
    BY <1>3
  <2>2. PICK c \in ToSet(kids) : x \in D(c)
    BY <1>9, <2>1
  <2>3. D(c) \cap D(b) = {} \/ c \in D(b) \/ b \in D(c)
    BY DEF LaidOut
  <2>4. b \in D(c)
    BY <1>3, <1>5, <2>2, <2>3
  <2> QED
    BY <1>9, <2>4
<1>13. \A a, b \in P \cup {n} : \/ DOMAIN h[a].cell \cap DOMAIN h[b].cell = {}
                                \/ a \in DOMAIN h[b].cell \/ b \in DOMAIN h[a].cell
  <2> SUFFICES ASSUME NEW a \in P \cup {n}, NEW b \in P \cup {n}
               PROVE  \/ DOMAIN h[a].cell \cap DOMAIN h[b].cell = {}
                      \/ a \in DOMAIN h[b].cell \/ b \in DOMAIN h[a].cell
    OBVIOUS
  <2>1. CASE a = n /\ b = n
    BY <1>8, <1>9, <2>1
  <2>2. CASE a = n /\ b \in P
    BY <1>8, <1>12, <2>2
  <2>3. CASE a \in P /\ b = n
    BY <1>8, <1>12, <2>3
  <2>4. CASE a \in P /\ b \in P
    BY <1>8, <2>4 DEF LaidOut
  <2> QED
    BY <2>1, <2>2, <2>3, <2>4
<1>14. LaidOut(P \cup {n}, h)
  <2>1. P \cup {n} \subseteq Nodes
    BY <1>3
  <2>2. \A a \in P \cup {n} : Below(P \cup {n}, a, h[a])
    BY <1>8, <1>10, <1>11
  <2> QED
    BY <1>8, <1>13, <2>1, <2>2 DEF LaidOut
<1> QED
  BY <1>14 DEF h, g

(* The last nodes of the order, one more at a time. *)
LEMMA BehindMore ==
  ASSUME Settled, NEW k \in 1 .. Len(order)
  PROVE  /\ order[Len(order) + 1 - k] \in Nodes \ Behind(k - 1)
         /\ Behind(k) = Behind(k - 1) \cup {order[Len(order) + 1 - k]}
         /\ ToSet(children[order[Len(order) + 1 - k]]) \subseteq Behind(k - 1)
<1> DEFINE K == Len(order)
           i == K + 1 - k
           n == order[i]
<1>1. /\ order \in Seq(Nodes) /\ K \in Nat /\ DOMAIN order = 1 .. K /\ IsInjective(order)
      /\ TreeOK(Nodes, drawing.root, order, children)
  BY DEF Settled, TreeOK
<1>2. i \in DOMAIN order /\ i \in 1 .. K /\ k \in Int
  BY <1>1
<1>3. n \in Nodes
  BY <1>1, <1>2
<1>4. K + 1 - (k - 1) = i + 1 /\ i + 1 \in Nat /\ i \in Nat
  BY <1>1, <1>2
<1>5. Behind(k) = {order[j] : j \in i .. K} /\ Behind(k - 1) = {order[j] : j \in (i + 1) .. K}
  BY <1>4 DEF Behind
<1> HIDE DEF K, i
<1>6. n \notin {order[j] : j \in (i + 1) .. K}
  BY <1>1, <1>2, <1>4 DEF IsInjective
<1>7. \A j : j \in i .. K <=> j = i \/ j \in (i + 1) .. K
  BY <1>1, <1>2, <1>4
<1>8. ToSet(children[n]) \subseteq {order[j] : j \in (i + 1) .. K}
  <2> SUFFICES ASSUME NEW c \in ToSet(children[order[i]])
               PROVE  \E j \in (i + 1) .. K : c = order[j]
    OBVIOUS
  <2>1. PICK j \in DOMAIN order : i < j /\ order[j] = c
    <3>1. TreeOK(Nodes, drawing.root, order, children) /\ i \in DOMAIN order
      BY <1>1, <1>2
    <3> QED
      BY <3>1, ChildrenBehind
  <2>2. j \in (i + 1) .. K
    BY <1>1, <1>4, <2>1
  <2> QED
    BY <2>1, <2>2
<1>9. {order[j] : j \in i .. K} = {order[j] : j \in (i + 1) .. K} \cup {n}
  BY <1>7
<1> QED
  BY <1>3, <1>5, <1>6, <1>8, <1>9 DEF i, K

LEMMA LayoutsIs == ASSUME Settled PROVE LaidOut(Nodes, Layouts)
<1> DEFINE K == Len(order)
           S == UNION {[Q -> LayoutOf(Nodes)] : Q \in SUBSET Nodes}
           None == [n \in {} |-> NoGrid]
           n(k) == order[Len(order) + 1 - k]
           More(x, k) == Both([m \in {n(k)} |-> LayoutFrom(n(k), x)], x)
           adds == [k \in (0 .. K) \ {0} |->
                      [x \in S |-> IF LaidOut(Behind(k - 1), x) THEN More(x, k) ELSE x]]
           last[k \in 0 .. Len(order)] == IF k = 0 THEN None ELSE More(last[k - 1], k)
<1>0. Layouts = last[K]
  BY DEF Layouts, last, K
<1> HIDE DEF last
<1>1. K \in Nat /\ LaidOut(Behind(0), None)
  <2>1. K \in Nat
    BY DEF Settled, TreeOK
  <2>2. Behind(0) = {}
    BY <2>1 DEF Behind
  <2>3. DOMAIN None = {}
    OBVIOUS
  <2> QED
    BY <2>1, <2>2, <2>3 DEF LaidOut
<1>2. \A P, x : LaidOut(P, x) => x \in S
  <2> SUFFICES ASSUME NEW P, NEW x, LaidOut(P, x) PROVE x \in S
    OBVIOUS
  <2>1. x \in [P -> LayoutOf(Nodes)] /\ P \in SUBSET Nodes
    BY DEF LaidOut
  <2> QED
    BY <2>1
<1> HIDE DEF S, K
<1>3. ASSUME NEW k \in 1 .. K, NEW x, LaidOut(Behind(k - 1), x)
      PROVE  LaidOut(Behind(k), More(x, k))
  <2>1. /\ n(k) \in Nodes \ Behind(k - 1) /\ Behind(k) = Behind(k - 1) \cup {n(k)}
        /\ ToSet(children[n(k)]) \subseteq Behind(k - 1)
    BY BehindMore DEF K
  <2> HIDE DEF n
  <2> QED
    BY <1>3, <2>1, LaidOutMore
<1>4. \A k : k \in (0 .. K) \ {0} => k \in 1 .. K /\ k - 1 \in 0 .. K
  BY <1>1
<1> HIDE DEF More, None
<1>5. PICK f : General!Follows(f, 0, K, S, None, adds)
  <2>1. \A x \in S, k \in (0 .. K) \ {0} :
          (IF LaidOut(Behind(k - 1), x) THEN More(x, k) ELSE x) \in S
    BY <1>2, <1>3, <1>4
  <2>2. General!Steps(adds, 0, K, S)
    BY <2>1 DEF General!Steps
  <2>3. 0 \in Int /\ K \in Int /\ 0 <= K /\ None \in S
    BY <1>1, <1>2
  <2> HIDE DEF adds
  <2> QED
    BY <2>2, <2>3, General!Recursion
<1>6. f \in [0 .. K -> S] /\ f[0] = None
  <2> HIDE DEF adds
  <2> QED
    BY <1>5 DEF General!Follows
<1>7. ASSUME NEW k \in (0 .. K) \ {0}
      PROVE  /\ f[k] = IF LaidOut(Behind(k - 1), f[k - 1]) THEN More(f[k - 1], k) ELSE f[k - 1]
             /\ f[k - 1] \in S
  <2>1. f[k] = adds[k][f[k - 1]]
    <3> HIDE DEF adds
    <3> QED
      BY <1>5 DEF General!Follows
  <2>2. f[k - 1] \in S
    BY <1>4, <1>6
  <2> QED
    BY <2>1, <2>2
<1> HIDE DEF adds
<1> DEFINE G == {k \in 0 .. K : LaidOut(Behind(k), f[k])}
<1>8. 0 .. K \subseteq G
  <2>1. 0 \in G
    BY <1>1, <1>6
  <2>2. ASSUME NEW k \in 0 .. K, k # 0, k - 1 \in G PROVE k \in G
    BY <1>3, <1>4, <1>7, <2>2
  <2>3. 0 \in Int /\ K \in Int
    BY <1>1
  <2> HIDE DEF G
  <2> QED
    BY <2>1, <2>2, <2>3, General!IntervalInduction
<1>9. \A k \in 0 .. K : f[k] = IF k = 0 THEN None ELSE More(f[k - 1], k)
  BY <1>4, <1>6, <1>7, <1>8
<1>10. f = [k \in 0 .. Len(order) |-> IF k = 0 THEN None ELSE More(f[k - 1], k)]
  BY <1>6, <1>9 DEF K
<1>11. last = [k \in 0 .. Len(order) |-> IF k = 0 THEN None ELSE More(last[k - 1], k)]
  BY <1>10, Zenon DEF last
<1>12. /\ last[0] = None /\ \A k \in (0 .. K) \ {0} : last[k] = More(last[k - 1], k)
  <2>1. ASSUME NEW k \in 0 .. Len(order)
        PROVE  last[k] = IF k = 0 THEN None ELSE More(last[k - 1], k)
    BY <1>11, Zenon
  <2>2. 0 \in 0 .. Len(order)
    BY <1>1 DEF K
  <2> QED
    BY <2>1, <2>2 DEF K
<1> DEFINE H == {k \in 0 .. K : LaidOut(Behind(k), last[k])}
<1>13. 0 .. K \subseteq H
  <2>1. 0 \in H
    BY <1>1, <1>12
  <2>2. ASSUME NEW k \in 0 .. K, k # 0, k - 1 \in H PROVE k \in H
    BY <1>3, <1>4, <1>12, <2>2
  <2>3. 0 \in Int /\ K \in Int
    BY <1>1
  <2> HIDE DEF H
  <2> QED
    BY <2>1, <2>2, <2>3, General!IntervalInduction
<1>14. LaidOut(Behind(K), last[K])
  BY <1>1, <1>13
<1>15. Behind(K) = Nodes
  <2>1. Len(order) + 1 - Len(order) = 1 /\ DOMAIN order = 1 .. Len(order)
    BY <1>1 DEF K, Settled, TreeOK
  <2> QED
    BY <2>1 DEF Behind, K, Settled, ToSet
<1> QED
  BY <1>0, <1>14, <1>15

(* All nodes are below the root. *)
LEMMA AllBelow ==
  ASSUME Settled, NEW D, drawing.root \in D,
         \A p \in D : ToSet(children[p]) \subseteq D
  PROVE  Nodes \subseteq D
<1> DEFINE K == Len(order)
           G == {i \in 1 .. K : \A j \in 1 .. i : order[j] \in D}
<1>1. /\ K \in Nat /\ DOMAIN order = 1 .. K /\ order # <<>> /\ order[1] = drawing.root
      /\ \A i \in 1 .. K : i # 1 => \E j \in 1 .. i - 1 : order[i] \in ToSet(children[order[j]])
  BY DEF Settled, TreeOK
<1>2. K >= 1
  BY <1>1
<1> HIDE DEF K
<1>3. 1 \in G
  BY <1>1, <1>2
<1>4. ASSUME NEW i \in 1 .. K, i # 1, i - 1 \in G PROVE i \in G
  <2>1. PICK j \in 1 .. i - 1 : order[i] \in ToSet(children[order[j]])
    BY <1>1, <1>4
  <2>2. order[j] \in D
    BY <1>4
  <2>3. order[i] \in D
    BY <2>1, <2>2
  <2>4. \A h \in 1 .. i : h \in 1 .. i - 1 \/ h = i
    BY <1>1
  <2> QED
    BY <1>4, <2>3, <2>4
<1>5. 1 .. K \subseteq G
  <2>1. 1 \in Int /\ K \in Int
    BY <1>1
  <2> HIDE DEF G
  <2> QED
    BY <2>1, <1>3, <1>4, General!IntervalInduction
<1>6. \A i \in 1 .. K : order[i] \in D
  BY <1>1, <1>5
<1> QED
  BY <1>1, <1>6 DEF Settled, ToSet

(* The grid of all nodes. *)
GridOK == Top(Nodes, grid, drawing.root) /\ DOMAIN grid.cell = Nodes

LEMMA ArrangeGrid == ASSUME TreeInv, Arrange PROVE GridOK'
<1> DEFINE g == Layouts[drawing.root]
           rest == [n \in Nodes |-> [row |-> 0, col |-> 0]]
<1>1. /\ UNCHANGED tree /\ step = "acyclic" /\ grid' = [g EXCEPT !.cell = Both(@, rest)]
  BY DEF Arrange
<1>2. Settled
  <2>1. ToSet(order) = Nodes /\ queue = <<>>
    BY ArrangeTree
  <2>2. TreeOK(Nodes, drawing.root, order \o queue, children) /\ order \in Seq(Nodes)
    BY <1>1 DEF TreeInv, Spanning
  <2>3. order \o queue = order
    BY <2>1, <2>2
  <2>4. Nodes \subseteq Nat
    BY <1>1, VisitedIs
  <2> QED
    BY <2>1, <2>2, <2>3, <2>4 DEF Settled
<1>3. drawing.root \in Nodes
  BY <1>1 DEF TreeInv, Spanning, DrawingOK, Nodes
<1>4. LaidOut(Nodes, Layouts)
  BY <1>2, LayoutsIs
<1> HIDE DEF g, rest
<1>5. Below(Nodes, drawing.root, g)
  BY <1>3, <1>4 DEF LaidOut, g
<1>6. Top(Nodes, g, drawing.root) /\ g \in LayoutOf(Nodes)
  BY <1>5 DEF Below, Top
<1>7. DOMAIN g.cell = Nodes
  <2>1. drawing.root \in DOMAIN g.cell /\ \A p \in DOMAIN g.cell : ToSet(children[p]) \subseteq DOMAIN g.cell
    BY <1>5, <1>6 DEF Below, Top
  <2>2. Nodes \subseteq DOMAIN g.cell
    BY <1>2, <2>1, AllBelow
  <2> QED
    BY <1>5, <2>2 DEF Below
<1>8. Both(g.cell, rest) = g.cell
  <2>1. g.cell \in [Nodes -> Cell] /\ DOMAIN rest = Nodes
    <3>1. g.cell \in CellsOf(Nodes)
      BY <1>6, LayoutsAre
    <3> QED
      BY <1>7, <3>1, CellsAre DEF rest
  <2> QED
    BY <2>1 DEF Both
<1>9. grid' = g
  <2>1. g \in [cell : CellsOf(Nodes), rows : Nat, cols : Nat]
    BY <1>6 DEF LayoutOf
  <2> QED
    BY <1>1, <1>8, <2>1
<1>10. Nodes' = Nodes /\ drawing' = drawing
  BY <1>1 DEF tree, Nodes
<1> QED
  BY <1>6, <1>7, <1>9, <1>10 DEF GridOK
-----------------------------------------------------------------------------
(* Marks in the lanes of a grid, with indices up to a number.               *)
Bound(marks, rows, cols, b) ==
  \A m \in marks : m[1] \in 0 .. rows /\ m[2] \in 0 .. cols /\ m[3] \in 0 .. b

LanesOK(marks, rows, cols) == \E b \in Nat : Bound(marks, rows, cols, b)

LEMMA LeastOfIs ==
  ASSUME NEW S \in SUBSET Nat, S # {}
  PROVE  LeastOf(S) \in S /\ \A b \in S : LeastOf(S) <= b
<1>1. \E a \in S : \A b \in S : a <= b
  BY General!LeastElement
<1> QED
  BY <1>1 DEF LeastOf

(* There is an index that is free in all of the cells, and no lower one is. *)
LEMMA FreeIndexIs ==
  ASSUME NEW marks, NEW rows, NEW cols, NEW N, NEW M, LanesOK(marks, N, M)
  PROVE  /\ FreeIndex(marks, rows, cols) \in Nat
         /\ \A r \in rows, c \in cols : <<r, c, FreeIndex(marks, rows, cols)>> \notin marks
         /\ \A i \in Nat : i < FreeIndex(marks, rows, cols)
                          => \E r \in rows, c \in cols : <<r, c, i>> \in marks
<1> DEFINE I == {m[3] : m \in marks}
           K == Cardinality(I)
           F == {i \in 0 .. K : \A r \in rows, c \in cols : <<r, c, i>> \notin marks}
<1>1. PICK b \in Nat : \A m \in marks : m[3] \in 0 .. b
  BY DEF LanesOK, Bound
<1>2. IsFiniteSet(I) /\ K \in Nat
  <2>1. I \subseteq 0 .. b
    BY <1>1
  <2>2. IsFiniteSet(0 .. b)
    BY FS_Interval
  <2> HIDE DEF I
  <2> QED
    BY <2>1, <2>2, FS_Subset, FS_CardinalityType
<1>3. \E i \in 0 .. K : i \notin I
  <2> SUFFICES ASSUME 0 .. K \subseteq I PROVE FALSE
    OBVIOUS
  <2> HIDE DEF I
  <2>1. Cardinality(0 .. K) <= K
    BY <1>2, FS_Subset
  <2> HIDE DEF K
  <2>2. Cardinality(0 .. K) = K + 1
    <3>1. 0 \in Int /\ K \in Int /\ ~(0 > K)
      BY <1>2
    <3>2. Cardinality(0 .. K) = IF 0 > K THEN 0 ELSE K - 0 + 1
      BY <3>1, FS_Interval
    <3> QED
      BY <1>2, <3>1, <3>2
  <2> QED
    BY <1>2, <2>1, <2>2
<1>4. PICK i \in 0 .. K : i \notin I
  BY <1>3
<1>5. \A r, c : <<r, c, i>> \notin marks
  BY <1>4
<1> HIDE DEF K
<1>6. i \in F
  BY <1>5
<1>7. F \in SUBSET Nat
  BY <1>2
<1>8. FreeIndex(marks, rows, cols) = LeastOf(F)
  BY DEF FreeIndex, K
<1>9. LeastOf(F) \in F /\ \A j \in F : LeastOf(F) <= j
  <2> HIDE DEF F
  <2> QED
    BY <1>6, <1>7, LeastOfIs
<1>10. ASSUME NEW j \in Nat, j < LeastOf(F)
       PROVE  \E r \in rows, c \in cols : <<r, c, j>> \in marks
  <2>1. LeastOf(F) \in 0 .. K /\ K \in Nat
    BY <1>2, <1>9 DEF K
  <2>2. j \notin F
    <3> DEFINE L == LeastOf(F)
    <3>1. L \in Nat /\ j < L /\ \A i0 \in F : L <= i0
      BY <1>9, <1>10, <2>1
    <3> HIDE DEF L, F
    <3> QED
      BY <3>1
  <2>3. j \in 0 .. K
    BY <1>10, <2>1
  <2> QED
    BY <2>2, <2>3
<1> DEFINE L == LeastOf(F)
<1>11. /\ L \in Nat /\ \A r \in rows, c \in cols : <<r, c, L>> \notin marks
       /\ \A j \in Nat : j < L => \E r \in rows, c \in cols : <<r, c, j>> \in marks
  BY <1>2, <1>9, <1>10
<1>12. FreeIndex(marks, rows, cols) = L
  BY <1>8
<1> HIDE DEF L
<1> QED
  BY <1>11, <1>12

LEMMA LanesMore ==
  ASSUME NEW marks, NEW N, NEW M, LanesOK(marks, N, M),
         NEW rows, NEW cols, rows \subseteq 0 .. N, cols \subseteq 0 .. M, NEW i \in Nat
  PROVE  LanesOK(marks \cup Lane(rows, cols, i), N, M)
<1>1. PICK b \in Nat : Bound(marks, N, M, b)
  BY DEF LanesOK
<1>2. PICK d \in Nat : b <= d /\ i <= d
  <2>1. b <= b + i /\ i <= b + i /\ b + i \in Nat
    OBVIOUS
  <2> QED
    BY <2>1
<1>3. Bound(marks, N, M, d)
  BY <1>1, <1>2 DEF Bound
<1>4. Bound(Lane(rows, cols, i), N, M, d)
  BY <1>2 DEF Bound, Lane
<1>5. Bound(marks \cup Lane(rows, cols, i), N, M, d)
  <2> DEFINE L == Lane(rows, cols, i)
  <2>1. Bound(L, N, M, d)
    BY <1>4
  <2> HIDE DEF L
  <2>2. Bound(marks \cup L, N, M, d)
    BY <1>3, <2>1, Zenon DEF Bound
  <2> QED
    BY <2>2 DEF L
<1> QED
  BY <1>5 DEF LanesOK

LEMMA LanesOne ==
  ASSUME NEW marks, NEW N, NEW M, LanesOK(marks, N, M),
         NEW r \in 0 .. N, NEW c \in 0 .. M, NEW i \in Nat
  PROVE  LanesOK(marks \cup {<<r, c, i>>}, N, M)
<1>1. Lane({r}, {c}, i) = {<<r, c, i>>}
  BY DEF Lane
<1>2. {r} \subseteq 0 .. N /\ {c} \subseteq 0 .. M
  OBVIOUS
<1> QED
  BY <1>1, <1>2, LanesMore

(* The cells of the nodes, as numbers. *)
LEMMA GridIs ==
  ASSUME GridOK
  PROVE  /\ grid \in LayoutOf(Nodes) /\ grid.rows \in Nat /\ grid.cols \in Nat
         /\ \A n \in Nodes : /\ grid.cell[n].row \in 0 .. grid.rows - 1
                             /\ grid.cell[n].col \in 0 .. grid.cols - 2
         /\ CellsApart(grid.cell) /\ DOMAIN grid.cell = Nodes
<1>1. /\ grid \in LayoutOf(Nodes) /\ DOMAIN grid.cell = Nodes /\ CellsApart(grid.cell)
      /\ \A n \in Nodes : grid.cell[n].row + 1 <= grid.rows /\ grid.cell[n].col + 2 <= grid.cols
  BY DEF GridOK, Top
<1>2. grid.rows \in Nat /\ grid.cols \in Nat /\ \A n \in Nodes : grid.cell[n] \in Cell
  BY <1>1, LayoutsAre
<1>3. ASSUME NEW n \in Nodes
      PROVE  grid.cell[n].row \in 0 .. grid.rows - 1 /\ grid.cell[n].col \in 0 .. grid.cols - 2
  <2>1. grid.cell[n].row \in Nat /\ grid.cell[n].col \in Nat
    BY <1>2 DEF Cell
  <2> QED
    BY <1>1, <1>2, <2>1
<1> QED
  BY <1>1, <1>2, <1>3

(* There is a column to route an edge in: the lane of the first one is left *)
(* of all nodes.                                                            *)
LEMMA RouteColumnIs ==
  ASSUME GridOK, NEW from \in 0 .. grid.cols, NEW to \in 0 .. grid.cols,
         NEW minrow \in Nat, NEW maxrow \in Nat
  PROVE  /\ RouteColumn(from, to, minrow, maxrow) \in 0 .. grid.cols
         /\ minrow = maxrow => RouteColumn(from, to, minrow, maxrow) = from
         /\ minrow # maxrow => \A row \in minrow .. maxrow - 1 :
                                EdgeValid(row, RouteColumn(from, to, minrow, maxrow))
<1> DEFINE clear(c) == ColumnClear(c, minrow, maxrow)
           T == {o \in 0 .. grid.cols : clear(from - o) \/ clear(from + o)}
           ofs == LeastOf(T)
<1>1. \A c : clear(c) => /\ c \in 0 .. grid.cols
                        /\ \A row \in minrow .. maxrow - 1 : EdgeValid(row, c)
  BY DEF ColumnClear
<1>2. clear(0)
  <2>1. ASSUME NEW row \in minrow .. maxrow - 1, NEW n \in Nodes
        PROVE  grid.cell[n] # [row |-> row, col |-> 0 - 1]
    <3>1. grid.cell[n].col \in Nat
      BY GridIs
    <3>2. grid.cell[n].col # 0 - 1
      BY <3>1
    <3> QED
      BY <3>2
  <2>2. 0 \in 0 .. grid.cols
    BY GridIs
  <2> QED
    BY <2>1, <2>2 DEF ColumnClear, EdgeValid
<1> HIDE DEF clear
<1>3. T # {} /\ T \in SUBSET Nat
  <2>1. from - from = 0 /\ grid.cols \in Nat
    BY GridIs
  <2>2. from \in T
    BY <1>2, <2>1
  <2> QED
    BY <2>1, <2>2
<1>4. clear(from - ofs) \/ clear(from + ofs)
  <2>1. LeastOf(T) \in T
    <3> HIDE DEF T
    <3> QED
      BY <1>3, LeastOfIs
  <2> QED
    BY <2>1
<1>5. RouteColumn(from, to, minrow, maxrow) =
        IF minrow = maxrow \/ clear(from) THEN from
        ELSE IF clear(to) THEN to
        ELSE IF clear(from - ofs) THEN from - ofs ELSE from + ofs
  BY DEF RouteColumn, clear
<1> HIDE DEF ofs
<1> QED
  BY <1>1, <1>4, <1>5

(* The marks of a routing are inside the grid. *)
MarksIn(R, g) ==
  /\ LanesOK(R.row, g.rows, g.cols) /\ LanesOK(R.col, g.rows, g.cols)
  /\ LanesOK(R.was, g.rows, g.cols)

(* In the column lane that runs through a node, a mark was made. *)
Touched(R, n, g) == \E m \in R.col \cup R.was : m[2] = g.cell[n].col + 1

LEMMA RoutedIs ==
  ASSUME GridOK, MarksIn(routing, grid), NEW s \in Nodes, NEW t \in Nodes
  PROVE  /\ MarksIn(Routed(s, t), grid) /\ Touched(Routed(s, t), s, grid) /\ Touched(Routed(s, t), t, grid)
         /\ \A n \in Nodes : Touched(routing, n, grid) => Touched(Routed(s, t), n, grid)
<1> DEFINE lanes == routing
           row == grid.cell[s].row + 1
           from == grid.cell[s].col + 1
           endrow == grid.cell[t].row
           to == grid.cell[t].col + 1
           rows == Between(row, endrow)
           col == RouteColumn(from, to, Smaller(row, endrow), Larger(row, endrow))
           out == FreeIndex(lanes.col, {row}, {from})
           across == col # from
           down == endrow # row
           back == col # to
           straight == down /\ ~across
           i1 == FreeIndex(lanes.row, {row}, Between(from, col))
           row1 == IF across THEN lanes.row \cup Lane({row}, Between(from, col), i1) ELSE lanes.row
           col1 == IF straight THEN lanes.col ELSE lanes.col \cup {<<row, from, out>>}
           i2 == VertLane(col1, rows, col)
           col2 == IF down THEN col1 \cup Lane(rows, {col}, i2) ELSE col1
           i3 == FreeIndex(row1, {endrow}, Between(col, to))
           row2 == IF back THEN row1 \cup Lane({endrow}, Between(col, to), i3) ELSE row1
           horiz == back \/ (across /\ ~down)
           i4 == IF horiz THEN FreeIndex(col2, {endrow}, {to}) ELSE 0
           cells == <<<<row, from>>>> \o (IF across THEN <<<<row, col>>>> ELSE <<>>)
                    \o (IF down THEN <<<<endrow, col>>>> ELSE <<>>)
                    \o (IF back THEN <<<<endrow, to>>>> ELSE <<>>)
           indices == (IF across THEN <<i1>> ELSE <<>>) \o (IF down THEN <<i2>> ELSE <<>>)
                      \o (IF back THEN <<i3>> ELSE <<>>) \o <<i4>>
           route == [edge |-> <<s, t>>, start |-> IF straight THEN i2 ELSE out,
                     points |-> [k \in DOMAIN cells |->
                                   [row |-> cells[k][1], col |-> cells[k][2], index |-> indices[k]]]]
           col3 == IF horiz THEN col2 \cup {<<endrow, to, i4>>} ELSE col2
           was1 == lanes.was \cup {<<row, from, out>>}
           R == Routed(s, t)
           N == grid.rows
           M == grid.cols
<1>1. R = [routes |-> Append(lanes.routes, route), row |-> row2, col |-> col3, was |-> was1]
  BY DEF Routed
<1> HIDE DEF route, cells, indices, R
<1>2. /\ N \in Nat /\ M \in Nat /\ row \in 0 .. N /\ from \in 0 .. M
      /\ endrow \in 0 .. N /\ to \in 0 .. M
  <2>1. /\ grid.rows \in Nat /\ grid.cols \in Nat
        /\ grid.cell[s].row \in 0 .. grid.rows - 1 /\ grid.cell[s].col \in 0 .. grid.cols - 2
        /\ grid.cell[t].row \in 0 .. grid.rows - 1 /\ grid.cell[t].col \in 0 .. grid.cols - 2
    BY GridIs
  <2> QED
    BY <2>1
<1> HIDE DEF row, from, endrow, to
<1>3. col \in 0 .. M
  <2>1. Smaller(row, endrow) \in Nat /\ Larger(row, endrow) \in Nat
    BY <1>2 DEF Smaller, Larger
  <2> QED
    BY <1>2, <2>1, RouteColumnIs
<1> HIDE DEF col
<1>4. /\ rows \subseteq 0 .. N /\ Between(from, col) \subseteq 0 .. M /\ Between(col, to) \subseteq 0 .. M
      /\ endrow \in rows
  BY <1>2, <1>3 DEF Between, Smaller, Larger
<1> HIDE DEF rows
<1>5. LanesOK(lanes.row, N, M) /\ LanesOK(lanes.col, N, M) /\ LanesOK(lanes.was, N, M)
  BY DEF MarksIn
<1> HIDE DEF lanes, N, M
<1>6. {row} \subseteq 0 .. N /\ {endrow} \subseteq 0 .. N /\ {col} \subseteq 0 .. M
  BY <1>2, <1>3
<1>7. LanesOK(row1, N, M)
  <2>1. i1 \in Nat
    BY <1>5, FreeIndexIs
  <2> HIDE DEF i1
  <2> QED
    BY <1>4, <1>5, <1>6, <2>1, LanesMore
<1>8. LanesOK(row2, N, M)
  <2> HIDE DEF row1
  <2>1. i3 \in Nat
    BY <1>7, FreeIndexIs
  <2> HIDE DEF i3
  <2> QED
    BY <1>4, <1>6, <1>7, <2>1, LanesMore
<1>9. out \in Nat
  BY <1>5, FreeIndexIs
<1> HIDE DEF out
<1>10. LanesOK(col1, N, M) /\ LanesOK(was1, N, M)
  BY <1>2, <1>5, <1>9, LanesOne
<1> HIDE DEF was1
<1>11. LanesOK(col2, N, M)
  <2> HIDE DEF col1
  <2>1. i2 \in Nat
    BY <1>10, FreeIndexIs DEF VertLane
  <2> HIDE DEF i2
  <2> QED
    BY <1>4, <1>6, <1>10, <2>1, LanesMore
<1>12. LanesOK(col3, N, M)
  <2> HIDE DEF col2
  <2>1. FreeIndex(col2, {endrow}, {to}) \in Nat
    BY <1>11, FreeIndexIs
  <2>2. i4 \in Nat
    BY <2>1
  <2> HIDE DEF i4
  <2> QED
    BY <1>2, <1>11, <2>2, LanesOne
<1> HIDE DEF row2, i2, i4
<1>13. R.row = row2 /\ R.col = col3 /\ R.was = was1
  <2> HIDE DEF col3
  <2> QED
    BY <1>1
<1>14. lanes.col \subseteq col3
  OBVIOUS
<1>15. lanes.was \subseteq was1 /\ <<row, from, out>> \in was1
  BY DEF was1
<1>16. \E m \in col3 \cup was1 : m[2] = to
  <2>1. CASE horiz
    <3>1. <<endrow, to, i4>> \in col3
      BY <2>1
    <3> HIDE DEF col3
    <3> QED
      BY <3>1
  <2>2. CASE ~horiz /\ down
    <3>1. <<endrow, col, i2>> \in Lane(rows, {col}, i2)
      BY <1>4 DEF Lane
    <3>2. <<endrow, col, i2>> \in col3 /\ col = to
      BY <2>2, <3>1
    <3> QED
      <4> HIDE DEF col3
      <4> QED
        BY <3>2
  <2>3. CASE ~horiz /\ ~down
    <3>1. from = to
      BY <2>3
    <3> QED
      BY <1>15, <3>1
  <2> QED
    BY <2>1, <2>2, <2>3
<1>17. \E m \in col3 \cup was1 : m[2] = from
  BY <1>15
<1> HIDE DEF col3
<1>18. MarksIn(R, grid)
  BY <1>8, <1>10, <1>12, <1>13 DEF MarksIn, N, M
<1>19. Touched(R, s, grid) /\ Touched(R, t, grid)
  BY <1>13, <1>16, <1>17 DEF Touched, from, to
<1>20. \A n \in Nodes : Touched(routing, n, grid) => Touched(R, n, grid)
  BY <1>13, <1>14, <1>15 DEF Touched, lanes
<1> QED
  BY <1>18, <1>19, <1>20 DEF R
-----------------------------------------------------------------------------
(* s has the edges that leave the first k nodes of the order, once. *)
Leaving(k, s) ==
  /\ s \in Seq(Nodes \X Nodes) /\ IsInjective(s)
  /\ ToSet(s) = {e \in ToSet(drawing.edges) : \E j \in 1 .. k : e[1] = order[j]}

(* All edges are routed, each of them once. *)
LEMMA EdgesInOrderIs ==
  ASSUME DrawingOK(drawing), order \in Seq(Nodes), ToSet(order) = Nodes, IsInjective(order)
  PROVE  /\ EdgesInOrder \in Seq(Nodes \X Nodes) /\ ToSet(EdgesInOrder) = ToSet(drawing.edges)
         /\ IsInjective(EdgesInOrder)
<1> DEFINE K == Len(order)
           S == Seq(Nodes \X Nodes)
           More(x, k) == x \o EdgesFrom(order[k])
           adds == [k \in (0 .. K) \ {0} |-> [x \in S |-> More(x, k)]]
           first[k \in 0 .. Len(order)] == IF k = 0 THEN <<>> ELSE first[k - 1] \o EdgesFrom(order[k])
<1>0. EdgesInOrder = first[K]
  BY DEF EdgesInOrder, first, K
<1> HIDE DEF first
<1>1. K \in Nat /\ DOMAIN order = 1 .. K /\ \A k \in 1 .. K : order[k] \in Nodes
  OBVIOUS
<1>2. \A k : k \in (0 .. K) \ {0} => k \in 1 .. K /\ k - 1 \in 0 .. K /\ k - 1 \in Nat
  BY <1>1
<1>3. \A k \in 1 .. K : EdgesFrom(order[k]) \in S
  BY <1>1, OutgoingIs
<1>4. ASSUME NEW k \in 1 .. K, NEW x \in S, Leaving(k - 1, x) PROVE Leaving(k, More(x, k))
  <2> DEFINE E == EdgesFrom(order[k])
  <2>1. E \in S /\ ToSet(E) = {e \in ToSet(drawing.edges) : e[1] = order[k]}
    BY <1>1, OutgoingIs
  <2> HIDE DEF E
  <2>2. x \o E \in S /\ ToSet(x \o E) = ToSet(x) \cup ToSet(E)
    BY <2>1, SetAfterOther
  <2>3. \A j : j \in 1 .. k <=> j \in 1 .. k - 1 \/ j = k
    BY <1>1
  <2>4. ToSet(x) = {e \in ToSet(drawing.edges) : \E j \in 1 .. k - 1 : e[1] = order[j]}
    BY <1>4 DEF Leaving
  <2>5. ToSet(x \o E) = {e \in ToSet(drawing.edges) : \E j \in 1 .. k : e[1] = order[j]}
    <3> HIDE DEF S, K
    <3> QED
      BY <2>1, <2>2, <2>3, <2>4
  <2>6. IsInjective(x \o E)
    <3>1. IsInjective(E)
      <4>1. drawing.edges \in Seq(Nodes \X Nodes) /\ IsInjective(drawing.edges)
        BY DEF DrawingOK, Nodes
      <4> QED
        BY <4>1, OnlyIs DEF EdgesFrom, E
    <3>2. \A j \in 1 .. k - 1 : order[j] # order[k]
      <4>1. \A j \in 1 .. k - 1 : j \in DOMAIN order /\ k \in DOMAIN order /\ j # k
        BY <1>1
      <4> QED
        BY <4>1 DEF IsInjective
    <3>3. ToSet(x) \cap ToSet(E) = {}
      <4> HIDE DEF S, K
      <4> QED
        BY <2>1, <2>4, <3>2
    <3>4. IsInjective(x)
      BY <1>4 DEF Leaving
    <3> QED
      BY <2>1, <3>1, <3>3, <3>4, InjectiveAfterOther
  <2> QED
    BY <2>2, <2>5, <2>6 DEF Leaving, E
<1>5. <<>> \in S /\ Leaving(0, <<>>)
  <2>1. ToSet(<<>>) = {} /\ 1 .. 0 = {} /\ IsInjective(<<>>)
    BY DEF ToSet, IsInjective
  <2> QED
    BY <2>1 DEF Leaving
<1> HIDE DEF K
<1>6. PICK f : General!Follows(f, 0, K, S, <<>>, adds)
  <2>1. General!Steps(adds, 0, K, S)
    <3>1. \A x \in S, k \in (0 .. K) \ {0} : More(x, k) \in S
      BY <1>2, <1>3
    <3> HIDE DEF More, S
    <3> QED
      BY <3>1 DEF General!Steps
  <2>2. 0 \in Int /\ K \in Int /\ 0 <= K
    BY <1>1
  <2> HIDE DEF adds, S
  <2> QED
    BY <1>5, <2>1, <2>2, General!Recursion
<1>7. f \in [0 .. K -> S] /\ f[0] = <<>>
  <2> HIDE DEF adds, S
  <2> QED
    BY <1>6 DEF General!Follows
<1>8. ASSUME NEW k \in (0 .. K) \ {0} PROVE f[k - 1] \in S /\ f[k] = More(f[k - 1], k)
  <2>1. f[k] = adds[k][f[k - 1]]
    <3> HIDE DEF adds, S
    <3> QED
      BY <1>6 DEF General!Follows
  <2> HIDE DEF S
  <2>2. f[k - 1] \in S
    BY <1>2, <1>7
  <2> HIDE DEF More
  <2> QED
    BY <2>1, <2>2
<1> HIDE DEF S, adds
<1>9. \A k \in 0 .. K : f[k] = IF k = 0 THEN <<>> ELSE f[k - 1] \o EdgesFrom(order[k])
  BY <1>7, <1>8
<1>10. f = [k \in 0 .. Len(order) |-> IF k = 0 THEN <<>> ELSE f[k - 1] \o EdgesFrom(order[k])]
  BY <1>7, <1>9 DEF K
<1>11. first = [k \in 0 .. Len(order) |-> IF k = 0 THEN <<>> ELSE first[k - 1] \o EdgesFrom(order[k])]
  BY <1>10, Zenon DEF first
<1>12. /\ first[0] = <<>> /\ \A k \in (0 .. K) \ {0} : first[k] = More(first[k - 1], k)
  <2>1. ASSUME NEW k \in 0 .. Len(order)
        PROVE  first[k] = IF k = 0 THEN <<>> ELSE first[k - 1] \o EdgesFrom(order[k])
    BY <1>11, Zenon
  <2>2. 0 \in 0 .. Len(order)
    BY <1>1 DEF K
  <2> QED
    BY <2>1, <2>2 DEF K
<1> DEFINE H == {k \in 0 .. K : Leaving(k, first[k])}
<1>13. 0 .. K \subseteq H
  <2>1. 0 \in H
    BY <1>1, <1>5, <1>12
  <2>2. ASSUME NEW k \in 0 .. K, k # 0, k - 1 \in H PROVE k \in H
    <3>1. Leaving(k - 1, first[k - 1]) /\ first[k - 1] \in S /\ k \in 1 .. K
      BY <1>2, <2>2 DEF Leaving, S
    <3> QED
      BY <1>4, <1>12, <2>2, <3>1
  <2>3. 0 \in Int /\ K \in Int
    BY <1>1
  <2> HIDE DEF H
  <2> QED
    BY <2>1, <2>2, <2>3, General!IntervalInduction
<1>14. Leaving(K, first[K])
  BY <1>1, <1>13
<1>15. ToSet(EdgesInOrder) = ToSet(drawing.edges)
  <2>1. \A e \in ToSet(drawing.edges) : e[1] \in Nodes
    <3>1. drawing.edges \in Seq(Nodes \X Nodes)
      BY DEF DrawingOK, Nodes
    <3> QED
      BY <3>1 DEF ToSet
  <2>2. \A n \in Nodes : \E j \in 1 .. K : n = order[j]
    BY <1>1 DEF ToSet
  <2>3. ToSet(EdgesInOrder) = {e \in ToSet(drawing.edges) : \E j \in 1 .. K : e[1] = order[j]}
    BY <1>0, <1>14 DEF Leaving
  <2> QED
    BY <2>1, <2>2, <2>3
<1> QED
  BY <1>0, <1>14, <1>15 DEF Leaving

(* Every node that an edge joins was touched when that was routed. *)
EdgesTouch ==
  \A e \in ToSet(drawing.edges) :
    e \in ToSet(toroute) \/ (Touched(routing, e[1], grid) /\ Touched(routing, e[2], grid))

(* What holds of the grid and the routes in each phase. *)
RouteInv ==
  /\ step \in {"closed", "acyclic"} => routing = NoRouting
  /\ step \in {"route", "draw", "done"} =>
       GridOK /\ MarksIn(routing, grid) /\ toroute \in Seq(Nodes \X Nodes) /\ EdgesTouch
  /\ step \in {"draw", "done"} => toroute = <<>>

LEMMA ArrangeEdges ==
  ASSUME TreeInv, Arrange
  PROVE  toroute' \in Seq(Nodes \X Nodes) /\ ToSet(toroute') = ToSet(drawing.edges) /\ IsInjective(toroute')
<1>1. step = "acyclic" /\ toroute' = EdgesInOrder
  BY DEF Arrange
<1>2. DrawingOK(drawing) /\ order \in Seq(Nodes) /\ ToSet(order) = Nodes /\ queue = <<>>
  BY <1>1, ArrangeTree DEF TreeInv, Spanning
<1>3. IsInjective(order)
  <2>1. IsInjective(order \o queue)
    BY <1>1 DEF TreeInv, Spanning, TreeOK
  <2>2. order \o queue = order
    BY <1>2
  <2> QED
    BY <2>1, <2>2
<1> QED
  BY <1>1, <1>2, <1>3, EdgesInOrderIs

LEMMA ArrangeRoute == ASSUME TreeInv, RouteInv, Arrange PROVE RouteInv'
<1>1. /\ step = "acyclic" /\ step' = "route" /\ UNCHANGED tree /\ routing' = routing
      /\ toroute' = EdgesInOrder
  BY DEF Arrange
<1>2. GridOK'
  BY ArrangeGrid
<1>3. routing' = NoRouting
  BY <1>1 DEF RouteInv
<1>4. MarksIn(routing', grid')
  <2>1. LanesOK({}, grid'.rows, grid'.cols)
    BY DEF LanesOK, Bound
  <2> QED
    BY <1>3, <2>1 DEF MarksIn, NoRouting
<1>5. toroute' \in Seq(Nodes \X Nodes) /\ ToSet(toroute') = ToSet(drawing.edges)
  BY <1>1, ArrangeEdges
<1>6. Nodes' = Nodes /\ drawing' = drawing
  BY <1>1 DEF tree, Nodes
<1>7. EdgesTouch'
  BY <1>5, <1>6 DEF EdgesTouch
<1> QED
  BY <1>1, <1>2, <1>3, <1>4, <1>5, <1>6, <1>7 DEF RouteInv

LEMMA RouteEdgeRoute == ASSUME TreeInv, RouteInv, RouteEdge PROVE RouteInv'
<1> DEFINE e == Head(toroute)
           R == Routed(e[1], e[2])
<1>1. /\ step = "route" /\ step' = "route" /\ toroute # <<>> /\ UNCHANGED <<tree, grid>>
      /\ routing' = R /\ toroute' = Tail(toroute)
  BY DEF RouteEdge
<1>2. GridOK /\ MarksIn(routing, grid) /\ toroute \in Seq(Nodes \X Nodes) /\ EdgesTouch
  BY <1>1 DEF RouteInv
<1>3. e \in Nodes \X Nodes /\ toroute' \in Seq(Nodes \X Nodes)
  BY <1>1, <1>2
<1>4. ToSet(toroute) = {e} \cup ToSet(toroute')
  <2> DEFINE F == <<e>>
             T == Tail(toroute)
  <2>1. toroute = F \o T /\ F \in Seq(Nodes \X Nodes) /\ T \in Seq(Nodes \X Nodes)
    BY <1>1, <1>2, <1>3, General!Repushed
  <2>2. ToSet(F) = {e}
    <3> HIDE DEF e
    <3> QED
      BY DEF ToSet
  <2>3. T = toroute'
    BY <1>1
  <2> HIDE DEF e, F, T
  <2>4. ToSet(F \o T) = ToSet(F) \cup ToSet(T)
    BY <2>1, SetAfterOther
  <2> QED
    BY <2>1, <2>2, <2>3, <2>4
<1>5. e[1] \in Nodes /\ e[2] \in Nodes
  BY <1>3
<1> HIDE DEF e
<1>6. /\ MarksIn(R, grid) /\ Touched(R, e[1], grid) /\ Touched(R, e[2], grid)
      /\ \A n \in Nodes : Touched(routing, n, grid) => Touched(R, n, grid)
  BY <1>2, <1>5, RoutedIs
<1> HIDE DEF R
<1>7. Nodes' = Nodes /\ drawing' = drawing /\ grid' = grid
  BY <1>1 DEF tree, Nodes
<1>8. EdgesTouch'
  <2>1. ASSUME NEW d \in ToSet(drawing.edges)
        PROVE  d \in ToSet(toroute') \/ (Touched(R, d[1], grid) /\ Touched(R, d[2], grid))
    <3>1. CASE d = e
      BY <1>6, <3>1
    <3>2. CASE d \in ToSet(toroute')
      BY <3>2
    <3>3. CASE d \notin ToSet(toroute)
      <4>1. Touched(routing, d[1], grid) /\ Touched(routing, d[2], grid)
        BY <1>2, <3>3 DEF EdgesTouch
      <4>2. d[1] \in Nodes /\ d[2] \in Nodes
        <5>1. drawing.edges \in Seq(Nodes \X Nodes)
          BY <1>1 DEF TreeInv, Spanning, DrawingOK, Nodes
        <5> QED
          BY <5>1 DEF ToSet
      <4> QED
        BY <1>6, <4>1, <4>2
    <3> QED
      BY <1>4, <3>1, <3>2, <3>3
  <2>2. \A n : Touched(R, n, grid) => Touched(routing', n, grid')
    BY <1>1, <1>7 DEF Touched
  <2> QED
    BY <1>7, <2>1, <2>2 DEF EdgesTouch
<1>9. GridOK' /\ MarksIn(routing', grid')
  BY <1>1, <1>2, <1>6, <1>7 DEF GridOK, MarksIn
<1> QED
  BY <1>1, <1>3, <1>7, <1>8, <1>9 DEF RouteInv

LEMMA RouteStays ==
  ASSUME RouteInv, UNCHANGED <<grid, routing, toroute, drawing>>,
         step \in {"route", "draw", "done"}, step' \in {"draw", "done"}, toroute = <<>>
  PROVE  RouteInv'
<1>1. Nodes' = Nodes
  BY DEF Nodes
<1>2. (GridOK /\ MarksIn(routing, grid) /\ EdgesTouch)'
  BY <1>1 DEF RouteInv, GridOK, MarksIn, EdgesTouch, Touched
<1> QED
  BY <1>1, <1>2 DEF RouteInv

LEMMA RouteUnmoved ==
  ASSUME RouteInv, UNCHANGED <<grid, routing, toroute, drawing, step>>
  PROVE  RouteInv'
<1>1. Nodes' = Nodes
  BY DEF Nodes
<1>2. GridOK' = GridOK /\ MarksIn(routing, grid)' = MarksIn(routing, grid) /\ EdgesTouch' = EdgesTouch
  BY <1>1 DEF GridOK, EdgesTouch
<1> QED
  BY <1>1, <1>2 DEF RouteInv

LEMMA RouteNext == TreeInv /\ RouteInv /\ [Next]_vars => RouteInv'
<1> SUFFICES ASSUME TreeInv, RouteInv, [Next]_vars PROVE RouteInv'
  OBVIOUS
<1>1. CASE Arrange
  BY <1>1, ArrangeRoute
<1>2. CASE RouteEdge
  BY <1>2, RouteEdgeRoute
<1>3. CASE Measure \/ Draw
  <2>1. /\ UNCHANGED <<grid, routing, toroute, drawing>> /\ toroute = <<>>
        /\ step \in {"route", "draw", "done"} /\ step' \in {"draw", "done"}
    BY <1>3 DEF Measure, Draw, tree, RouteInv
  <2> QED
    BY <2>1, RouteStays
<1>4. CASE TakeFront \/ PickBest
  <2>1. step = "acyclic" /\ step' = "acyclic" /\ routing' = routing
    BY <1>4 DEF TakeFront, PickBest
  <2> QED
    BY <2>1 DEF RouteInv
<1>5. CASE Execute
  <2>1. step = "closed" /\ step' = "acyclic" /\ routing' = routing
    BY <1>5 DEF Execute, Open
  <2> QED
    BY <2>1 DEF RouteInv
<1>6. CASE UNCHANGED layoutVars
  <2>1. UNCHANGED <<grid, routing, toroute, drawing, step>>
    BY <1>6 DEF layoutVars, tree
  <2> QED
    BY <2>1, RouteUnmoved
<1>7. CASE UNCHANGED vars
  BY <1>6, <1>7 DEF vars
<1> QED
  BY <1>1, <1>2, <1>3, <1>4, <1>5, <1>6, <1>7 DEF Next, Layout, LayoutNext, BuildGraphs

LEMMA RouteAlways == Spec => [](TreeInv /\ RouteInv)
<1>1. Init => TreeInv /\ RouteInv
  BY TreeInit DEF Init, LayoutInit, RouteInv
<1> QED
  BY <1>1, GraphsAlways, TreeNext, RouteNext, PTL DEF Spec

(* Graphs are built and laid out within their bounds, whatever graph of the *)
(* code it is: blocks start once and edges are there once, every node is in *)
(* the grid, and so is every lane that an edge is routed through, those of  *)
(* a column being found in all cases.                                       *)
THEOREM GraphsTyped == Spec => []TypeOK
<1>1. GraphsInv /\ TreeInv /\ RouteInv => TypeOK
  <2> SUFFICES ASSUME GraphsInv, TreeInv, RouteInv PROVE TypeOK
    OBVIOUS
  <2>1. /\ pc \in {"load", "bounds", "next", "leaders", "chain", "blocks", "run", "out"}
        /\ net \in NetType(Linked)
        /\ GraphOK(graph) /\ \A s \in DOMAIN graphs : GraphOK(graphs[s]) /\ graphs[s].start = s
        /\ todo \subseteq Code /\ pending \in Seq(Code) /\ open \subseteq Code
        /\ at \in Linked /\ block \in Code
    BY DEF GraphsInv, GraphsKept, Control, Complete
  <2>2. step \in {"closed", "acyclic", "route", "draw", "done"}
    BY DEF TreeInv
  <2>3. ASSUME step \in {"route", "draw", "done"}
        PROVE  /\ \A n \in Nodes : /\ grid.cell[n].row \in 0 .. grid.rows - 1
                                   /\ grid.cell[n].col \in 0 .. grid.cols - 2
               /\ \A m \in routing.row \cup routing.col \cup routing.was :
                    m[1] \in 0 .. grid.rows /\ m[2] \in 0 .. grid.cols
    <3>1. GridOK /\ MarksIn(routing, grid)
      BY <2>3 DEF RouteInv
    <3> QED
      BY <3>1, GridIs DEF MarksIn, LanesOK, Bound
  <2> QED
    BY <2>1, <2>2, <2>3 DEF TypeOK
<1> QED
  BY <1>1, GraphsAlways, RouteAlways, PTL
-----------------------------------------------------------------------------
(* edge has where rows or columns start: each behind the one before it, its *)
(* lane and its size.                                                       *)
Positioned(edge, n, room, size) ==
  /\ edge \in [0 .. n -> Nat] /\ edge[0] = PADDING
  /\ \A i \in 1 .. n : edge[i] = edge[i - 1] + LANE * room[i - 1] + size[i - 1]
  /\ \A i, j \in 0 .. n : i <= j => edge[i] <= edge[j]

LEMMA PositionsAre ==
  ASSUME NEW n \in Nat, NEW room \in [0 .. n -> Nat], NEW size \in [0 .. n -> Nat]
  PROVE  Positioned(Positions(n, room, size), n, room, size)
<1> DEFINE More(x, i) == x + LANE * room[i - 1] + size[i - 1]
           adds == [i \in (0 .. n) \ {0} |-> [x \in Nat |-> More(x, i)]]
           edge[i \in 0 .. n] ==
             IF i = 0 THEN PADDING ELSE edge[i - 1] + LANE * room[i - 1] + size[i - 1]
<1>0. Positions(n, room, size) = edge
  BY DEF Positions, edge
<1> HIDE DEF edge
<1>1. \A i : i \in (0 .. n) \ {0} => i \in 1 .. n /\ i - 1 \in 0 .. n
  OBVIOUS
<1>2. \A x \in Nat, i \in (0 .. n) \ {0} : More(x, i) \in Nat /\ x <= More(x, i)
  <2> SUFFICES ASSUME NEW x \in Nat, NEW i \in (0 .. n) \ {0} PROVE More(x, i) \in Nat /\ x <= More(x, i)
    OBVIOUS
  <2>1. room[i - 1] \in Nat /\ size[i - 1] \in Nat
    BY <1>1
  <2> QED
    BY <2>1 DEF LANE
<1>3. PADDING \in Nat
  BY DEF PADDING
<1>4. PICK f : General!Follows(f, 0, n, Nat, PADDING, adds)
  <2>1. General!Steps(adds, 0, n, Nat)
    <3> HIDE DEF More
    <3> QED
      BY <1>2 DEF General!Steps
  <2>2. 0 \in Int /\ n \in Int /\ 0 <= n
    OBVIOUS
  <2> HIDE DEF adds
  <2> QED
    BY <1>3, <2>1, <2>2, General!Recursion
<1>5. f \in [0 .. n -> Nat] /\ f[0] = PADDING
  <2> HIDE DEF adds
  <2> QED
    BY <1>4 DEF General!Follows
<1>6. ASSUME NEW i \in (0 .. n) \ {0} PROVE f[i - 1] \in Nat /\ f[i] = More(f[i - 1], i)
  <2>1. f[i] = adds[i][f[i - 1]]
    <3> HIDE DEF adds
    <3> QED
      BY <1>4 DEF General!Follows
  <2>2. f[i - 1] \in Nat
    BY <1>1, <1>5
  <2> HIDE DEF More
  <2> QED
    BY <2>1, <2>2
<1>7. f = [i \in 0 .. n |->
             IF i = 0 THEN PADDING ELSE f[i - 1] + LANE * room[i - 1] + size[i - 1]]
  BY <1>5, <1>6
<1>8. edge = [i \in 0 .. n |->
                IF i = 0 THEN PADDING ELSE edge[i - 1] + LANE * room[i - 1] + size[i - 1]]
  BY <1>7, Zenon DEF edge
<1>9. edge[0] = PADDING /\ \A i \in (0 .. n) \ {0} : edge[i] = More(edge[i - 1], i)
  <2>1. ASSUME NEW i \in 0 .. n
        PROVE  edge[i] = IF i = 0 THEN PADDING ELSE edge[i - 1] + LANE * room[i - 1] + size[i - 1]
    BY <1>8, Zenon
  <2>2. 0 \in 0 .. n
    OBVIOUS
  <2> QED
    BY <2>1, <2>2
<1> HIDE DEF adds, More
<1> DEFINE G == {i \in 0 .. n : edge[i] \in Nat /\ \A j \in 0 .. i : edge[j] \in Nat /\ edge[j] <= edge[i]}
<1>10. 0 .. n \subseteq G
  <2>1. 0 \in G
    BY <1>3, <1>9
  <2>2. ASSUME NEW i \in 0 .. n, i # 0, i - 1 \in G PROVE i \in G
    <3>1. edge[i - 1] \in Nat /\ edge[i] = More(edge[i - 1], i) /\ edge[i] \in Nat /\ edge[i - 1] <= edge[i]
      BY <1>2, <1>9, <2>2
    <3>2. ASSUME NEW j \in 0 .. i - 1 PROVE edge[j] \in Nat /\ edge[j] <= edge[i]
      BY <2>2, <3>1
    <3>3. \A j \in 0 .. i : j \in 0 .. i - 1 \/ j = i
      OBVIOUS
    <3>4. \A j \in 0 .. i : edge[j] \in Nat /\ edge[j] <= edge[i]
      BY <3>1, <3>2, <3>3
    <3> QED
      BY <3>1, <3>4
  <2> HIDE DEF G
  <2>3. 0 \in Int /\ n \in Int
    OBVIOUS
  <2> QED
    BY <2>1, <2>2, <2>3, General!IntervalInduction
<1>11. edge \in [0 .. n -> Nat]
  BY <1>8, <1>10
<1>12. \A i \in 1 .. n : edge[i] = edge[i - 1] + LANE * room[i - 1] + size[i - 1]
  BY <1>9 DEF More
<1> QED
  BY <1>0, <1>9, <1>10, <1>11, <1>12 DEF Positioned

LEMMA LargestIs ==
  ASSUME NEW b \in Nat, NEW S \in SUBSET (0 .. b), S # {}
  PROVE  Largest(S) \in S /\ Largest(S) \in Nat /\ \A a \in S : a <= Largest(S)
<1> DEFINE T == {x \in Nat : b - x \in S}
<1>1. T \in SUBSET Nat /\ T # {}
  <2>1. PICK a \in S : TRUE
    OBVIOUS
  <2>2. b - a \in Nat /\ b - (b - a) = a
    OBVIOUS
  <2> QED
    BY <2>1, <2>2
<1>2. PICK m \in T : \A x \in T : m <= x
  <2> HIDE DEF T
  <2> QED
    BY <1>1, General!LeastElement
<1>3. m \in Nat /\ b - m \in S
  BY <1>2
<1>4. ASSUME NEW c \in S PROVE c <= b - m
  <2>1. c \in 0 .. b
    OBVIOUS
  <2>2. b - c \in Nat /\ b - (b - c) = c
    BY <2>1
  <2>3. b - c \in T
    BY <2>2
  <2>4. m <= b - c
    BY <1>2, <2>3
  <2> QED
    BY <1>3, <2>1, <2>4
<1>5. \E a \in S : \A c \in S : c <= a
  BY <1>3, <1>4
<1>6. Largest(S) \in S /\ \A a \in S : a <= Largest(S)
  BY <1>5 DEF Largest
<1>7. \A a \in S : a \in Nat
  OBVIOUS
<1> HIDE DEF T
<1> QED
  BY <1>6, <1>7

(* The values of some of the first K numbers have a largest. *)
LEMMA LargestOf ==
  ASSUME NEW K \in Nat, NEW w \in [1 .. K -> Nat], NEW P \in SUBSET (1 .. K)
  PROVE  /\ Largest({0} \cup {w[n] : n \in P}) \in Nat
         /\ \A n \in P : w[n] <= Largest({0} \cup {w[n1] : n1 \in P})
<1> DEFINE G == {k \in 0 .. K : \E b \in Nat : \A n \in 1 .. k : w[n] <= b}
           S == {0} \cup {w[n] : n \in P}
<1>1. 0 \in G
  BY 0 \in Nat
<1>2. ASSUME NEW k \in 0 .. K, k # 0, k - 1 \in G PROVE k \in G
  <2>1. PICK b \in Nat : \A n \in 1 .. k - 1 : w[n] <= b
    BY <1>2
  <2>2. w[k] \in Nat /\ \A n \in 1 .. k - 1 : w[n] \in Nat
    BY <1>2
  <2>3. b + w[k] \in Nat /\ b <= b + w[k] /\ w[k] <= b + w[k]
    BY <2>2
  <2>4. \A n \in 1 .. k : n \in 1 .. k - 1 \/ n = k
    OBVIOUS
  <2>5. \A n \in 1 .. k : w[n] <= b + w[k]
    BY <2>1, <2>2, <2>3, <2>4
  <2> QED
    BY <2>3, <2>5
<1>3. 0 .. K \subseteq G
  <2> HIDE DEF G
  <2>1. 0 \in Int /\ K \in Int
    OBVIOUS
  <2> QED
    BY <1>1, <1>2, <2>1, General!IntervalInduction
<1>4. PICK b \in Nat : \A n \in 1 .. K : w[n] <= b
  <2>1. K \in G
    <3> HIDE DEF G
    <3>1. K \in 0 .. K
      OBVIOUS
    <3> QED
      BY <1>3, <3>1
  <2> QED
    BY <2>1
<1>5. S \in SUBSET (0 .. b) /\ S # {}
  BY <1>4
<1>6. \A n \in P : w[n] \in S
  OBVIOUS
<1>7. Largest(S) \in Nat /\ \A a \in S : a <= Largest(S)
  <2> HIDE DEF S
  <2> QED
    BY <1>5, LargestIs
<1> QED
  BY <1>6, <1>7

(* A lane has room for the lines of all marks that were made in it. *)
LEMMA RoomIs ==
  ASSUME NEW marks, NEW N, NEW M, LanesOK(marks, N, M), NEW S \in SUBSET marks
  PROVE  Room(S) \in Nat /\ \A m \in S : m[3] \in Nat /\ m[3] + 1 <= Room(S)
<1> DEFINE I == {m[3] : m \in S}
<1>1. PICK b \in Nat : \A m \in marks : m[3] \in 0 .. b
  BY DEF LanesOK, Bound
<1>2. CASE S = {}
  BY <1>2 DEF Room
<1>3. CASE S # {}
  <2>1. I \in SUBSET (0 .. b) /\ I # {}
    BY <1>1, <1>3
  <2>2. Largest(I) \in Nat /\ \A i \in I : i \in Nat /\ i <= Largest(I)
    <3> HIDE DEF I
    <3> QED
      BY <2>1, LargestIs
  <2>3. Room(S) = 1 + Largest(I)
    BY <1>3 DEF Room
  <2>4. \A m \in S : m[3] \in I
    OBVIOUS
  <2> HIDE DEF I
  <2> QED
    BY <2>2, <2>3, <2>4
<1> QED
  BY <1>2, <1>3

LEMMA LanesBoth ==
  ASSUME NEW A, NEW B, NEW N, NEW M, LanesOK(A, N, M), LanesOK(B, N, M)
  PROVE  LanesOK(A \cup B, N, M)
<1>1. PICK a \in Nat : Bound(A, N, M, a)
  BY DEF LanesOK
<1>2. PICK b \in Nat : Bound(B, N, M, b)
  BY DEF LanesOK
<1>3. a <= a + b /\ b <= a + b /\ a + b \in Nat
  OBVIOUS
<1>4. Bound(A, N, M, a + b) /\ Bound(B, N, M, a + b)
  BY <1>1, <1>2, <1>3 DEF Bound
<1>5. Bound(A \cup B, N, M, a + b)
  BY <1>4, Zenon DEF Bound
<1> QED
  BY <1>3, <1>5 DEF LanesOK

(* The lanes have room for what goes through them and the columns and rows  *)
(* for the nodes in them.                                                   *)
Fits(m, height, d, g, R) ==
  /\ m.rowroom \in [0 .. g.rows -> Nat] /\ height \in [0 .. g.rows -> Nat]
  /\ m.colroom \in [0 .. g.cols -> Nat] /\ m.width \in [0 .. g.cols -> Nat]
  /\ Positioned(m.edgex, g.cols, m.colroom, m.width)
  /\ Positioned(m.edgey, g.rows, m.rowroom, height)
  /\ \A n \in 1 .. d.nodes :
       /\ d.width[n] \div 2 <= m.width[g.cell[n].col]
       /\ d.width[n] \div 2 <= m.width[g.cell[n].col + 1]
       /\ d.height[n] <= height[g.cell[n].row]
       /\ Touched(R, n, g) => 1 <= m.colroom[g.cell[n].col + 1]
  /\ \A k \in R.row : k[3] + 1 <= m.rowroom[k[1]]
  /\ \A k \in R.col : k[3] + 1 <= m.colroom[k[2]]

MeasureOK(m, d, g, R) == \E height : Fits(m, height, d, g, R)

LEMMA MeasuredIs ==
  ASSUME DrawingOK(drawing), GridOK, MarksIn(routing, grid)
  PROVE  MeasureOK(Measured, drawing, grid, routing)
<1> DEFINE rows == 0 .. grid.rows
           cols == 0 .. grid.cols
           rowmarks(r) == {m \in routing.row : m[1] = r}
           colmarks(c) == {m \in routing.col \cup routing.was : m[2] = c}
           rowroom == [r \in rows |-> Room(rowmarks(r))]
           colroom == [c \in cols |-> Room(colmarks(c))]
           in(c) == {n \in Nodes : c - grid.cell[n].col \in {0, 1}}
           inrow(r) == {m \in Nodes : grid.cell[m].row = r}
           half == [n \in Nodes |-> drawing.width[n] \div 2]
           wide(c) == Largest({0} \cup {drawing.width[n] \div 2 : n \in in(c)})
           high(r) == Largest({0} \cup {drawing.height[n] : n \in inrow(r)})
           width == [c \in cols |-> wide(c)]
           height == [r \in rows |-> high(r)]
           M == Measured
<1>1. M = [rowroom |-> rowroom, colroom |-> colroom, width |-> width,
           edgex |-> Positions(grid.cols, colroom, width),
           edgey |-> Positions(grid.rows, rowroom, height)]
  BY DEF Measured
<1>2. grid.rows \in Nat /\ grid.cols \in Nat /\ Nodes = 1 .. drawing.nodes /\ drawing.nodes \in Nat
  BY GridIs DEF Nodes, DrawingOK
<1>3. ASSUME NEW r
      PROVE  Room(rowmarks(r)) \in Nat /\ \A k \in rowmarks(r) : k[3] + 1 <= Room(rowmarks(r))
  <2>1. rowmarks(r) \in SUBSET routing.row /\ LanesOK(routing.row, grid.rows, grid.cols)
    BY DEF MarksIn
  <2> HIDE DEF rowmarks
  <2> QED
    BY <2>1, RoomIs
<1>4. ASSUME NEW c
      PROVE  /\ Room(colmarks(c)) \in Nat
             /\ \A k \in colmarks(c) : k[3] \in Nat /\ k[3] + 1 <= Room(colmarks(c))
  <2>1. /\ colmarks(c) \in SUBSET (routing.col \cup routing.was)
        /\ LanesOK(routing.col \cup routing.was, grid.rows, grid.cols)
    BY LanesBoth DEF MarksIn
  <2> HIDE DEF colmarks
  <2> QED
    BY <2>1, RoomIs
<1>5. half \in [1 .. drawing.nodes -> Nat] /\ drawing.height \in [1 .. drawing.nodes -> Nat]
  <2>1. drawing.width \in [1 .. drawing.nodes -> Nat] /\ drawing.height \in [1 .. drawing.nodes -> Nat]
    BY DEF DrawingOK
  <2>2. \A n \in Nodes : drawing.width[n] \div 2 \in Nat
    BY <1>2, <2>1
  <2> QED
    BY <1>2, <2>1, <2>2
<1>6. ASSUME NEW c PROVE wide(c) \in Nat /\ \A n \in in(c) : drawing.width[n] \div 2 <= wide(c)
  <2>1. in(c) \in SUBSET (1 .. drawing.nodes) /\ \A n \in in(c) : drawing.width[n] \div 2 = half[n]
    BY <1>2
  <2> HIDE DEF in, half
  <2>2. wide(c) = Largest({0} \cup {half[n] : n \in in(c)})
    <3>1. {drawing.width[n] \div 2 : n \in in(c)} = {half[n] : n \in in(c)}
      BY <2>1
    <3> QED
      BY <3>1
  <2>3. /\ Largest({0} \cup {half[n] : n \in in(c)}) \in Nat
        /\ \A n \in in(c) : half[n] <= Largest({0} \cup {half[n1] : n1 \in in(c)})
    BY <1>2, <1>5, <2>1, LargestOf
  <2> HIDE DEF wide
  <2> QED
    BY <2>1, <2>2, <2>3
<1>7. ASSUME NEW r PROVE high(r) \in Nat /\ \A n \in inrow(r) : drawing.height[n] <= high(r)
  <2>1. inrow(r) \in SUBSET (1 .. drawing.nodes)
    BY <1>2
  <2> HIDE DEF inrow
  <2> QED
    BY <1>2, <1>5, <2>1, LargestOf
<1>13. /\ \A k \in routing.row : k \in rowmarks(k[1]) /\ k[1] \in rows
       /\ \A k \in routing.col : k \in colmarks(k[2]) /\ k[2] \in cols
  BY DEF MarksIn, LanesOK, Bound
<1> HIDE DEF rowmarks, wide, high, half
<1>8. /\ rowroom \in [0 .. grid.rows -> Nat] /\ height \in [0 .. grid.rows -> Nat]
      /\ colroom \in [0 .. grid.cols -> Nat] /\ width \in [0 .. grid.cols -> Nat]
  <2> HIDE DEF colmarks
  <2> QED
    BY <1>3, <1>4, <1>6, <1>7
<1>9. ASSUME NEW n \in Nodes
      PROVE  /\ drawing.width[n] \div 2 <= width[grid.cell[n].col]
             /\ drawing.width[n] \div 2 <= width[grid.cell[n].col + 1]
             /\ drawing.height[n] <= height[grid.cell[n].row]
             /\ Touched(routing, n, grid) => 1 <= colroom[grid.cell[n].col + 1]
  <2> DEFINE col == grid.cell[n].col
             row == grid.cell[n].row
  <2>1. row \in rows /\ col \in cols /\ col + 1 \in cols /\ col \in Nat
    <3>1. row \in 0 .. grid.rows - 1 /\ col \in 0 .. grid.cols - 2
      BY GridIs
    <3>2. rows = 0 .. grid.rows /\ cols = 0 .. grid.cols
      OBVIOUS
    <3> HIDE DEF row, col, rows, cols
    <3> QED
      BY <1>2, <3>1, <3>2
  <2>2. n \in in(col) /\ n \in in(col + 1) /\ n \in inrow(row)
    <3>1. col - col = 0 /\ (col + 1) - col = 1
      BY <2>1
    <3> QED
      BY <3>1
  <2>3. Touched(routing, n, grid) => \E k : k \in colmarks(col + 1)
    BY DEF Touched
  <2> HIDE DEF col, row, in, inrow, colmarks
  <2>4. /\ width[col] = wide(col) /\ width[col + 1] = wide(col + 1) /\ height[row] = high(row)
        /\ colroom[col + 1] = Room(colmarks(col + 1))
    BY <2>1
  <2> HIDE DEF width, height, colroom
  <2>5. Touched(routing, n, grid) => 1 <= colroom[col + 1]
    <3>1. \A k \in colmarks(col + 1) : 1 <= Room(colmarks(col + 1))
      BY <1>4
    <3> QED
      BY <2>3, <2>4, <3>1
  <2> QED
    BY <1>6, <1>7, <2>2, <2>4, <2>5 DEF col, row
<1>14. /\ \A k \in routing.row : k[3] + 1 <= rowroom[k[1]]
       /\ \A k \in routing.col : k[3] + 1 <= colroom[k[2]]
  <2> HIDE DEF colmarks, rows, cols
  <2> QED
    BY <1>3, <1>4, <1>13
<1> HIDE DEF rowroom, colroom, width, height, M
<1>10. /\ Positioned(Positions(grid.cols, colroom, width), grid.cols, colroom, width)
       /\ Positioned(Positions(grid.rows, rowroom, height), grid.rows, rowroom, height)
  BY <1>2, <1>8, PositionsAre
<1>11. /\ M.rowroom = rowroom /\ M.colroom = colroom /\ M.width = width
       /\ M.edgex = Positions(grid.cols, colroom, width)
       /\ M.edgey = Positions(grid.rows, rowroom, height)
  BY <1>1
<1>12. Fits(M, height, drawing, grid, routing)
  BY <1>2, <1>8, <1>9, <1>10, <1>11, <1>14 DEF Fits
<1> QED
  BY <1>12 DEF MeasureOK, M
-----------------------------------------------------------------------------
(* A node over the middle of its columns, or left of that: unless its width *)
(* is odd and there is no room in the lane under it, it stays in them.      *)
OverX(left, wider, lanes, w) ==
  LET room == LANE * lanes
      middle == left + room \div 2 - w \div 2
      right == left + wider + room
  IN  IF middle + w > right THEN right - w ELSE middle

LEMMA OverMiddle ==
  ASSUME NEW left \in Nat, NEW wide \in Nat, NEW wider \in Nat, NEW lanes \in Nat, NEW w \in Nat,
         w \div 2 <= wide, w \div 2 <= wider
  PROVE  /\ OverX(left, wider, lanes, w) \in Int
         /\ left - wide - 1 <= OverX(left, wider, lanes, w)
         /\ OverX(left, wider, lanes, w) + w <= left + wider + LANE * lanes
         /\ 1 <= lanes => left - wide <= OverX(left, wider, lanes, w)
<1> DEFINE x == OverX(left, wider, lanes, w)
           middle == left + (LANE * lanes) \div 2 - w \div 2
           right == left + wider + LANE * lanes
<1>0. x = IF middle + w > right THEN right - w ELSE middle
  BY DEF OverX
<1> HIDE DEF x
<1>1. /\ w \div 2 \in Nat /\ w <= 2 * (w \div 2) + 1
      /\ (LANE * lanes) \div 2 = 4 * lanes /\ LANE * lanes = 8 * lanes
  BY DEF LANE
<1>2. middle = left + 4 * lanes - w \div 2 /\ right = left + wider + 8 * lanes
  BY <1>1
<1> DEFINE h == w \div 2
<1> HIDE DEF h, middle, right
<1>3. h \in Nat /\ w <= 2 * h + 1 /\ h <= wide /\ h <= wider /\ middle = left + 4 * lanes - h
  BY <1>1, <1>2 DEF h
<1>4. CASE middle + w > right
  <2>1. x = right - w
    BY <1>0, <1>4
  <2> QED
    BY <1>1, <1>2, <1>3, <1>4, <2>1 DEF x, right
<1>5. CASE ~(middle + w > right)
  <2>1. x = middle
    BY <1>0, <1>5
  <2> QED
    BY <1>1, <1>2, <1>3, <1>5, <2>1 DEF x, right
<1> QED
  BY <1>4, <1>5

(* The box of a node is inside of its row and its two columns. *)
Boxed(n, m, g, R, x, y, w, h) ==
  LET row == g.cell[n].row
      col == g.cell[n].col
  IN  /\ x \in Int /\ y \in Int /\ w \in Nat /\ h \in Nat
      /\ m.edgex[col] - 1 <= x
      /\ Touched(R, n, g) => m.edgex[col] <= x /\ m.edgex[col] + LANE * m.colroom[col] <= x
      /\ x + w <= m.edgex[col + 2]
      /\ y = m.edgey[row] + LANE * m.rowroom[row] + PADDING
      /\ m.edgey[row] <= y /\ y + h <= m.edgey[row + 1] /\ y + h + PADDING <= m.edgey[row + 1]

LEMMA BoxedIs ==
  ASSUME DrawingOK(drawing), GridOK, MeasureOK(measure, drawing, grid, routing), NEW n \in Nodes
  PROVE  Boxed(n, measure, grid, routing, NodeX(n), NodeY(n), drawing.width[n], Height(n))
<1> DEFINE row == grid.cell[n].row
           col == grid.cell[n].col
           w == drawing.width[n]
           high == drawing.height[n]
           room == LANE * measure.colroom[col + 1]
           left == measure.edgex[col] + LANE * measure.colroom[col] + measure.width[col]
           right == left + measure.width[col + 1] + room
<1>1. PICK height : Fits(measure, height, drawing, grid, routing)
  BY DEF MeasureOK
<1>2. /\ grid.rows \in Nat /\ grid.cols \in Nat
      /\ row \in 0 .. grid.rows - 1 /\ col \in 0 .. grid.cols - 2
  BY GridIs
<1>3. w \in Nat /\ high \in Nat /\ high >= NODE_PADDING
  BY DEF DrawingOK, Nodes
<1>4. NodeX(n) = OverX(left, measure.width[col + 1], measure.colroom[col + 1], w)
  BY DEF NodeX, OverX
<1>5. /\ NodeY(n) = measure.edgey[row] + LANE * measure.rowroom[row] + PADDING
      /\ Height(n) = high - NODE_PADDING
  BY DEF NodeY, Height
<1>6. n \in 1 .. drawing.nodes
  BY DEF Nodes
<1> HIDE DEF w, high
<1>7. /\ w \div 2 <= measure.width[col] /\ w \div 2 <= measure.width[col + 1]
      /\ high <= height[row]
      /\ Touched(routing, n, grid) => 1 <= measure.colroom[col + 1]
  BY <1>1, <1>6 DEF Fits, w, high
<1> HIDE DEF row, col
<1>8. /\ row \in 0 .. grid.rows /\ row + 1 \in 1 .. grid.rows /\ (row + 1) - 1 = row
      /\ col \in 0 .. grid.cols /\ col + 1 \in 0 .. grid.cols /\ col + 1 \in 1 .. grid.cols
      /\ (col + 1) - 1 = col
      /\ col + 2 \in 1 .. grid.cols /\ (col + 2) - 1 = col + 1
  BY <1>2
<1>9. /\ measure.colroom[col] \in Nat /\ measure.colroom[col + 1] \in Nat
      /\ measure.width[col] \in Nat /\ measure.width[col + 1] \in Nat
      /\ measure.rowroom[row] \in Nat /\ height[row] \in Nat
  BY <1>1, <1>8 DEF Fits
<1>10. /\ measure.edgex[col] \in Nat /\ measure.edgey[row] \in Nat
       /\ measure.edgex[col + 1] = left
       /\ measure.edgex[col + 2] = measure.edgex[col + 1] + room + measure.width[col + 1]
       /\ measure.edgey[row + 1] = measure.edgey[row] + LANE * measure.rowroom[row] + height[row]
  <2>1. /\ Positioned(measure.edgex, grid.cols, measure.colroom, measure.width)
        /\ Positioned(measure.edgey, grid.rows, measure.rowroom, height)
    BY <1>1 DEF Fits
  <2> QED
    BY <1>8, <2>1 DEF Positioned
<1> DEFINE lanes == measure.colroom[col + 1]
           wide == measure.width[col]
           wider == measure.width[col + 1]
           gap == LANE * measure.colroom[col]
<1>11. /\ left \in Nat /\ gap \in Nat /\ left = measure.edgex[col] + gap + wide
       /\ lanes \in Nat /\ wide \in Nat /\ wider \in Nat
  BY <1>9, <1>10 DEF LANE
<1> HIDE DEF left
<1>12. /\ NodeX(n) \in Int /\ left - wide - 1 <= NodeX(n) /\ NodeX(n) + w <= right
       /\ 1 <= lanes => left - wide <= NodeX(n)
  <2>1. w \div 2 <= wide /\ w \div 2 <= wider
    BY <1>7
  <2>2. right = left + wider + LANE * lanes /\ NodeX(n) = OverX(left, wider, lanes, w)
    BY <1>4
  <2> HIDE DEF lanes, wide, wider, right
  <2>3. left \in Nat /\ wide \in Nat /\ wider \in Nat /\ lanes \in Nat /\ w \in Nat
    BY <1>3, <1>11
  <2>4. /\ OverX(left, wider, lanes, w) \in Int
        /\ left - wide - 1 <= OverX(left, wider, lanes, w)
        /\ OverX(left, wider, lanes, w) + w <= left + wider + LANE * lanes
        /\ 1 <= lanes => left - wide <= OverX(left, wider, lanes, w)
    BY <2>1, <2>3, OverMiddle
  <2> QED
    BY <2>2, <2>4
<1>13. right = measure.edgex[col + 2]
  BY <1>9, <1>10, <1>11 DEF LANE
<1>14. /\ measure.edgex[col] - 1 <= NodeX(n)
       /\ Touched(routing, n, grid) => measure.edgex[col] <= NodeX(n) /\ measure.edgex[col] + gap <= NodeX(n)
  <2> HIDE DEF gap, wide, lanes
  <2>1. Touched(routing, n, grid) => 1 <= lanes
    BY <1>7 DEF lanes
  <2>2. measure.edgex[col] + gap <= left - wide /\ measure.edgex[col] <= left - wide
    BY <1>10, <1>11
  <2>3. measure.edgex[col] - 1 <= NodeX(n)
    BY <1>10, <1>11, <1>12, <2>2
  <2>4. 1 <= lanes => measure.edgex[col] <= NodeX(n) /\ measure.edgex[col] + gap <= NodeX(n)
    BY <1>10, <1>11, <1>12, <2>2
  <2> QED
    BY <2>1, <2>3, <2>4
<1>15. /\ NodeY(n) \in Int /\ Height(n) \in Nat
       /\ measure.edgey[row] <= NodeY(n) /\ NodeY(n) + Height(n) <= measure.edgey[row + 1]
       /\ NodeY(n) + Height(n) + PADDING <= measure.edgey[row + 1]
  BY <1>3, <1>5, <1>7, <1>9, <1>10 DEF LANE, PADDING, NODE_PADDING
<1> QED
  BY <1>3, <1>5, <1>12, <1>13, <1>14, <1>15 DEF Boxed, row, col, w

(* Of two nodes, each is joined by an edge: the root leads to the other one. *)
LEMMA NodesTouched ==
  ASSUME DrawingOK(drawing), EdgesTouch, toroute = <<>>, NEW n \in Nodes, NEW m \in Nodes, m # n
  PROVE  Touched(routing, n, grid)
<1> DEFINE E == drawing.edges
           S == IF n = drawing.root THEN {n} ELSE Nodes \ {n}
<1>1. E \in Seq(Nodes \X Nodes) /\ drawing.root \in Nodes
  BY DEF DrawingOK, Nodes
<1>2. \A i \in DOMAIN E : E[i] \in ToSet(E) /\ E[i][1] \in Nodes /\ E[i][2] \in Nodes
  BY <1>1 DEF ToSet
<1>3. PICK i \in DOMAIN E : E[i][1] \in S /\ E[i][2] \notin S
  <2>1. S \in SUBSET Nodes /\ drawing.root \in S /\ S # Nodes
    BY <1>1
  <2> HIDE DEF S
  <2> QED
    BY <2>1 DEF DrawingOK, Nodes
<1>4. E[i][1] = n \/ E[i][2] = n
  BY <1>2, <1>3
<1>5. ToSet(toroute) = {}
  BY DEF ToSet
<1>6. Touched(routing, E[i][1], grid) /\ Touched(routing, E[i][2], grid)
  BY <1>2, <1>5 DEF EdgesTouch
<1> QED
  BY <1>4, <1>6

(* Where columns and rows are in the picture. *)
LEMMA Edges ==
  ASSUME GridOK, MeasureOK(measure, drawing, grid, routing)
  PROVE  /\ \A i \in 0 .. grid.cols :
              PADDING <= measure.edgex[i] /\ measure.edgex[i] <= measure.edgex[grid.cols]
         /\ \A i \in 0 .. grid.rows :
              PADDING <= measure.edgey[i] /\ measure.edgey[i] <= measure.edgey[grid.rows]
         /\ \A i, j \in 0 .. grid.cols : i <= j => measure.edgex[i] <= measure.edgex[j]
         /\ \A i, j \in 0 .. grid.rows : i <= j => measure.edgey[i] <= measure.edgey[j]
         /\ \A i \in 0 .. grid.cols : measure.edgex[i] \in Nat /\ measure.colroom[i] \in Nat
         /\ \A i \in 0 .. grid.rows : measure.edgey[i] \in Nat /\ measure.rowroom[i] \in Nat
<1>1. PICK height : Fits(measure, height, drawing, grid, routing)
  BY DEF MeasureOK
<1>2. /\ Positioned(measure.edgex, grid.cols, measure.colroom, measure.width)
      /\ Positioned(measure.edgey, grid.rows, measure.rowroom, height)
      /\ measure.colroom \in [0 .. grid.cols -> Nat] /\ measure.rowroom \in [0 .. grid.rows -> Nat]
  BY <1>1 DEF Fits
<1>3. grid.cols \in Nat /\ grid.rows \in Nat
  BY GridIs
<1>4. /\ \A i \in 0 .. grid.cols : 0 <= i /\ i <= grid.cols
      /\ \A i \in 0 .. grid.rows : 0 <= i /\ i <= grid.rows
      /\ 0 \in 0 .. grid.cols /\ grid.cols \in 0 .. grid.cols
      /\ 0 \in 0 .. grid.rows /\ grid.rows \in 0 .. grid.rows
  BY <1>3
<1> QED
  BY <1>2, <1>4 DEF Positioned

(* Two boxes that do not overlap. *)
BoxesApart(a, b) ==
  a.x + a.width <= b.x \/ b.x + b.width <= a.x \/ a.y + a.height <= b.y \/ b.y + b.height <= a.y

BoxAt(n) == [x |-> NodeX(n), y |-> NodeY(n), width |-> drawing.width[n], height |-> Height(n)]

LEMMA BoxesAreApart ==
  ASSUME DrawingOK(drawing), GridOK, MeasureOK(measure, drawing, grid, routing), EdgesTouch,
         toroute = <<>>, NEW m \in Nodes, NEW n \in Nodes, m # n
  PROVE  BoxesApart(BoxAt(m), BoxAt(n))
<1> DEFINE w(k) == drawing.width[k]
           row(k) == grid.cell[k].row
           col(k) == grid.cell[k].col
           ex(i) == measure.edgex[i]
           ey(i) == measure.edgey[i]
<1>1. ASSUME NEW k \in {m, n}
      PROVE  /\ NodeX(k) \in Int /\ NodeY(k) \in Int /\ w(k) \in Nat /\ Height(k) \in Nat
             /\ ex(col(k)) <= NodeX(k) /\ NodeX(k) + w(k) <= ex(col(k) + 2)
             /\ ey(row(k)) <= NodeY(k) /\ NodeY(k) + Height(k) <= ey(row(k) + 1)
  <2>1. Boxed(k, measure, grid, routing, NodeX(k), NodeY(k), drawing.width[k], Height(k))
    BY BoxedIs
  <2>2. Touched(routing, k, grid)
    BY NodesTouched
  <2> QED
    BY <2>1, <2>2 DEF Boxed
<1>2. ASSUME NEW k \in {m, n}
      PROVE  /\ row(k) \in 0 .. grid.rows /\ row(k) + 1 \in 0 .. grid.rows
             /\ col(k) \in 0 .. grid.cols /\ col(k) + 2 \in 0 .. grid.cols
  <2>1. row(k) \in 0 .. grid.rows - 1 /\ col(k) \in 0 .. grid.cols - 2
        /\ grid.rows \in Nat /\ grid.cols \in Nat
    BY GridIs
  <2> HIDE DEF row, col
  <2> QED
    BY <2>1
<1>3. Apart(grid.cell[m], grid.cell[n])
  BY GridIs DEF CellsApart
<1>4. /\ row(m) + 1 <= row(n) \/ row(n) + 1 <= row(m)
         \/ col(m) + 2 <= col(n) \/ col(n) + 2 <= col(m)
  <2>1. row(m) # row(n) \/ col(m) + 2 <= col(n) \/ col(n) + 2 <= col(m)
    BY <1>3 DEF Apart
  <2>2. row(m) \in 0 .. grid.rows /\ row(n) \in 0 .. grid.rows /\ grid.rows \in Nat
    BY <1>2, GridIs
  <2> HIDE DEF row, col
  <2>3. row(m) # row(n) => row(m) + 1 <= row(n) \/ row(n) + 1 <= row(m)
    BY <2>2
  <2> QED
    BY <2>1, <2>3
<1>5. /\ \A i, j \in 0 .. grid.cols : i <= j => ex(i) <= ex(j)
      /\ \A i, j \in 0 .. grid.rows : i <= j => ey(i) <= ey(j)
      /\ \A i \in 0 .. grid.cols : ex(i) \in Nat
      /\ \A i \in 0 .. grid.rows : ey(i) \in Nat
  BY Edges
<1> HIDE DEF w, row, col, ex, ey
<1>6. \/ NodeX(m) + w(m) <= NodeX(n) \/ NodeX(n) + w(n) <= NodeX(m)
      \/ NodeY(m) + Height(m) <= NodeY(n) \/ NodeY(n) + Height(n) <= NodeY(m)
  <2>1. CASE row(m) + 1 <= row(n)
    <3>1. ey(row(m) + 1) <= ey(row(n)) /\ ey(row(m) + 1) \in Nat /\ ey(row(n)) \in Nat
      BY <1>2, <1>5, <2>1
    <3> QED
      BY <1>1, <3>1
  <2>2. CASE row(n) + 1 <= row(m)
    <3>1. ey(row(n) + 1) <= ey(row(m)) /\ ey(row(n) + 1) \in Nat /\ ey(row(m)) \in Nat
      BY <1>2, <1>5, <2>2
    <3> QED
      BY <1>1, <3>1
  <2>3. CASE col(m) + 2 <= col(n)
    <3>1. ex(col(m) + 2) <= ex(col(n)) /\ ex(col(m) + 2) \in Nat /\ ex(col(n)) \in Nat
      BY <1>2, <1>5, <2>3
    <3> QED
      BY <1>1, <3>1
  <2>4. CASE col(n) + 2 <= col(m)
    <3>1. ex(col(n) + 2) <= ex(col(m)) /\ ex(col(n) + 2) \in Nat /\ ex(col(m)) \in Nat
      BY <1>2, <1>5, <2>4
    <3> QED
      BY <1>1, <3>1
  <2> QED
    BY <1>4, <2>1, <2>2, <2>3, <2>4
<1> QED
  BY <1>6 DEF BoxesApart, BoxAt, w

(* All nodes are inside of the picture. *)
InPicture(b, width, height) ==
  b.x >= 0 /\ b.y >= 0 /\ b.x + b.width <= width /\ b.y + b.height <= height

LEMMA BoxInPicture ==
  ASSUME DrawingOK(drawing), GridOK, MeasureOK(measure, drawing, grid, routing), NEW n \in Nodes
  PROVE  InPicture(BoxAt(n),
                   measure.edgex[grid.cols] + PADDING + LANE * measure.colroom[grid.cols],
                   measure.edgey[grid.rows] + PADDING + LANE * measure.rowroom[grid.rows])
<1> DEFINE row == grid.cell[n].row
           col == grid.cell[n].col
           x == NodeX(n)
           y == NodeY(n)
           w == drawing.width[n]
           h == Height(n)
<1>1. /\ x \in Int /\ y \in Int /\ w \in Nat /\ h \in Nat
      /\ measure.edgex[col] - 1 <= x /\ x + w <= measure.edgex[col + 2]
      /\ measure.edgey[row] <= y /\ y + h <= measure.edgey[row + 1]
  BY BoxedIs DEF Boxed
<1>2. /\ row \in 0 .. grid.rows /\ row + 1 \in 0 .. grid.rows /\ grid.rows \in 0 .. grid.rows
      /\ col \in 0 .. grid.cols /\ col + 2 \in 0 .. grid.cols /\ grid.cols \in 0 .. grid.cols
  <2>1. row \in 0 .. grid.rows - 1 /\ col \in 0 .. grid.cols - 2
        /\ grid.rows \in Nat /\ grid.cols \in Nat
    BY GridIs
  <2> QED
    BY <2>1
<1>3. BoxAt(n).x = x /\ BoxAt(n).y = y /\ BoxAt(n).width = w /\ BoxAt(n).height = h
  BY DEF BoxAt
<1> HIDE DEF row, col, x, y, w, h
<1>4. /\ PADDING <= measure.edgex[col] /\ measure.edgex[col + 2] <= measure.edgex[grid.cols]
      /\ PADDING <= measure.edgey[row] /\ measure.edgey[row + 1] <= measure.edgey[grid.rows]
      /\ measure.edgex[col] \in Nat /\ measure.edgex[col + 2] \in Nat
      /\ measure.edgey[row] \in Nat /\ measure.edgey[row + 1] \in Nat
      /\ measure.edgex[grid.cols] \in Nat /\ measure.colroom[grid.cols] \in Nat
      /\ measure.edgey[grid.rows] \in Nat /\ measure.rowroom[grid.rows] \in Nat
  BY <1>2, Edges
<1>5. /\ x >= 0 /\ y >= 0
      /\ x + w <= measure.edgex[grid.cols] + PADDING + LANE * measure.colroom[grid.cols]
      /\ y + h <= measure.edgey[grid.rows] + PADDING + LANE * measure.rowroom[grid.rows]
  BY <1>1, <1>4 DEF PADDING, LANE
<1> QED
  BY <1>3, <1>5 DEF InPicture

(* The measures before the picture is drawn, and what the picture shows.    *)
PictureInv ==
  /\ step = "draw" => MeasureOK(measure, drawing, grid, routing)
  /\ NodesApart

LEMMA MeasurePicture == ASSUME TreeInv, RouteInv, Measure PROVE PictureInv'
<1>1. /\ step = "route" /\ step' = "draw" /\ measure' = Measured
      /\ drawing' = drawing /\ grid' = grid /\ routing' = routing
  BY DEF Measure, tree
<1>2. DrawingOK(drawing) /\ GridOK /\ MarksIn(routing, grid)
  BY <1>1 DEF TreeInv, Spanning, RouteInv
<1>3. MeasureOK(Measured, drawing, grid, routing)
  BY <1>2, MeasuredIs
<1>4. MeasureOK(measure', drawing', grid', routing')
  BY <1>1, <1>3, Zenon
<1> QED
  BY <1>1, <1>4 DEF PictureInv, NodesApart

LEMMA DrawPicture == ASSUME TreeInv, RouteInv, PictureInv, Draw PROVE PictureInv'
<1> DEFINE boxes == [n \in Nodes |-> BoxAt(n)]
           lines == [i \in DOMAIN routing.routes |-> Line(routing.routes[i])]
           width == measure.edgex[grid.cols] + PADDING + LANE * measure.colroom[grid.cols]
           height == measure.edgey[grid.rows] + PADDING + LANE * measure.rowroom[grid.rows]
<1>1. /\ step = "draw" /\ step' = "done" /\ drawing' = drawing
      /\ picture' = [boxes |-> boxes, lines |-> lines, width |-> width, height |-> height]
  BY DEF Draw, tree, BoxAt
<1>2. /\ DrawingOK(drawing) /\ GridOK /\ EdgesTouch /\ toroute = <<>>
      /\ MeasureOK(measure, drawing, grid, routing)
  BY <1>1 DEF TreeInv, Spanning, RouteInv, PictureInv
<1>3. \A n \in Nodes : InPicture(BoxAt(n), width, height)
  BY <1>2, BoxInPicture
<1>4. \A m, n \in Nodes : m # n => BoxesApart(BoxAt(m), BoxAt(n))
  BY <1>2, BoxesAreApart
<1> HIDE DEF lines, width, height
<1>5. /\ picture'.boxes = boxes /\ picture'.width = width /\ picture'.height = height
  BY <1>1
<1>6. \A n \in Nodes : boxes[n] = BoxAt(n)
  OBVIOUS
<1> HIDE DEF boxes
<1>7. Nodes' = Nodes
  BY <1>1 DEF Nodes
<1>8. \A n \in Nodes' : picture'.boxes[n] = BoxAt(n)
  BY <1>5, <1>6, <1>7
<1>9. \A n \in Nodes' : InPicture(picture'.boxes[n], picture'.width, picture'.height)
  BY <1>3, <1>5, <1>7, <1>8
<1>10. \A m, n \in Nodes' : m = n \/ BoxesApart(picture'.boxes[m], picture'.boxes[n])
  BY <1>4, <1>7, <1>8
<1>11. NodesApart'
  BY <1>9, <1>10, Zenon DEF NodesApart, InPicture, BoxesApart
<1> QED
  BY <1>1, <1>11 DEF PictureInv

LEMMA PictureUnmoved ==
  ASSUME PictureInv, UNCHANGED <<step, measure, drawing, grid, routing, picture>>
  PROVE  PictureInv'
<1>1. Nodes' = Nodes
  BY DEF Nodes
<1>2. NodesApart' = NodesApart
  BY <1>1 DEF NodesApart
<1> QED
  BY <1>2 DEF PictureInv

LEMMA PictureNext == TreeInv /\ RouteInv /\ PictureInv /\ [Next]_vars => PictureInv'
<1> SUFFICES ASSUME TreeInv, RouteInv, PictureInv, [Next]_vars PROVE PictureInv'
  OBVIOUS
<1>1. CASE Measure
  BY <1>1, MeasurePicture
<1>2. CASE Draw
  BY <1>2, DrawPicture
<1>3. CASE TakeFront \/ PickBest \/ Arrange \/ RouteEdge \/ Execute
  <2>1. step' \in {"acyclic", "route"}
    BY <1>3 DEF TakeFront, PickBest, Arrange, RouteEdge, Execute, Open
  <2> QED
    BY <2>1 DEF PictureInv, NodesApart
<1>4. CASE UNCHANGED layoutVars
  <2>1. UNCHANGED <<step, measure, drawing, grid, routing, picture>>
    BY <1>4 DEF layoutVars, tree
  <2> QED
    BY <2>1, PictureUnmoved
<1>5. CASE UNCHANGED vars
  BY <1>4, <1>5 DEF vars
<1> QED
  BY <1>1, <1>2, <1>3, <1>4, <1>5 DEF Next, Layout, LayoutNext, BuildGraphs

(* In the picture of any graph, whatever the sizes of its nodes and in any  *)
(* type of layout, all nodes are inside and no two overlap                  *)
(* (computeNodePositions, from what the phases before it leave).            *)
THEOREM NodesDrawnApart == Spec => []NodesApart
<1>1. Init => PictureInv
  BY DEF Init, LayoutInit, PictureInv, NodesApart
<1>2. PictureInv => NodesApart
  BY DEF PictureInv
<1> QED
  BY <1>1, <1>2, RouteAlways, PictureNext, PTL DEF Spec
-----------------------------------------------------------------------------
(* The row lane under a node, and the column lane through its middle.       *)
Foot(g, n) == g.cell[n].row + 1
Mid(g, n) == g.cell[n].col + 1

(* A way from a node to another one: the rows and columns it leaves from    *)
(* and goes to, the column col that it takes between them, and the indices  *)
(* of its lanes: below the source, to that column, in it, from it and above *)
(* the target.                                                              *)
Leads(w, g, s, t) ==
  w.row = Foot(g, s) /\ w.from = Mid(g, s) /\ w.endrow = g.cell[t].row /\ w.to = Mid(g, t)

Straight(w) == w.col = w.from /\ w.row # w.endrow

Turn(r, c, i) == [row |-> r, col |-> c, index |-> i]

(* The points of a route, without those of the turns that it does not make. *)
Turns(w) ==
  IF w.row = w.endrow
  THEN IF w.col = w.to THEN <<Turn(w.row, w.from, 0)>>
       ELSE <<Turn(w.row, w.from, w.i3), Turn(w.endrow, w.to, w.i4)>>
  ELSE IF w.col = w.from
  THEN IF w.col = w.to THEN <<Turn(w.row, w.from, w.i2), Turn(w.endrow, w.col, 0)>>
       ELSE <<Turn(w.row, w.from, w.i2), Turn(w.endrow, w.col, w.i3), Turn(w.endrow, w.to, w.i4)>>
  ELSE IF w.col = w.to
  THEN <<Turn(w.row, w.from, w.i1), Turn(w.row, w.col, w.i2), Turn(w.endrow, w.col, 0)>>
  ELSE <<Turn(w.row, w.from, w.i1), Turn(w.row, w.col, w.i2), Turn(w.endrow, w.col, w.i3),
         Turn(w.endrow, w.to, w.i4)>>

(* The marks of a way in the lanes of columns and rows. *)
ColMarks(w) ==
  (IF w.col # w.from \/ w.row = w.endrow THEN {<<w.row, w.from, w.out>>} ELSE {})
  \cup (IF w.row # w.endrow THEN Lane(Between(w.row, w.endrow), {w.col}, w.i2) ELSE {})
  \cup (IF w.col # w.to THEN {<<w.endrow, w.to, w.i4>>} ELSE {})

RowMarks(w) ==
  (IF w.col # w.from THEN Lane({w.row}, Between(w.from, w.col), w.i1) ELSE {})
  \cup (IF w.col # w.to THEN Lane({w.endrow}, Between(w.col, w.to), w.i3) ELSE {})

(* A way can be taken: the column it takes is inside the grid and runs      *)
(* through no node between its rows, and is the one it leaves from if it    *)
(* does not leave the row.                                                  *)
Passable(w, g) ==
  /\ w.col \in 0 .. g.cols
  /\ w.out \in Nat /\ w.i1 \in Nat /\ w.i2 \in Nat /\ w.i3 \in Nat /\ w.i4 \in Nat
  /\ w.row = w.endrow => w.col = w.from
  /\ w.col = w.from => w.row <= w.endrow
  /\ \A n \in DOMAIN g.cell :
       g.cell[n].row \in Smaller(w.row, w.endrow) .. Larger(w.row, w.endrow) - 1 => Mid(g, n) # w.col

Takes(q, w, s, t) ==
  /\ q.edge = <<s, t>> /\ q.points = Turns(w)
  /\ q.start = IF Straight(w) THEN w.i2 ELSE w.out

(* What routing an edge adds: a way whose marks are all new, straight down  *)
(* in the lane of the least index that is free.                             *)
Choice(old, new, g, s, t, w) ==
  /\ Leads(w, g, s, t) /\ Passable(w, g)
  /\ \E q : new.routes = Append(old.routes, q) /\ Takes(q, w, s, t)
  /\ new.col = old.col \cup ColMarks(w) /\ \A m \in ColMarks(w) : m \notin old.col
  /\ new.row = old.row \cup RowMarks(w) /\ \A m \in RowMarks(w) : m \notin old.row
  /\ Straight(w) =>
       \A i \in Nat : i < w.i2 => \E r \in Between(w.row, w.endrow) : <<r, w.col, i>> \in old.col

LEMMA SameTuple ==
  ASSUME NEW n, NEW s, NEW u, s = [k \in 1 .. n |-> s[k]], u = [k \in 1 .. n |-> u[k]],
         \A k \in 1 .. n : s[k] = u[k]
  PROVE  s = u
OBVIOUS

LEMMA TwoParts == ASSUME NEW a, NEW b PROVE <<a>> \o <<b>> = <<a, b>>
<1> DEFINE s == <<a>> \o <<b>>
           u == <<a, b>>
<1>1. s = [k \in 1 .. 2 |-> s[k]] /\ s[1] = a /\ s[2] = b
  OBVIOUS
<1>2. u = [k \in 1 .. 2 |-> u[k]] /\ u[1] = a /\ u[2] = b
  OBVIOUS
<1> HIDE DEF s, u
<1>3. \A k \in 1 .. 2 : s[k] = u[k]
  BY <1>1, <1>2
<1>4. s = u
  BY <1>1, <1>2, <1>3, SameTuple
<1> QED
  BY <1>4 DEF s, u

LEMMA ThreeParts == ASSUME NEW a, NEW b, NEW c PROVE <<a, b>> \o <<c>> = <<a, b, c>>
<1> DEFINE s == <<a, b>> \o <<c>>
           u == <<a, b, c>>
<1>1. s = [k \in 1 .. 3 |-> s[k]] /\ s[1] = a /\ s[2] = b /\ s[3] = c
  OBVIOUS
<1>2. u = [k \in 1 .. 3 |-> u[k]] /\ u[1] = a /\ u[2] = b /\ u[3] = c
  OBVIOUS
<1> HIDE DEF s, u
<1>3. \A k \in 1 .. 3 : s[k] = u[k]
  BY <1>1, <1>2
<1>4. s = u
  BY <1>1, <1>2, <1>3, SameTuple
<1> QED
  BY <1>4 DEF s, u

LEMMA FourParts == ASSUME NEW a, NEW b, NEW c, NEW d PROVE <<a, b, c>> \o <<d>> = <<a, b, c, d>>
<1> DEFINE s == <<a, b, c>> \o <<d>>
           u == <<a, b, c, d>>
<1>1. s = [k \in 1 .. 4 |-> s[k]] /\ s[1] = a /\ s[2] = b /\ s[3] = c /\ s[4] = d
  OBVIOUS
<1>2. u = [k \in 1 .. 4 |-> u[k]] /\ u[1] = a /\ u[2] = b /\ u[3] = c /\ u[4] = d
  OBVIOUS
<1> HIDE DEF s, u
<1>3. \A k \in 1 .. 4 : s[k] = u[k]
  BY <1>1, <1>2
<1>4. s = u
  BY <1>1, <1>2, <1>3, SameTuple
<1> QED
  BY <1>4 DEF s, u

LEMMA NoneBut ==
  /\ \A a : <<>> \o <<a>> = <<a>> /\ <<a>> \o <<>> = <<a>>
  /\ \A a, b : <<a, b>> \o <<>> = <<a, b>>
  /\ \A a, b, c : <<a, b, c>> \o <<>> = <<a, b, c>>
  /\ <<>> \o <<>> = <<>>
OBVIOUS

(* The points of a route are its cells with their indices.                  *)
Points(cells, indices) ==
  [k \in DOMAIN cells |-> [row |-> cells[k][1], col |-> cells[k][2], index |-> indices[k]]]

LEMMA OnePoint ==
  ASSUME NEW a1, NEW a2, NEW a3
  PROVE  Points(<<<<a1, a2>>>>, <<a3>>)
           = <<Turn(a1, a2, a3)>>
BY DEF Points, Turn

LEMMA TwoPoints ==
  ASSUME NEW a1, NEW a2, NEW a3, NEW b1, NEW b2, NEW b3
  PROVE  Points(<<<<a1, a2>>, <<b1, b2>>>>, <<a3, b3>>)
           = <<Turn(a1, a2, a3), Turn(b1, b2, b3)>>
BY DEF Points, Turn

LEMMA ThreePoints ==
  ASSUME NEW a1, NEW a2, NEW a3, NEW b1, NEW b2, NEW b3, NEW c1, NEW c2, NEW c3
  PROVE  Points(<<<<a1, a2>>, <<b1, b2>>, <<c1, c2>>>>, <<a3, b3, c3>>)
           = <<Turn(a1, a2, a3), Turn(b1, b2, b3), Turn(c1, c2, c3)>>
BY DEF Points, Turn

LEMMA FourPoints ==
  ASSUME NEW a1, NEW a2, NEW a3, NEW b1, NEW b2, NEW b3, NEW c1, NEW c2, NEW c3, NEW d1, NEW d2, NEW d3
  PROVE  Points(<<<<a1, a2>>, <<b1, b2>>, <<c1, c2>>, <<d1, d2>>>>, <<a3, b3, c3, d3>>)
           = <<Turn(a1, a2, a3), Turn(b1, b2, b3), Turn(c1, c2, c3), Turn(d1, d2, d3)>>
BY DEF Points, Turn

LEMMA RoutedChoice ==
  ASSUME GridOK, MarksIn(routing, grid), NEW s \in Nodes, NEW t \in Nodes
  PROVE  \E w : Choice(routing, Routed(s, t), grid, s, t, w)
<1> DEFINE lanes == routing
           row == grid.cell[s].row + 1
           from == grid.cell[s].col + 1
           endrow == grid.cell[t].row
           to == grid.cell[t].col + 1
           rows == Between(row, endrow)
           col == RouteColumn(from, to, Smaller(row, endrow), Larger(row, endrow))
           out == FreeIndex(lanes.col, {row}, {from})
           across == col # from
           down == endrow # row
           back == col # to
           straight == down /\ ~across
           i1 == FreeIndex(lanes.row, {row}, Between(from, col))
           row1 == IF across THEN lanes.row \cup Lane({row}, Between(from, col), i1) ELSE lanes.row
           col1 == IF straight THEN lanes.col ELSE lanes.col \cup {<<row, from, out>>}
           i2 == VertLane(col1, rows, col)
           col2 == IF down THEN col1 \cup Lane(rows, {col}, i2) ELSE col1
           i3 == FreeIndex(row1, {endrow}, Between(col, to))
           row2 == IF back THEN row1 \cup Lane({endrow}, Between(col, to), i3) ELSE row1
           horiz == back \/ (across /\ ~down)
           i4 == IF horiz THEN FreeIndex(col2, {endrow}, {to}) ELSE 0
           cells == <<<<row, from>>>> \o (IF across THEN <<<<row, col>>>> ELSE <<>>)
                    \o (IF down THEN <<<<endrow, col>>>> ELSE <<>>)
                    \o (IF back THEN <<<<endrow, to>>>> ELSE <<>>)
           indices == (IF across THEN <<i1>> ELSE <<>>) \o (IF down THEN <<i2>> ELSE <<>>)
                      \o (IF back THEN <<i3>> ELSE <<>>) \o <<i4>>
           route == [edge |-> <<s, t>>, start |-> IF straight THEN i2 ELSE out,
                     points |-> [k \in DOMAIN cells |->
                                   [row |-> cells[k][1], col |-> cells[k][2], index |-> indices[k]]]]
           col3 == IF horiz THEN col2 \cup {<<endrow, to, i4>>} ELSE col2
           was1 == lanes.was \cup {<<row, from, out>>}
           R == Routed(s, t)
           N == grid.rows
           M == grid.cols
<1>1. R = [routes |-> Append(lanes.routes, route), row |-> row2, col |-> col3, was |-> was1]
  BY DEF Routed
<1>2. route.points = Points(cells, indices) /\ route.edge = <<s, t>>
      /\ route.start = IF straight THEN i2 ELSE out
  BY Zenon DEF Points
<1>3. route = [edge |-> <<s, t>>, start |-> IF straight THEN i2 ELSE out, points |-> Points(cells, indices)]
  BY DEF Points
<1> HIDE DEF route, R
<1>4. /\ N \in Nat /\ M \in Nat /\ row \in 0 .. N /\ from \in 0 .. M
      /\ endrow \in 0 .. N /\ to \in 0 .. M
      /\ grid.cell[s] = [row |-> row - 1, col |-> from - 1]
  <2>1. /\ grid.rows \in Nat /\ grid.cols \in Nat
        /\ grid.cell[s].row \in 0 .. grid.rows - 1 /\ grid.cell[s].col \in 0 .. grid.cols - 2
        /\ grid.cell[t].row \in 0 .. grid.rows - 1 /\ grid.cell[t].col \in 0 .. grid.cols - 2
        /\ grid \in LayoutOf(Nodes) /\ DOMAIN grid.cell = Nodes
    BY GridIs
  <2>2. grid.cell[s] \in Cell
    BY <2>1, LayoutsAre
  <2>3. row - 1 = grid.cell[s].row /\ from - 1 = grid.cell[s].col
    BY <2>1
  <2> QED
    BY <2>1, <2>2, <2>3 DEF Cell
<1>5. row = Foot(grid, s) /\ from = Mid(grid, s) /\ endrow = grid.cell[t].row /\ to = Mid(grid, t)
  BY DEF Foot, Mid
<1> HIDE DEF row, from, endrow, to
<1> DEFINE low == Smaller(row, endrow)
           high == Larger(row, endrow)
<1>6. low \in Nat /\ high \in Nat /\ (low = high <=> row = endrow) /\ (endrow < row => low = endrow /\ high = row)
  BY <1>4 DEF Smaller, Larger
<1>7. /\ col \in 0 .. M /\ (row = endrow => col = from)
      /\ \A r \in low .. high - 1 : EdgeValid(r, col)
  <2> HIDE DEF low, high
  <2>1. col = RouteColumn(from, to, low, high)
    BY DEF low, high
  <2>2. low = high => low .. high - 1 = {}
    BY <1>6
  <2> HIDE DEF col
  <2> QED
    BY <1>4, <1>6, <2>1, <2>2, RouteColumnIs
<1> HIDE DEF low, high, col
<1>8. col = from => row <= endrow
  <2> SUFFICES ASSUME col = from, endrow < row PROVE FALSE
    BY <1>4
  <2>1. row - 1 \in low .. high - 1
    BY <1>4, <1>6
  <2>2. EdgeValid(row - 1, from)
    BY <1>7, <2>1
  <2> QED
    BY <1>4, <2>2 DEF EdgeValid
<1>9. /\ rows \subseteq 0 .. N /\ Between(from, col) \subseteq 0 .. M /\ Between(col, to) \subseteq 0 .. M
      /\ {row} \subseteq 0 .. N /\ {endrow} \subseteq 0 .. N /\ {col} \subseteq 0 .. M
  BY <1>4, <1>7 DEF Between, Smaller, Larger
<1>10. LanesOK(lanes.row, N, M) /\ LanesOK(lanes.col, N, M)
  BY DEF MarksIn
<1> HIDE DEF N, M, lanes
<1>11. across => down
  BY <1>7
<1>12. i1 \in Nat /\ \A m \in Lane({row}, Between(from, col), i1) : m \notin lanes.row
  BY <1>10, FreeIndexIs DEF Lane
<1> HIDE DEF i1
<1>13. LanesOK(row1, N, M)
  BY <1>9, <1>10, <1>12, LanesMore
<1> HIDE DEF row1
<1>14. i3 \in Nat /\ \A m \in Lane({endrow}, Between(col, to), i3) : m \notin row1
  BY <1>13, FreeIndexIs DEF Lane
<1>15. out \in Nat /\ <<row, from, out>> \notin lanes.col
  BY <1>10, FreeIndexIs
<1> HIDE DEF out
<1>16. LanesOK(col1, N, M)
  BY <1>4, <1>10, <1>15, LanesOne
<1> HIDE DEF col1
<1>17. /\ i2 \in Nat /\ \A m \in Lane(rows, {col}, i2) : m \notin col1
       /\ \A i \in Nat : i < i2 => \E r \in rows : <<r, col, i>> \in col1
  <2>0. i2 = FreeIndex(col1, rows, {col})
    BY DEF VertLane
  <2>1. /\ i2 \in Nat /\ \A r \in rows, c \in {col} : <<r, c, i2>> \notin col1
        /\ \A i \in Nat : i < i2 => \E r \in rows, c \in {col} : <<r, c, i>> \in col1
    <3> DEFINE f == FreeIndex(col1, rows, {col})
    <3> DEFINE C == {col}
    <3> HIDE DEF rows, i2, C
    <3>0. LanesOK(col1, N, M)
      BY <1>16
    <3>1. /\ FreeIndex(col1, rows, C) \in Nat
          /\ \A r \in rows, c \in C : <<r, c, FreeIndex(col1, rows, C)>> \notin col1
          /\ \A i \in Nat : i < FreeIndex(col1, rows, C) => \E r \in rows, c \in C : <<r, c, i>> \in col1
      BY <3>0, FreeIndexIs
    <3>2. /\ f \in Nat /\ \A r \in rows, c \in {col} : <<r, c, f>> \notin col1
          /\ \A i \in Nat : i < f => \E r \in rows, c \in {col} : <<r, c, i>> \in col1
      BY <3>1 DEF C
    <3> HIDE DEF f
    <3> QED
      BY <2>0, <3>2 DEF f
  <2> HIDE DEF i2, rows
  <2> QED
    BY <2>1 DEF Lane
<1> HIDE DEF i2
<1>18. LanesOK(col2, N, M)
  BY <1>9, <1>16, <1>17, LanesMore
<1> HIDE DEF col2
<1>19. i4 \in Nat /\ (back => <<endrow, to, i4>> \notin col2)
  <2>1. /\ FreeIndex(col2, {endrow}, {to}) \in Nat
        /\ \A r \in {endrow}, c \in {to} : <<r, c, FreeIndex(col2, {endrow}, {to})>> \notin col2
    BY <1>18, FreeIndexIs
  <2> QED
    BY <2>1
<1> HIDE DEF i3
<1> DEFINE w == [row |-> row, from |-> from, endrow |-> endrow, to |-> to, col |-> col, out |-> out,
                 i1 |-> i1, i2 |-> i2, i3 |-> i3, i4 |-> i4]
<1>20. horiz = back
  BY <1>11
<1>21. ~back => i4 = 0
  BY <1>20
<1> HIDE DEF i4
<1>22. /\ w.row = row /\ w.from = from /\ w.endrow = endrow /\ w.to = to /\ w.col = col /\ w.out = out
       /\ w.i1 = i1 /\ w.i2 = i2 /\ w.i3 = i3 /\ w.i4 = i4
  OBVIOUS
<1> HIDE DEF w
<1>23. R.row = row2 /\ R.col = col3 /\ R.routes = Append(lanes.routes, route)
  BY <1>1
<1>24. straight = Straight(w)
  BY <1>22, Zenon DEF Straight
<1> DEFINE outs == IF ~straight THEN {<<row, from, out>>} ELSE {}
           downs == IF down THEN Lane(rows, {col}, i2) ELSE {}
           backs == IF back THEN {<<endrow, to, i4>>} ELSE {}
<1>25. ColMarks(w) = outs \cup downs \cup backs
  BY <1>22 DEF ColMarks
<1>26. col3 = col2 \cup backs /\ col2 = col1 \cup downs /\ col1 = lanes.col \cup outs
  BY <1>20 DEF col1, col2
<1>27. /\ R.col = lanes.col \cup ColMarks(w)
       /\ \A m \in ColMarks(w) : m \notin lanes.col
  <2>1. \A m \in outs : m \notin lanes.col
    BY <1>15
  <2>2. \A m \in downs : m \notin col1
    BY <1>17
  <2>3. \A m \in backs : m \notin col2
    BY <1>19
  <2> HIDE DEF outs, downs, backs, col3
  <2> QED
    BY <1>23, <1>25, <1>26, <2>1, <2>2, <2>3
<1> DEFINE overs == IF across THEN Lane({row}, Between(from, col), i1) ELSE {}
           ins == IF back THEN Lane({endrow}, Between(col, to), i3) ELSE {}
<1>28. RowMarks(w) = overs \cup ins /\ row2 = row1 \cup ins /\ row1 = lanes.row \cup overs
  BY <1>22 DEF RowMarks, row1
<1>29. /\ R.row = lanes.row \cup RowMarks(w)
       /\ \A m \in RowMarks(w) : m \notin lanes.row
  <2>1. \A m \in overs : m \notin lanes.row
    BY <1>12
  <2>2. \A m \in ins : m \notin row1
    BY <1>14
  <2> HIDE DEF overs, ins, row2
  <2> QED
    BY <1>23, <1>28, <2>1, <2>2
<1>30. Leads(w, grid, s, t)
  BY <1>5, <1>22 DEF Leads
<1>31. Passable(w, grid)
  <2>1. grid.cols = M /\ DOMAIN grid.cell = Nodes /\ \A n \in Nodes : grid.cell[n] \in Cell
    BY GridIs, LayoutsAre DEF M
  <2>2. ASSUME NEW n \in Nodes, grid.cell[n].row \in low .. high - 1, Mid(grid, n) = col PROVE FALSE
    <3>1. EdgeValid(grid.cell[n].row, col)
      BY <1>7, <2>2
    <3>2. col - 1 = grid.cell[n].col
      BY <2>1, <2>2 DEF Mid, Cell
    <3>3. grid.cell[n] = [row |-> grid.cell[n].row, col |-> grid.cell[n].col]
      BY <2>1 DEF Cell
    <3> QED
      BY <3>1, <3>2, <3>3 DEF EdgeValid
  <2>3. col \in 0 .. M /\ (row = endrow => col = from) /\ (col = from => row <= endrow)
    BY <1>7, <1>8
  <2> QED
    BY <1>12, <1>14, <1>15, <1>17, <1>19, <1>22, <2>1, <2>2, <2>3 DEF Passable, low, high
<1>32. Points(cells, indices) = Turns(w)
  <2>1. CASE ~across /\ ~down /\ ~back
    <3>1. cells = <<<<row, from>>>> /\ indices = <<i4>> /\ i4 = 0
      BY <1>21, <2>1, NoneBut
    <3>2. Turns(w) = <<Turn(row, from, 0)>>
      BY <1>22, <2>1 DEF Turns
    <3>3. Points(<<<<row, from>>>>, <<0>>)
            = <<Turn(row, from, 0)>>
      BY OnePoint
    <3> HIDE DEF cells, indices
    <3> QED
      BY <3>1, <3>2, <3>3
  <2>2. CASE ~across /\ ~down /\ back
    <3>1. cells = <<<<row, from>>, <<endrow, to>>>> /\ indices = <<i3, i4>>
      BY <2>2, NoneBut, TwoParts
    <3>2. Turns(w) = <<Turn(row, from, i3), Turn(endrow, to, i4)>>
      BY <1>22, <2>2 DEF Turns
    <3>3. Points(<<<<row, from>>, <<endrow, to>>>>, <<i3, i4>>)
            = <<Turn(row, from, i3), Turn(endrow, to, i4)>>
      BY TwoPoints
    <3> HIDE DEF cells, indices
    <3> QED
      BY <3>1, <3>2, <3>3
  <2>3. CASE ~across /\ down /\ ~back
    <3>1. cells = <<<<row, from>>, <<endrow, col>>>> /\ indices = <<i2, i4>> /\ i4 = 0
      BY <1>21, <2>3, NoneBut, TwoParts
    <3>2. Turns(w) = <<Turn(row, from, i2), Turn(endrow, col, 0)>>
      BY <1>22, <2>3 DEF Turns
    <3>3. Points(<<<<row, from>>, <<endrow, col>>>>, <<i2, 0>>)
            = <<Turn(row, from, i2), Turn(endrow, col, 0)>>
      BY TwoPoints
    <3> HIDE DEF cells, indices
    <3> QED
      BY <3>1, <3>2, <3>3
  <2>4. CASE ~across /\ down /\ back
    <3>1. cells = <<<<row, from>>, <<endrow, col>>, <<endrow, to>>>> /\ indices = <<i2, i3, i4>>
      <4>1. <<<<row, from>>>> \o <<<<endrow, col>>>> = <<<<row, from>>, <<endrow, col>>>>
        BY TwoParts
      <4>2. <<<<row, from>>, <<endrow, col>>>> \o <<<<endrow, to>>>> = <<<<row, from>>, <<endrow, col>>, <<endrow, to>>>>
        BY ThreeParts
      <4>3. <<i2>> \o <<i3>> = <<i2, i3>> /\ <<i2, i3>> \o <<i4>> = <<i2, i3, i4>>
        BY TwoParts, ThreeParts
      <4> QED
        BY <2>4, <4>1, <4>2, <4>3, NoneBut
    <3>2. Turns(w) = <<Turn(row, from, i2), Turn(endrow, col, i3), Turn(endrow, to, i4)>>
      BY <1>22, <2>4 DEF Turns
    <3>3. Points(<<<<row, from>>, <<endrow, col>>, <<endrow, to>>>>, <<i2, i3, i4>>)
            = <<Turn(row, from, i2), Turn(endrow, col, i3), Turn(endrow, to, i4)>>
      BY ThreePoints
    <3> HIDE DEF cells, indices
    <3> QED
      BY <3>1, <3>2, <3>3
  <2>5. CASE across /\ down /\ ~back
    <3>1. cells = <<<<row, from>>, <<row, col>>, <<endrow, col>>>> /\ indices = <<i1, i2, i4>> /\ i4 = 0
      <4>1. <<<<row, from>>>> \o <<<<row, col>>>> = <<<<row, from>>, <<row, col>>>>
        BY TwoParts
      <4>2. <<<<row, from>>, <<row, col>>>> \o <<<<endrow, col>>>> = <<<<row, from>>, <<row, col>>, <<endrow, col>>>>
        BY ThreeParts
      <4>3. <<i1>> \o <<i2>> = <<i1, i2>> /\ <<i1, i2>> \o <<i4>> = <<i1, i2, i4>>
        BY TwoParts, ThreeParts
      <4>4. cells = <<<<row, from>>, <<row, col>>, <<endrow, col>>>>
        <5>1. cells = <<<<row, from>>>> \o <<<<row, col>>>> \o <<<<endrow, col>>>> \o <<>>
          BY <2>5
        <5>2. cells = <<<<row, from>>, <<row, col>>, <<endrow, col>>>> \o <<>>
          BY <4>1, <4>2, <5>1
        <5> HIDE DEF cells
        <5> QED
          BY <5>2, NoneBut
      <4>5. indices = <<i1, i2, i4>>
        BY <2>5, <4>3, NoneBut
      <4> QED
        BY <1>21, <2>5, <4>4, <4>5
    <3>2. Turns(w) = <<Turn(row, from, i1), Turn(row, col, i2), Turn(endrow, col, 0)>>
      BY <1>22, <2>5 DEF Turns
    <3>3. Points(<<<<row, from>>, <<row, col>>, <<endrow, col>>>>, <<i1, i2, 0>>)
            = <<Turn(row, from, i1), Turn(row, col, i2), Turn(endrow, col, 0)>>
      BY ThreePoints
    <3> HIDE DEF cells, indices
    <3> QED
      BY <3>1, <3>2, <3>3
  <2>6. CASE across /\ down /\ back
    <3>1. /\ cells = <<<<row, from>>, <<row, col>>, <<endrow, col>>, <<endrow, to>>>>
          /\ indices = <<i1, i2, i3, i4>>
      <4>1. <<<<row, from>>>> \o <<<<row, col>>>> = <<<<row, from>>, <<row, col>>>>
        BY TwoParts
      <4>2. <<<<row, from>>, <<row, col>>>> \o <<<<endrow, col>>>> = <<<<row, from>>, <<row, col>>, <<endrow, col>>>>
        BY ThreeParts
      <4>3. <<<<row, from>>, <<row, col>>, <<endrow, col>>>> \o <<<<endrow, to>>>>
              = <<<<row, from>>, <<row, col>>, <<endrow, col>>, <<endrow, to>>>>
        BY FourParts
      <4>4. /\ <<i1>> \o <<i2>> = <<i1, i2>> /\ <<i1, i2>> \o <<i3>> = <<i1, i2, i3>>
            /\ <<i1, i2, i3>> \o <<i4>> = <<i1, i2, i3, i4>>
        BY TwoParts, ThreeParts, FourParts
      <4> QED
        BY <2>6, <4>1, <4>2, <4>3, <4>4, NoneBut
    <3>2. Turns(w) = <<Turn(row, from, i1), Turn(row, col, i2), Turn(endrow, col, i3), Turn(endrow, to, i4)>>
      BY <1>22, <2>6 DEF Turns
    <3>3. Points(<<<<row, from>>, <<row, col>>, <<endrow, col>>, <<endrow, to>>>>, <<i1, i2, i3, i4>>)
            = <<Turn(row, from, i1), Turn(row, col, i2), Turn(endrow, col, i3), Turn(endrow, to, i4)>>
      BY FourPoints
    <3> HIDE DEF cells, indices
    <3> QED
      BY <3>1, <3>2, <3>3
  <2> QED
    BY <1>11, <2>1, <2>2, <2>3, <2>4, <2>5, <2>6
<1>33. Takes(route, w, s, t)
  BY <1>2, <1>22, <1>24, <1>32 DEF Takes
<1>34. Straight(w) => \A i \in Nat : i < i2 => \E r \in rows : <<r, col, i>> \in lanes.col
  <2>1. straight => col1 = lanes.col
    BY DEF col1
  <2> QED
    BY <1>17, <1>24, <2>1
<1>35. Choice(lanes, R, grid, s, t, w)
  BY <1>22, <1>23, <1>27, <1>29, <1>30, <1>31, <1>33, <1>34 DEF Choice
<1> QED
  BY <1>35 DEF R, lanes

-----------------------------------------------------------------------------
CellsOK(g) ==
  /\ g.rows \in Nat /\ g.cols \in Nat
  /\ \A n \in DOMAIN g.cell : /\ g.cell[n].row \in 0 .. g.rows - 1
                              /\ g.cell[n].col \in 0 .. g.cols - 2
  /\ CellsApart(g.cell)

(* In the column of a node, the next one below it.                          *)
NextBelow(g, s, n) ==
  /\ Mid(g, n) = Mid(g, s) /\ g.cell[s].row < g.cell[n].row
  /\ \A k \in DOMAIN g.cell :
       Mid(g, k) = Mid(g, s) => g.cell[k].row <= g.cell[s].row \/ g.cell[n].row <= g.cell[k].row

(* In some rows of a column, the indices of the marks in the lanes of       *)
(* columns; and the marks in those of rows.                                 *)
Used(marks, c, a, d) == {i \in Nat : \E r \in a .. d : <<r, c, i>> \in marks}
Paid(marks, c, a, d) == {p \in (a .. d) \X Nat : <<p[1], c, p[2]>> \in marks}

(* Between two nodes of a column, there are not more indices used in the    *)
(* lane of the column than marks made in those of its rows: only the edge   *)
(* from one to the other uses one without a mark of its own.                *)
Filled(R, g, s, n, left) ==
  Cardinality(Used(R.col, Mid(g, s), Foot(g, s), g.cell[n].row))
    <= Cardinality(Paid(R.row, Mid(g, s), Foot(g, s), g.cell[n].row))
       + (IF <<s, n>> \in left THEN 0 ELSE 1)

(* What the marks of a way are between two such nodes.                      *)
Pays(N, P, s, t, s1, t1) ==
  \/ N = {}
  \/ (\E x : N \subseteq {x}) /\ P # {}
  \/ (\E x : N \subseteq {x}) /\ s1 = s /\ t1 = t
  \/ (\E x, y : N \subseteq {x, y}) /\ \E p, q \in P : p # q

LEMMA WayPays ==
  ASSUME NEW g, CellsOK(g), NEW s \in DOMAIN g.cell, NEW n \in DOMAIN g.cell, NextBelow(g, s, n),
         NEW s1 \in DOMAIN g.cell, NEW t1 \in DOMAIN g.cell, NEW w, Leads(w, g, s1, t1), Passable(w, g)
  PROVE  Pays(Used(ColMarks(w), Mid(g, s), Foot(g, s), g.cell[n].row),
              Paid(RowMarks(w), Mid(g, s), Foot(g, s), g.cell[n].row), s, n, s1, t1)
<1> DEFINE c == Mid(g, s)
           a == Foot(g, s)
           d == g.cell[n].row
           low == Smaller(w.row, w.endrow)
           high == Larger(w.row, w.endrow)
           N == Used(ColMarks(w), c, a, d)
           P == Paid(RowMarks(w), c, a, d)
           outs == (w.col # w.from \/ w.row = w.endrow) /\ w.from = c /\ w.row \in a .. d
           downs == w.row # w.endrow /\ w.col = c /\ \E r \in a .. d : r \in low .. high
           backs == w.col # w.to /\ w.to = c /\ w.endrow \in a .. d
<1> SUFFICES Pays(N, P, s, n, s1, t1)
  OBVIOUS
<1>1. /\ a \in Nat /\ d \in Nat /\ c \in Nat /\ g.cell[s].row = a - 1 /\ a <= d
      /\ w.row \in Nat /\ w.endrow \in Nat /\ w.from \in Nat /\ w.to \in Nat /\ w.col \in Nat
      /\ w.out \in Nat /\ w.i1 \in Nat /\ w.i2 \in Nat /\ w.i3 \in Nat /\ w.i4 \in Nat
      /\ g.cell[s1].row = w.row - 1 /\ Mid(g, s1) = w.from
      /\ g.cell[t1].row = w.endrow /\ Mid(g, t1) = w.to
      /\ (w.row = w.endrow => w.col = w.from)
  BY DEF CellsOK, NextBelow, Leads, Passable, Foot, Mid
<1>2. \A k \in DOMAIN g.cell : Mid(g, k) = c => \/ g.cell[k].row <= a - 1 \/ d <= g.cell[k].row
  BY <1>1 DEF NextBelow
<1>3. \A k, l \in DOMAIN g.cell :
        Mid(g, k) = Mid(g, l) /\ g.cell[k].row = g.cell[l].row => k = l
  BY DEF CellsOK, CellsApart, Apart, Mid
<1>4. \A k \in DOMAIN g.cell : g.cell[k].row \in Nat
  BY DEF CellsOK
<1>5. /\ low \in Nat /\ high \in Nat /\ low <= w.row /\ low <= w.endrow /\ w.row <= high /\ w.endrow <= high
      /\ (w.row = low \/ w.row = high) /\ (w.endrow = low \/ w.endrow = high) 
  BY <1>1 DEF Smaller, Larger
<1>6. \A k \in DOMAIN g.cell : g.cell[k].row \in low .. high - 1 => Mid(g, k) # w.col
  BY DEF Passable
<1> HIDE DEF low, high
<1>7. downs => w.row \in a .. d /\ w.endrow \in a .. d
  <2> SUFFICES ASSUME downs PROVE w.row \in a .. d /\ w.endrow \in a .. d
    OBVIOUS
  <2>1. PICK r \in a .. d : r \in low .. high
    OBVIOUS
  <2>2. a - 1 \notin low .. high - 1 /\ d \notin low .. high - 1
    <3>1. w.col = c /\ Mid(g, n) = c
      BY DEF NextBelow
    <3> QED
      BY <1>1, <1>6, <3>1
  <2> HIDE DEF a, d, downs
  <2>3. a <= low /\ high <= d
    BY <1>1, <1>5, <2>1, <2>2
  <2> QED
    BY <1>1, <1>5, <2>3
<1>8. w.from = c /\ w.row \in a .. d => s1 = s
  <2> SUFFICES ASSUME w.from = c, w.row \in a .. d PROVE s1 = s
    OBVIOUS
  <2>1. g.cell[s1].row <= a - 1 \/ d <= g.cell[s1].row
    BY <1>1, <1>2
  <2>2. g.cell[s1].row = a - 1
    <3> HIDE DEF a, d
    <3> QED
      BY <1>1, <2>1
  <2> QED
    BY <1>1, <1>3, <2>2
<1>9. w.to = c /\ w.endrow \in a .. d => t1 = n
  <2> SUFFICES ASSUME w.to = c, w.endrow \in a .. d PROVE t1 = n
    OBVIOUS
  <2>1. g.cell[t1].row <= a - 1 \/ d <= g.cell[t1].row
    BY <1>1, <1>2
  <2>2. g.cell[t1].row = d
    <3> HIDE DEF a, d
    <3> QED
      BY <1>1, <2>1
  <2> QED
    BY <1>1, <1>3, <2>2 DEF NextBelow
<1>10. \A i \in N : (outs /\ i = w.out) \/ (downs /\ i = w.i2) \/ (backs /\ i = w.i4)
  <2> SUFFICES ASSUME NEW i \in N
               PROVE  (outs /\ i = w.out) \/ (downs /\ i = w.i2) \/ (backs /\ i = w.i4)
    OBVIOUS
  <2>1. PICK r \in a .. d : <<r, c, i>> \in ColMarks(w)
    BY DEF Used
  <2>2. Between(w.row, w.endrow) = low .. high
    BY DEF Between, low, high
  <2> HIDE DEF a, d, c
  <2> QED
    BY <2>1, <2>2 DEF ColMarks, Lane
<1>11. /\ w.col # w.from /\ (w.from = c \/ w.col = c) /\ w.row \in a .. d => <<w.row, w.i1>> \in P
       /\ w.col # w.to /\ (w.col = c \/ w.to = c) /\ w.endrow \in a .. d => <<w.endrow, w.i3>> \in P
  <2>1. /\ w.from \in Between(w.from, w.col) /\ w.col \in Between(w.from, w.col)
        /\ w.to \in Between(w.col, w.to) /\ w.col \in Between(w.col, w.to)
    BY <1>1 DEF Between, Smaller, Larger
  <2> HIDE DEF a, d, c
  <2>2. ASSUME w.col # w.from, w.from = c \/ w.col = c, w.row \in a .. d PROVE <<w.row, w.i1>> \in P
    <3>1. <<w.row, c, w.i1>> \in RowMarks(w)
      BY <2>1, <2>2 DEF RowMarks, Lane
    <3> QED
      BY <1>1, <2>2, <3>1 DEF Paid
  <2>3. ASSUME w.col # w.to, w.col = c \/ w.to = c, w.endrow \in a .. d PROVE <<w.endrow, w.i3>> \in P
    <3>1. <<w.endrow, c, w.i3>> \in RowMarks(w)
      BY <2>1, <2>3 DEF RowMarks, Lane
    <3> QED
      BY <1>1, <2>3, <3>1 DEF Paid
  <2> QED
    BY <2>2, <2>3
<1> HIDE DEF a, d, c, N, P
<1>12. CASE downs
  <2>1. ~outs /\ ~backs
    BY <1>12
  <2>2. N \subseteq {w.i2}
    <3> HIDE DEF outs, downs, backs
    <3> QED
      BY <1>10, <2>1
  <2>3. CASE w.col # w.from \/ w.col # w.to
    <3>1. P # {}
      BY <1>7, <1>11, <1>12, <2>3
    <3> QED
      BY <2>2, <3>1 DEF Pays
  <2>4. CASE w.col = w.from /\ w.col = w.to
    <3>1. s1 = s /\ t1 = n
      BY <1>7, <1>8, <1>9, <1>12, <2>4
    <3> QED
      BY <2>2, <3>1 DEF Pays
  <2> QED
    BY <2>3, <2>4
<1>13. CASE ~downs /\ outs /\ ~backs
  <2>1. N \subseteq {w.out}
    <3> HIDE DEF outs, downs, backs
    <3> QED
      BY <1>10, <1>13
  <2>2. CASE w.col # w.from \/ w.col # w.to
    <3>1. P # {}
      BY <1>1, <1>11, <1>13, <2>2
    <3> QED
      BY <2>1, <3>1 DEF Pays
  <2>3. CASE w.col = w.from /\ w.col = w.to
    <3>1. s1 = s /\ t1 = n
      BY <1>8, <1>9, <1>13, <2>3
    <3> QED
      BY <2>1, <3>1 DEF Pays
  <2> QED
    BY <2>2, <2>3
<1>14. CASE ~downs /\ ~outs /\ backs
  <2>1. N \subseteq {w.i4}
    <3> HIDE DEF outs, downs, backs
    <3> QED
      BY <1>10, <1>14
  <2>2. P # {}
    BY <1>11, <1>14
  <2> QED
    BY <2>1, <2>2 DEF Pays
<1>15. CASE ~downs /\ outs /\ backs
  <2>1. N \subseteq {w.out, w.i4}
    <3> HIDE DEF outs, downs, backs
    <3> QED
      BY <1>10, <1>15
  <2>2. w.col # w.from /\ w.row # w.endrow
    BY <1>1, <1>15
  <2>3. <<w.row, w.i1>> \in P /\ <<w.endrow, w.i3>> \in P
    BY <1>11, <1>15, <2>2
  <2>4. <<w.row, w.i1>> # <<w.endrow, w.i3>>
    BY <2>2
  <2> QED
    BY <2>1, <2>3, <2>4 DEF Pays
<1>16. CASE ~downs /\ ~outs /\ ~backs
  <2>1. N = {}
    <3> HIDE DEF outs, downs, backs
    <3> QED
      BY <1>10, <1>16
  <2> QED
    BY <2>1 DEF Pays
<1> HIDE DEF outs, downs, backs
<1> QED
  BY <1>12, <1>13, <1>14, <1>15, <1>16

LEMMA CountsAre ==
  ASSUME NEW marks, NEW N, NEW M, LanesOK(marks, N, M), NEW c, NEW a \in Nat, NEW d \in Nat
  PROVE  /\ IsFiniteSet(Used(marks, c, a, d)) /\ Cardinality(Used(marks, c, a, d)) \in Nat
         /\ IsFiniteSet(Paid(marks, c, a, d)) /\ Cardinality(Paid(marks, c, a, d)) \in Nat
<1> DEFINE U == Used(marks, c, a, d)
           P == Paid(marks, c, a, d)
<1>1. PICK b \in Nat : \A m \in marks : m[3] \in 0 .. b
  BY DEF LanesOK, Bound
<1>2. U \subseteq 0 .. b
  <2> SUFFICES ASSUME NEW i \in U PROVE i \in 0 .. b
    OBVIOUS
  <2>1. PICK r \in a .. d : <<r, c, i>> \in marks
    BY DEF Used
  <2>2. <<r, c, i>>[3] = i
    OBVIOUS
  <2> QED
    BY <1>1, <2>1, <2>2
<1>3. P \subseteq (a .. d) \X (0 .. b)
  <2> SUFFICES ASSUME NEW p \in P PROVE p \in (a .. d) \X (0 .. b)
    OBVIOUS
  <2>1. p \in (a .. d) \X Nat /\ <<p[1], c, p[2]>> \in marks
    BY DEF Paid
  <2>2. <<p[1], c, p[2]>>[3] = p[2]
    OBVIOUS
  <2>3. p[2] \in 0 .. b
    BY <1>1, <2>1, <2>2
  <2> QED
    BY <2>1, <2>3
<1>4. IsFiniteSet(0 .. b) /\ IsFiniteSet(a .. d)
  BY FS_Interval
<1>5. IsFiniteSet((a .. d) \X (0 .. b))
  BY <1>4, FS_Product
<1> HIDE DEF U, P
<1>6. IsFiniteSet(U) /\ IsFiniteSet(P)
  BY <1>2, <1>3, <1>4, <1>5, FS_Subset
<1> QED
  BY <1>6, FS_CardinalityType DEF U, P

LEMMA PaysMore ==
  ASSUME NEW U, NEW P, NEW N, NEW Q, Q \cap P = {}, IsFiniteSet(U \cup N), IsFiniteSet(P \cup Q),
         NEW s, NEW t, NEW s1, NEW t1, Pays(N, Q, s, t, s1, t1)
  PROVE  \E more \in 0 .. 1 :
            /\ Cardinality(U) \in Nat /\ Cardinality(P) \in Nat
            /\ Cardinality(U \cup N) \in Nat /\ Cardinality(P \cup Q) \in Nat
            /\ Cardinality(U \cup N) + Cardinality(P) <= Cardinality(U) + Cardinality(P \cup Q) + more
            /\ more = 0 \/ (s1 = s /\ t1 = t)
<1> DEFINE V == U \cup N
           O == P \cup Q
<1> SUFFICES \E more \in 0 .. 1 :
               /\ Cardinality(U) \in Nat /\ Cardinality(P) \in Nat
               /\ Cardinality(V) \in Nat /\ Cardinality(O) \in Nat
               /\ Cardinality(V) + Cardinality(P) <= Cardinality(U) + Cardinality(O) + more
               /\ more = 0 \/ (s1 = s /\ t1 = t)
  OBVIOUS
<1>0. V = U \cup N /\ O = P \cup Q /\ IsFiniteSet(V) /\ IsFiniteSet(O)
  OBVIOUS
<1> HIDE DEF V, O
<1>1. IsFiniteSet(U) /\ IsFiniteSet(P)
  <2>1. U \subseteq V /\ P \subseteq O
    BY <1>0
  <2> QED
    BY <1>0, <2>1, FS_Subset
<1>2. /\ Cardinality(U) \in Nat /\ Cardinality(P) \in Nat /\ Cardinality(V) \in Nat /\ Cardinality(O) \in Nat
  BY <1>0, <1>1, FS_CardinalityType
<1>3. Cardinality(P) <= Cardinality(O)
  <2>1. P \subseteq O
    BY <1>0
  <2> QED
    BY <1>0, <2>1, FS_Subset
<1>4. ASSUME NEW x, N \subseteq {x} PROVE Cardinality(V) <= Cardinality(U) + 1
  <2>1. IsFiniteSet(U \cup {x}) /\ Cardinality(U \cup {x}) \in {Cardinality(U), Cardinality(U) + 1}
    BY <1>1, FS_AddElement
  <2>2. V \subseteq U \cup {x}
    BY <1>0, <1>4
  <2>3. Cardinality(V) <= Cardinality(U \cup {x})
    BY <2>1, <2>2, FS_Subset
  <2> QED
    BY <1>2, <2>1, <2>3
<1>5. ASSUME NEW q \in Q PROVE Cardinality(P) + 1 <= Cardinality(O)
  <2>1. IsFiniteSet(P \cup {q}) /\ Cardinality(P \cup {q}) = Cardinality(P) + 1
    <3>1. q \notin P
      OBVIOUS
    <3> QED
      BY <1>1, <3>1, FS_AddElement
  <2>2. P \cup {q} \subseteq O
    BY <1>0
  <2>3. Cardinality(P \cup {q}) <= Cardinality(O)
    BY <1>0, <2>2, FS_Subset
  <2> QED
    BY <2>1, <2>3
<1>6. CASE N = {}
  <2>1. V = U
    BY <1>0, <1>6
  <2> QED
    BY <1>2, <1>3, <2>1
<1>7. CASE (\E x : N \subseteq {x}) /\ Q # {}
  <2>1. PICK x : N \subseteq {x}
    BY <1>7
  <2>2. Cardinality(V) <= Cardinality(U) + 1
    BY <1>4, <2>1
  <2>3. Cardinality(P) + 1 <= Cardinality(O)
    BY <1>5, <1>7
  <2> QED
    BY <1>2, <2>2, <2>3
<1>8. CASE (\E x : N \subseteq {x}) /\ s1 = s /\ t1 = t
  <2>1. Cardinality(V) <= Cardinality(U) + 1
    BY <1>4, <1>8
  <2>2. Cardinality(V) + Cardinality(P) <= Cardinality(U) + Cardinality(O) + 1
    BY <1>2, <1>3, <2>1
  <2> QED
    BY <1>2, <1>8, <2>2
<1>9. CASE (\E x, y : N \subseteq {x, y}) /\ \E p, q \in Q : p # q
  <2>1. PICK x, y : N \subseteq {x, y}
    BY <1>9
  <2>2. PICK p \in Q, q \in Q : p # q
    BY <1>9
  <2>3. IsFiniteSet(U \cup {x}) /\ Cardinality(U \cup {x}) \in {Cardinality(U), Cardinality(U) + 1}
    BY <1>1, FS_AddElement
  <2>4. /\ IsFiniteSet((U \cup {x}) \cup {y})
        /\ Cardinality((U \cup {x}) \cup {y}) \in {Cardinality(U \cup {x}), Cardinality(U \cup {x}) + 1}
    BY <2>3, FS_AddElement
  <2>5. Cardinality(V) <= Cardinality((U \cup {x}) \cup {y})
    <3>1. V \subseteq (U \cup {x}) \cup {y}
      BY <1>0, <2>1
    <3> QED
      BY <2>4, <3>1, FS_Subset
  <2>6. Cardinality(V) <= Cardinality(U) + 2
    BY <1>2, <2>3, <2>4, <2>5
  <2>7. IsFiniteSet(P \cup {p}) /\ Cardinality(P \cup {p}) = Cardinality(P) + 1
    <3>1. p \notin P
      OBVIOUS
    <3> QED
      BY <1>1, <3>1, FS_AddElement
  <2>8. Cardinality((P \cup {p}) \cup {q}) = Cardinality(P) + 2
    <3>1. q \notin P \cup {p}
      BY <2>2
    <3>2. Cardinality((P \cup {p}) \cup {q}) = Cardinality(P \cup {p}) + 1
      BY <2>7, <3>1, FS_AddElement
    <3> QED
      BY <1>2, <2>7, <3>2
  <2>9. Cardinality((P \cup {p}) \cup {q}) <= Cardinality(O)
    <3>1. (P \cup {p}) \cup {q} \subseteq O
      BY <1>0
    <3> QED
      BY <1>0, <3>1, FS_Subset
  <2> QED
    BY <1>2, <2>6, <2>8, <2>9
<1> QED
  BY <1>6, <1>7, <1>8, <1>9 DEF Pays

(* Another edge does not fill the lane of a column any more than its rows.  *)
LEMMA FilledMore ==
  ASSUME NEW g, CellsOK(g), NEW s \in DOMAIN g.cell, NEW n \in DOMAIN g.cell, NextBelow(g, s, n),
         NEW s1 \in DOMAIN g.cell, NEW t1 \in DOMAIN g.cell, NEW w, NEW old, NEW new,
         Choice(old, new, g, s1, t1, w), MarksIn(old, g), MarksIn(new, g),
         NEW left, NEW rest, rest \subseteq left, <<s1, t1>> \in left, <<s1, t1>> \notin rest,
         Filled(old, g, s, n, left)
  PROVE  Filled(new, g, s, n, rest)
<1> DEFINE c == Mid(g, s)
           a == Foot(g, s)
           d == g.cell[n].row
           U == Used(old.col, c, a, d)
           P == Paid(old.row, c, a, d)
           N == Used(ColMarks(w), c, a, d)
           Q == Paid(RowMarks(w), c, a, d)
           V == Used(new.col, c, a, d)
           O == Paid(new.row, c, a, d)
           k == IF <<s, n>> \in left THEN 0 ELSE 1
           l == IF <<s, n>> \in rest THEN 0 ELSE 1
<1>1. a \in Nat /\ d \in Nat
  BY DEF CellsOK, Foot
<1> HIDE DEF a, d, c
<1>2. new.col = old.col \cup ColMarks(w) /\ new.row = old.row \cup RowMarks(w)
      /\ \A m \in RowMarks(w) : m \notin old.row
  BY DEF Choice
<1>3. V = U \cup N /\ O = P \cup Q /\ Q \cap P = {}
  BY <1>2 DEF Used, Paid
<1>4. IsFiniteSet(V) /\ IsFiniteSet(O)
  <2>1. LanesOK(new.col, g.rows, g.cols) /\ LanesOK(new.row, g.rows, g.cols)
    BY DEF MarksIn
  <2> QED
    BY <1>1, <2>1, CountsAre
<1>5. Pays(N, Q, s, n, s1, t1)
  BY WayPays DEF Choice, c, a, d
<1>6. Cardinality(U) <= Cardinality(P) + k
  BY DEF Filled, c, a, d
<1>7. k \in {0, 1} /\ l \in {0, 1} /\ k <= l /\ (s1 = s /\ t1 = n => k < l)
  OBVIOUS
<1> HIDE DEF U, P, N, Q, V, O, k, l
<1>8. PICK more \in 0 .. 1 :
        /\ Cardinality(U) \in Nat /\ Cardinality(P) \in Nat
        /\ Cardinality(V) \in Nat /\ Cardinality(O) \in Nat
        /\ Cardinality(V) + Cardinality(P) <= Cardinality(U) + Cardinality(O) + more
        /\ more = 0 \/ (s1 = s /\ t1 = n)
  <2>1. Q \cap P = {} /\ IsFiniteSet(U \cup N) /\ IsFiniteSet(P \cup Q)
    BY <1>3, <1>4
  <2>2. \E more \in 0 .. 1 :
          /\ Cardinality(U) \in Nat /\ Cardinality(P) \in Nat
          /\ Cardinality(U \cup N) \in Nat /\ Cardinality(P \cup Q) \in Nat
          /\ Cardinality(U \cup N) + Cardinality(P) <= Cardinality(U) + Cardinality(P \cup Q) + more
          /\ more = 0 \/ (s1 = s /\ t1 = n)
    BY <1>5, <2>1, PaysMore
  <2> QED
    BY <1>3, <2>2
<1>9. Cardinality(V) <= Cardinality(O) + l
  BY <1>6, <1>7, <1>8
<1> QED
  BY <1>9 DEF Filled, V, O, l, c, a, d
-----------------------------------------------------------------------------
Counts(R, g, left) == \A s, n \in DOMAIN g.cell : NextBelow(g, s, n) => Filled(R, g, s, n, left)

(* A way straight down has an index that is not more than what the rows     *)
(* until the next node have marks.                                          *)
Shallow(marks, g, s, w) ==
  Straight(w) => \A n \in DOMAIN g.cell :
    NextBelow(g, s, n) => w.i2 <= Cardinality(Paid(marks, Mid(g, s), Foot(g, s), g.cell[n].row)) + 1

(* A route takes a way, whose marks are made.                               *)
Way(R, g, q, w) ==
  \E s, t \in DOMAIN g.cell :
    /\ Leads(w, g, s, t) /\ Passable(w, g) /\ Takes(q, w, s, t)
    /\ ColMarks(w) \subseteq R.col /\ RowMarks(w) \subseteq R.row
    /\ Shallow(R.row, g, s, w)

Distinct(v, w) == ColMarks(v) \cap ColMarks(w) = {} /\ RowMarks(v) \cap RowMarks(w) = {}

(* No two routes have a mark in common.                                     *)
Ways(R, g) ==
  /\ \E S : R.routes \in Seq(S)
  /\ \A k \in DOMAIN R.routes : \E w : Way(R, g, R.routes[k], w)
  /\ \A j, k \in DOMAIN R.routes : j < k =>
       \E v, w : Way(R, g, R.routes[j], v) /\ Way(R, g, R.routes[k], w) /\ Distinct(v, w)

LEMMA ShallowKept ==
  ASSUME NEW g, CellsOK(g), NEW s \in DOMAIN g.cell, NEW w, NEW old, NEW new, old \subseteq new,
         LanesOK(new, g.rows, g.cols), Shallow(old, g, s, w), Straight(w) => w.i2 \in Nat
  PROVE  Shallow(new, g, s, w)
<1> SUFFICES ASSUME Straight(w), NEW n \in DOMAIN g.cell, NextBelow(g, s, n)
             PROVE  w.i2 <= Cardinality(Paid(new, Mid(g, s), Foot(g, s), g.cell[n].row)) + 1
  BY DEF Shallow
<1> DEFINE c == Mid(g, s)
           a == Foot(g, s)
           d == g.cell[n].row
           P == Paid(old, c, a, d)
           O == Paid(new, c, a, d)
<1>1. a \in Nat /\ d \in Nat
  BY DEF CellsOK, Foot
<1>2. w.i2 <= Cardinality(P) + 1
  BY DEF Shallow
<1> HIDE DEF a, c, d
<1>3. P \subseteq O
  BY DEF Paid
<1>4. IsFiniteSet(O) /\ Cardinality(O) \in Nat
  BY <1>1, CountsAre
<1> HIDE DEF P, O
<1>5. Cardinality(P) <= Cardinality(O) /\ Cardinality(P) \in Nat
  BY <1>3, <1>4, FS_Subset, FS_CardinalityType
<1>6. w.i2 <= Cardinality(O) + 1
  BY <1>2, <1>4, <1>5
<1> QED
  BY <1>6 DEF O, a, c, d

LEMMA WayKept ==
  ASSUME NEW g, CellsOK(g), NEW q, NEW w, NEW old, NEW new, Way(old, g, q, w),
         old.col \subseteq new.col, old.row \subseteq new.row, MarksIn(new, g)
  PROVE  Way(new, g, q, w)
<1>1. PICK s \in DOMAIN g.cell, t \in DOMAIN g.cell :
        /\ Leads(w, g, s, t) /\ Passable(w, g) /\ Takes(q, w, s, t)
        /\ ColMarks(w) \subseteq old.col /\ RowMarks(w) \subseteq old.row
        /\ Shallow(old.row, g, s, w)
  BY DEF Way
<1>2. Shallow(new.row, g, s, w)
  <2>1. LanesOK(new.row, g.rows, g.cols) /\ w.i2 \in Nat
    BY <1>1 DEF MarksIn, Passable
  <2> QED
    BY <1>1, <2>1, ShallowKept
<1> QED
  BY <1>1, <1>2 DEF Way

(* All indices below that of a way straight down are used, before it, in    *)
(* the rows that it goes through.                                           *)
LEMMA WayShallow ==
  ASSUME NEW g, CellsOK(g), NEW s \in DOMAIN g.cell, NEW t \in DOMAIN g.cell, NEW w, NEW old, NEW new,
         NEW left, Choice(old, new, g, s, t, w), MarksIn(old, g), Counts(old, g, left)
  PROVE  Shallow(old.row, g, s, w)
<1> SUFFICES ASSUME Straight(w), NEW n \in DOMAIN g.cell, NextBelow(g, s, n)
             PROVE  w.i2 <= Cardinality(Paid(old.row, Mid(g, s), Foot(g, s), g.cell[n].row)) + 1
  BY DEF Shallow
<1> DEFINE c == Mid(g, s)
           a == Foot(g, s)
           d == g.cell[n].row
           U == Used(old.col, c, a, d)
           P == Paid(old.row, c, a, d)
<1>1. /\ a \in Nat /\ d \in Nat /\ a <= d /\ w.row = a /\ w.col = c /\ w.endrow \in Nat
      /\ a <= w.endrow /\ Mid(g, n) = c /\ w.i2 \in Nat
  <2>1. Leads(w, g, s, t) /\ Passable(w, g)
    BY DEF Choice
  <2>2. /\ g.cell[s].row \in Nat /\ g.cell[n].row \in Nat /\ g.cell[t].row \in Nat
        /\ g.cell[s].row < g.cell[n].row /\ Mid(g, n) = c
    BY DEF CellsOK, NextBelow
  <2>3. w.row = a /\ w.from = c /\ w.endrow = g.cell[t].row
    BY <2>1 DEF Leads
  <2>4. w.col = w.from /\ w.i2 \in Nat /\ w.row <= w.endrow
    BY <2>1 DEF Passable, Straight
  <2>5. a \in Nat /\ a <= d /\ d \in Nat
    BY <2>2 DEF Foot
  <2> QED
    BY <2>2, <2>3, <2>4, <2>5
<1>2. \A k \in DOMAIN g.cell : g.cell[k].row \in Smaller(w.row, w.endrow) .. Larger(w.row, w.endrow) - 1
                              => Mid(g, k) # c
  BY <1>1 DEF Choice, Passable
<1>3. \A i \in Nat : i < w.i2 => \E r \in Between(w.row, w.endrow) : <<r, c, i>> \in old.col
  BY <1>1 DEF Choice
<1>4. Cardinality(U) <= Cardinality(P) + 1
  <2>1. Filled(old, g, s, n, left)
    BY DEF Counts
  <2>2. Cardinality(P) \in Nat /\ Cardinality(U) \in Nat
    <3> HIDE DEF a, d, c
    <3> QED
      BY <1>1, CountsAre DEF MarksIn
  <2> HIDE DEF U, P
  <2> QED
    BY <2>1, <2>2 DEF Filled, U, P
<1>5. w.endrow <= d
  <2>1. d \notin Smaller(w.row, w.endrow) .. Larger(w.row, w.endrow) - 1
    BY <1>1, <1>2
  <2> HIDE DEF a, d, c
  <2> QED
    BY <1>1, <2>1 DEF Smaller, Larger
<1> HIDE DEF a, d, c
<1>6. Between(w.row, w.endrow) \subseteq a .. d
  BY <1>1, <1>5 DEF Between, Smaller, Larger
<1>7. 0 .. w.i2 - 1 \subseteq U
  <2> SUFFICES ASSUME NEW i \in 0 .. w.i2 - 1 PROVE i \in U
    OBVIOUS
  <2>1. i \in Nat /\ i < w.i2
    BY <1>1
  <2>2. PICK r \in Between(w.row, w.endrow) : <<r, c, i>> \in old.col
    BY <1>3, <2>1
  <2> QED
    BY <1>6, <2>1, <2>2 DEF Used
<1>8. IsFiniteSet(U) /\ Cardinality(U) \in Nat /\ Cardinality(P) \in Nat
  BY <1>1, CountsAre DEF MarksIn
<1> HIDE DEF U, P
<1>9. w.i2 <= Cardinality(U)
  <2>1. Cardinality(0 .. w.i2 - 1) = w.i2
    <3> DEFINE e == w.i2 - 1
    <3>1. 0 \in Int /\ e \in Int /\ w.i2 = e + 1 /\ (0 > e => w.i2 = 0)
      BY <1>1
    <3> HIDE DEF e
    <3>2. Cardinality(0 .. e) = IF 0 > e THEN 0 ELSE e - 0 + 1
      BY <3>1, FS_Interval
    <3> QED
      BY <3>1, <3>2 DEF e
  <2>2. Cardinality(0 .. w.i2 - 1) <= Cardinality(U)
    BY <1>7, <1>8, FS_Subset
  <2> QED
    BY <2>1, <2>2
<1>10. w.i2 <= Cardinality(P) + 1
  BY <1>1, <1>4, <1>8, <1>9
<1> QED
  BY <1>10 DEF P, a, c, d

LEMMA WaysMore ==
  ASSUME NEW g, CellsOK(g), NEW s \in DOMAIN g.cell, NEW t \in DOMAIN g.cell, NEW w, NEW old, NEW new,
         NEW left, Choice(old, new, g, s, t, w), MarksIn(old, g), MarksIn(new, g), Counts(old, g, left),
         Ways(old, g)
  PROVE  Ways(new, g)
<1>1. PICK q : new.routes = Append(old.routes, q) /\ Takes(q, w, s, t)
  BY DEF Choice
<1>2. PICK S : old.routes \in Seq(S)
  BY DEF Ways
<1> DEFINE K == Len(old.routes)
<1>3. /\ K \in Nat /\ DOMAIN old.routes = 1 .. K
      /\ new.routes \in Seq(S \cup {q}) /\ DOMAIN new.routes = 1 .. K + 1 /\ new.routes[K + 1] = q
      /\ \A k \in 1 .. K : new.routes[k] = old.routes[k]
  <2>1. old.routes \in Seq(S \cup {q}) /\ q \in S \cup {q}
    BY <1>2
  <2> QED
    BY <1>1, <2>1
<1> HIDE DEF K
<1>4. \A k \in 1 .. K + 1 : k \in 1 .. K \/ k = K + 1
  BY <1>3
<1>5. /\ Leads(w, g, s, t) /\ Passable(w, g) /\ old.col \subseteq new.col /\ old.row \subseteq new.row
      /\ ColMarks(w) \subseteq new.col /\ RowMarks(w) \subseteq new.row
      /\ ColMarks(w) \cap old.col = {} /\ RowMarks(w) \cap old.row = {}
  BY DEF Choice
<1>6. Way(new, g, q, w)
  <2>1. Shallow(old.row, g, s, w)
    BY WayShallow
  <2>2. Shallow(new.row, g, s, w)
    <3>1. LanesOK(new.row, g.rows, g.cols) /\ w.i2 \in Nat
      BY <1>5 DEF MarksIn, Passable
    <3> QED
      BY <1>5, <2>1, <3>1, ShallowKept
  <2> QED
    BY <1>1, <1>5, <2>2 DEF Way
<1>7. \A p, v : Way(old, g, p, v) => /\ Way(new, g, p, v)
                                   /\ ColMarks(v) \subseteq old.col /\ RowMarks(v) \subseteq old.row
  <2> SUFFICES ASSUME NEW p, NEW v, Way(old, g, p, v)
               PROVE  /\ Way(new, g, p, v)
                      /\ ColMarks(v) \subseteq old.col /\ RowMarks(v) \subseteq old.row
    OBVIOUS
  <2>1. Way(new, g, p, v)
    BY <1>5, WayKept
  <2>2. ColMarks(v) \subseteq old.col /\ RowMarks(v) \subseteq old.row
    BY DEF Way
  <2> QED
    BY <2>1, <2>2
<1>8. ASSUME NEW k \in 1 .. K + 1 PROVE \E v : Way(new, g, new.routes[k], v)
  <2>1. CASE k \in 1 .. K
    BY <1>3, <1>7, <2>1 DEF Ways
  <2>2. CASE k = K + 1
    BY <1>3, <1>6, <2>2
  <2> QED
    BY <1>4, <2>1, <2>2
<1>9. ASSUME NEW j \in 1 .. K + 1, NEW k \in 1 .. K + 1, j < k
      PROVE  \E u, v : Way(new, g, new.routes[j], u) /\ Way(new, g, new.routes[k], v) /\ Distinct(u, v)
  <2>1. j \in 1 .. K
    BY <1>3, <1>9
  <2>2. CASE k \in 1 .. K
    <3>1. PICK u, v : Way(old, g, old.routes[j], u) /\ Way(old, g, old.routes[k], v) /\ Distinct(u, v)
      BY <1>3, <1>9, <2>1, <2>2 DEF Ways
    <3> QED
      BY <1>3, <1>7, <2>1, <2>2, <3>1
  <2>3. CASE k = K + 1
    <3>1. PICK u : Way(old, g, old.routes[j], u)
      BY <1>3, <2>1 DEF Ways
    <3>2. Way(new, g, new.routes[j], u) /\ ColMarks(u) \subseteq old.col /\ RowMarks(u) \subseteq old.row
      BY <1>3, <1>7, <2>1, <3>1
    <3>3. Distinct(u, w)
      BY <1>5, <3>2 DEF Distinct
    <3> QED
      BY <1>3, <1>6, <2>3, <3>2, <3>3
  <2> QED
    BY <1>4, <2>2, <2>3
<1> QED
  BY <1>3, <1>8, <1>9 DEF Ways

WaysInv ==
  /\ step = "route" => IsInjective(toroute) /\ Counts(routing, grid, ToSet(toroute))
  /\ step \in {"route", "draw"} => Ways(routing, grid)

LEMMA GridCells == ASSUME GridOK PROVE CellsOK(grid) /\ DOMAIN grid.cell = Nodes
BY GridIs DEF CellsOK

LEMMA ArrangeWays == ASSUME TreeInv, RouteInv, Arrange PROVE WaysInv'
<1>1. step = "acyclic" /\ step' = "route" /\ routing' = routing
  BY DEF Arrange
<1>2. routing' = NoRouting
  BY <1>1 DEF RouteInv
<1>3. IsInjective(toroute')
  BY ArrangeEdges
<1>4. ASSUME NEW c, NEW a, NEW d, NEW left, NEW e
      PROVE  Cardinality(Used(routing'.col, c, a, d))
               <= Cardinality(Paid(routing'.row, c, a, d)) + (IF e \in left THEN 0 ELSE 1)
  <2>1. Used({}, c, a, d) = {} /\ Paid({}, c, a, d) = {}
    BY DEF Used, Paid
  <2>2. routing'.col = {} /\ routing'.row = {}
    BY <1>2 DEF NoRouting
  <2>3. Cardinality({}) = 0
    BY FS_EmptySet
  <2>4. Used(routing'.col, c, a, d) = {} /\ Paid(routing'.row, c, a, d) = {}
    BY <2>1, <2>2
  <2>5. (IF e \in left THEN 0 ELSE 1) \in {0, 1}
    OBVIOUS
  <2> QED
    BY <2>3, <2>4, <2>5
<1>5. Counts(routing', grid', ToSet(toroute'))
  BY <1>4 DEF Counts, Filled
<1>6. Ways(routing', grid')
  <2>1. routing'.routes = <<>> /\ <<>> \in Seq({}) /\ DOMAIN <<>> = {}
    BY <1>2 DEF NoRouting
  <2> QED
    BY <2>1 DEF Ways
<1> QED
  BY <1>1, <1>3, <1>5, <1>6 DEF WaysInv

LEMMA RouteEdgeWays == ASSUME TreeInv, RouteInv, WaysInv, RouteEdge PROVE WaysInv'
<1> DEFINE e == Head(toroute)
           R == Routed(e[1], e[2])
           T == Tail(toroute)
<1>1. /\ step = "route" /\ step' = "route" /\ toroute # <<>> /\ UNCHANGED <<tree, grid>>
      /\ routing' = R /\ toroute' = T
  BY DEF RouteEdge
<1>2. /\ GridOK /\ MarksIn(routing, grid) /\ toroute \in Seq(Nodes \X Nodes)
      /\ IsInjective(toroute) /\ Counts(routing, grid, ToSet(toroute)) /\ Ways(routing, grid)
  BY <1>1 DEF RouteInv, WaysInv
<1>3. MarksIn(R, grid)
  <2>1. MarksIn(routing', grid')
    BY <1>1, RouteEdgeRoute DEF RouteInv
  <2> QED
    BY <1>1, <2>1
<1>4. CellsOK(grid) /\ DOMAIN grid.cell = Nodes
  BY <1>2, GridCells
<1>5. e \in Nodes \X Nodes /\ e = <<e[1], e[2]>> /\ e[1] \in Nodes /\ e[2] \in Nodes
  BY <1>1, <1>2
<1>6. /\ ToSet(T) \subseteq ToSet(toroute) /\ e \in ToSet(toroute) /\ e \notin ToSet(T) /\ IsInjective(T)
  <2>1. /\ 1 \in DOMAIN toroute /\ e = toroute[1]
        /\ \A i \in DOMAIN T : i + 1 \in DOMAIN toroute /\ T[i] = toroute[i + 1] /\ i + 1 # 1 /\ i \in Nat
    BY <1>1, <1>2
  <2>2. \A i, j \in DOMAIN toroute : toroute[i] = toroute[j] => i = j
    BY <1>2 DEF IsInjective
  <2> HIDE DEF e, T
  <2>3. IsInjective(T)
    BY <2>1, <2>2 DEF IsInjective
  <2> QED
    BY <2>1, <2>2, <2>3 DEF ToSet
<1> HIDE DEF e
<1>7. PICK w : Choice(routing, R, grid, e[1], e[2], w)
  BY <1>2, <1>5, RoutedChoice
<1> HIDE DEF R, T
<1>8. Ways(R, grid)
  BY <1>2, <1>3, <1>4, <1>5, <1>7, WaysMore
<1>9. Counts(R, grid, ToSet(T))
  <2> SUFFICES ASSUME NEW s \in DOMAIN grid.cell, NEW n \in DOMAIN grid.cell, NextBelow(grid, s, n)
               PROVE  Filled(R, grid, s, n, ToSet(T))
    BY DEF Counts
  <2>1. Filled(routing, grid, s, n, ToSet(toroute))
    BY <1>2 DEF Counts
  <2>2. <<e[1], e[2]>> \in ToSet(toroute) /\ <<e[1], e[2]>> \notin ToSet(T)
    BY <1>5, <1>6
  <2> QED
    BY <1>2, <1>3, <1>4, <1>5, <1>6, <1>7, <2>1, <2>2, FilledMore
<1>10. Ways(routing', grid') /\ Counts(routing', grid', ToSet(toroute')) /\ IsInjective(toroute')
  BY <1>1, <1>6, <1>8, <1>9
<1> QED
  BY <1>1, <1>10 DEF WaysInv

LEMMA WaysNext == TreeInv /\ RouteInv /\ WaysInv /\ [Next]_vars => WaysInv'
<1> SUFFICES ASSUME TreeInv, RouteInv, WaysInv, [Next]_vars PROVE WaysInv'
  OBVIOUS
<1>1. CASE Arrange
  BY <1>1, ArrangeWays
<1>2. CASE RouteEdge
  BY <1>2, RouteEdgeWays
<1>3. CASE Measure
  BY <1>3 DEF Measure, WaysInv
<1>4. CASE TakeFront \/ PickBest \/ Execute \/ Draw
  <2>1. step' \in {"acyclic", "done"}
    BY <1>4 DEF TakeFront, PickBest, Execute, Open, Draw
  <2> QED
    BY <2>1 DEF WaysInv
<1>5. CASE UNCHANGED layoutVars
  BY <1>5 DEF layoutVars, WaysInv
<1>6. CASE UNCHANGED vars
  BY <1>5, <1>6 DEF vars
<1> QED
  BY <1>1, <1>2, <1>3, <1>4, <1>5, <1>6 DEF Next, Layout, LayoutNext, BuildGraphs

-----------------------------------------------------------------------------
(* What is known when the picture is drawn. *)
Laid ==
  /\ DrawingOK(drawing) /\ GridOK /\ MarksIn(routing, grid) /\ EdgesTouch /\ toroute = <<>>
  /\ MeasureOK(measure, drawing, grid, routing)

(* Coordinates of lanes: the middle of those of an index, and their ends.   *)
LaneX(c, i) == measure.edgex[c] + LANE * i + 4
LaneY(r, i) == measure.edgey[r] + LANE * i + 4
ColEnd(c) == measure.edgex[c] + LANE * measure.colroom[c]
RowEnd(r) == measure.edgey[r] + LANE * measure.rowroom[r]
Bottom(n) == NodeY(n) + Height(n)

RowsFit ==
  /\ grid.rows \in Nat
  /\ \A n \in Nodes : grid.cell[n].row \in Nat /\ grid.cell[n].row + 1 \in 0 .. grid.rows
  /\ \A r \in 0 .. grid.rows : /\ measure.edgey[r] \in Nat /\ measure.rowroom[r] \in Nat
                               /\ RowEnd(r) \in Nat /\ measure.edgey[r] <= RowEnd(r)
  /\ \A r, q \in 0 .. grid.rows : r < q => RowEnd(r) <= measure.edgey[q]
  /\ \A n \in Nodes :
       /\ NodeY(n) \in Nat /\ NodeY(n) = RowEnd(grid.cell[n].row) + 16
       /\ Height(n) \in Nat /\ Bottom(n) \in Nat /\ NodeY(n) <= Bottom(n)
       /\ Bottom(n) + 16 <= measure.edgey[grid.cell[n].row + 1]
  /\ \A m \in routing.row : m[3] + 1 <= measure.rowroom[m[1]]

ColsFit ==
  /\ grid.cols \in Nat
  /\ \A n \in Nodes : grid.cell[n].col \in Nat /\ grid.cell[n].col + 2 \in 0 .. grid.cols
  /\ \A c \in 0 .. grid.cols : /\ measure.edgex[c] \in Nat /\ measure.colroom[c] \in Nat
                               /\ ColEnd(c) \in Nat /\ measure.edgex[c] <= ColEnd(c)
  /\ \A c, e \in 0 .. grid.cols : c < e => ColEnd(c) <= measure.edgex[e]
  /\ \A n \in Nodes :
       /\ NodeX(n) \in Int /\ drawing.width[n] \in Nat
       /\ NodeX(n) + drawing.width[n] <= measure.edgex[grid.cell[n].col + 2]
       /\ Touched(routing, n, grid) => ColEnd(grid.cell[n].col) <= NodeX(n)
  /\ \A m \in routing.col : m[3] + 1 <= measure.colroom[m[2]]

LEMMA EndBefore ==
  ASSUME NEW edge, NEW n \in Nat, NEW room, NEW size, Positioned(edge, n, room, size),
         room \in [0 .. n -> Nat], size \in [0 .. n -> Nat], NEW i \in 0 .. n, NEW j \in 0 .. n, i < j
  PROVE  edge[i] + LANE * room[i] <= edge[j]
<1>1. i + 1 \in 1 .. n /\ i + 1 \in 0 .. n /\ i + 1 <= j /\ (i + 1) - 1 = i
  OBVIOUS
<1>2. /\ edge[i + 1] = edge[i] + LANE * room[i] + size[i] /\ edge[i + 1] <= edge[j]
      /\ edge[i] \in Nat /\ edge[j] \in Nat
  BY <1>1 DEF Positioned
<1>3. room[i] \in Nat /\ size[i] \in Nat
  OBVIOUS
<1> QED
  BY <1>2, <1>3 DEF LANE

LEMMA LaidFits == ASSUME Laid PROVE RowsFit /\ ColsFit
<1>1. PICK height : Fits(measure, height, drawing, grid, routing)
  BY DEF Laid, MeasureOK
<1>2. /\ measure.rowroom \in [0 .. grid.rows -> Nat] /\ height \in [0 .. grid.rows -> Nat]
      /\ measure.colroom \in [0 .. grid.cols -> Nat] /\ measure.width \in [0 .. grid.cols -> Nat]
      /\ Positioned(measure.edgex, grid.cols, measure.colroom, measure.width)
      /\ Positioned(measure.edgey, grid.rows, measure.rowroom, height)
      /\ \A m \in routing.row : m[3] + 1 <= measure.rowroom[m[1]]
      /\ \A m \in routing.col : m[3] + 1 <= measure.colroom[m[2]]
  BY <1>1 DEF Fits
<1>3. grid.rows \in Nat /\ grid.cols \in Nat
  BY GridIs DEF Laid
<1>4. \A n \in Nodes : /\ grid.cell[n].row \in Nat /\ grid.cell[n].row + 1 \in 0 .. grid.rows
                       /\ grid.cell[n].col \in Nat /\ grid.cell[n].col + 2 \in 0 .. grid.cols
                       /\ grid.cell[n].row \in 0 .. grid.rows /\ grid.cell[n].col \in 0 .. grid.cols
  <2>1. \A n \in Nodes : /\ grid.cell[n].row \in 0 .. grid.rows - 1
                         /\ grid.cell[n].col \in 0 .. grid.cols - 2
    BY GridIs DEF Laid
  <2> QED
    BY <1>3, <2>1
<1>5. ASSUME NEW r \in 0 .. grid.rows
      PROVE  /\ measure.edgey[r] \in Nat /\ measure.rowroom[r] \in Nat
             /\ RowEnd(r) \in Nat /\ measure.edgey[r] <= RowEnd(r)
  <2>1. measure.edgey[r] \in Nat /\ measure.rowroom[r] \in Nat
    BY <1>2 DEF Positioned
  <2> QED
    BY <2>1 DEF RowEnd, LANE
<1>6. ASSUME NEW c \in 0 .. grid.cols
      PROVE  /\ measure.edgex[c] \in Nat /\ measure.colroom[c] \in Nat
             /\ ColEnd(c) \in Nat /\ measure.edgex[c] <= ColEnd(c)
  <2>1. measure.edgex[c] \in Nat /\ measure.colroom[c] \in Nat
    BY <1>2 DEF Positioned
  <2> QED
    BY <2>1 DEF ColEnd, LANE
<1>7. \A r, q \in 0 .. grid.rows : r < q => RowEnd(r) <= measure.edgey[q]
  BY <1>2, <1>3, EndBefore DEF RowEnd
<1>8. \A c, e \in 0 .. grid.cols : c < e => ColEnd(c) <= measure.edgex[e]
  BY <1>2, <1>3, EndBefore DEF ColEnd
<1>9. ASSUME NEW n \in Nodes
      PROVE  /\ NodeX(n) \in Int /\ drawing.width[n] \in Nat
             /\ NodeX(n) + drawing.width[n] <= measure.edgex[grid.cell[n].col + 2]
             /\ Touched(routing, n, grid) => ColEnd(grid.cell[n].col) <= NodeX(n)
             /\ NodeY(n) \in Nat /\ NodeY(n) = RowEnd(grid.cell[n].row) + 16
             /\ Height(n) \in Nat /\ Bottom(n) \in Nat /\ NodeY(n) <= Bottom(n)
             /\ Bottom(n) + 16 <= measure.edgey[grid.cell[n].row + 1]
  <2>1. Boxed(n, measure, grid, routing, NodeX(n), NodeY(n), drawing.width[n], Height(n))
    BY BoxedIs DEF Laid
  <2>2. RowEnd(grid.cell[n].row) \in Nat
    BY <1>4, <1>5
  <2>3. /\ NodeX(n) \in Int /\ drawing.width[n] \in Nat
        /\ NodeX(n) + drawing.width[n] <= measure.edgex[grid.cell[n].col + 2]
        /\ Touched(routing, n, grid) => ColEnd(grid.cell[n].col) <= NodeX(n)
        /\ NodeY(n) = RowEnd(grid.cell[n].row) + 16 /\ Height(n) \in Nat
        /\ Bottom(n) + 16 <= measure.edgey[grid.cell[n].row + 1]
    BY <2>1 DEF Boxed, ColEnd, RowEnd, Bottom, PADDING
  <2>4. NodeY(n) \in Nat /\ Bottom(n) \in Nat /\ NodeY(n) <= Bottom(n)
    BY <2>2, <2>3 DEF Bottom
  <2> QED
    BY <2>3, <2>4
<1>10. RowsFit
  BY <1>2, <1>3, <1>4, <1>5, <1>7, <1>9 DEF RowsFit
<1>11. ColsFit
  BY <1>2, <1>3, <1>4, <1>6, <1>8, <1>9 DEF ColsFit
<1> QED
  BY <1>10, <1>11

(* A line in the lane of a column that starts below all nodes above a row,  *)
(* and one that ends above all nodes in and below a row.                    *)
Begins(f, c, y) ==
  /\ y \in Nat
  /\ measure.edgey[f] <= y \/ \A r \in 0 .. grid.rows : r < f => RowEnd(r) + 15 <= y
  /\ \A n \in Nodes : Mid(grid, n) = c /\ grid.cell[n].row < f => Bottom(n) <= y

Ends(d, y) ==
  /\ y \in Nat /\ y <= RowEnd(d) + 15
  /\ \A r \in 0 .. grid.rows : d < r => y < measure.edgey[r]

LEMMA BeginsIn ==
  ASSUME RowsFit, NEW f \in 0 .. grid.rows, NEW c, NEW y \in Nat, measure.edgey[f] <= y
  PROVE  Begins(f, c, y)
<1> SUFFICES ASSUME NEW n \in Nodes, grid.cell[n].row < f PROVE Bottom(n) <= y
  BY DEF Begins
<1> DEFINE r == grid.cell[n].row
<1>1. r \in Nat /\ r + 1 \in 0 .. grid.rows /\ grid.rows \in Nat /\ r < f
  BY DEF RowsFit
<1>2. Bottom(n) \in Nat /\ Bottom(n) + 16 <= measure.edgey[r + 1]
  BY DEF RowsFit
<1> HIDE DEF r
<1>3. \A q \in 0 .. grid.rows : measure.edgey[q] \in Nat /\ RowEnd(q) \in Nat /\ measure.edgey[q] <= RowEnd(q)
  BY DEF RowsFit
<1>4. r + 1 = f \/ r + 1 < f
  BY <1>1
<1>5. measure.edgey[r + 1] <= measure.edgey[f]
  <2>1. CASE r + 1 < f
    <3>1. RowEnd(r + 1) <= measure.edgey[f]
      BY <1>1, <2>1 DEF RowsFit
    <3> QED
      BY <1>1, <1>3, <3>1
  <2> QED
    BY <1>1, <1>3, <1>4, <2>1
<1> QED
  BY <1>1, <1>2, <1>3, <1>5

LEMMA BeginsBelow ==
  ASSUME RowsFit, GridOK, NEW s \in Nodes
  PROVE  Begins(Foot(grid, s), Mid(grid, s), Bottom(s) + 4) /\ Bottom(s) + 4 < measure.edgey[Foot(grid, s)]
<1> DEFINE f == Foot(grid, s)
           y == Bottom(s) + 4
<1>1. /\ f \in 0 .. grid.rows /\ f - 1 \in 0 .. grid.rows /\ f - 1 < f /\ grid.cell[s].row = f - 1
      /\ grid.rows \in Nat
  BY DEF RowsFit, Foot
<1>2. /\ Bottom(s) \in Nat /\ RowEnd(f - 1) + 16 <= Bottom(s) /\ Bottom(s) + 16 <= measure.edgey[f]
      /\ y = Bottom(s) + 4 /\ y \in Nat
  <2>1. /\ NodeY(s) \in Nat /\ NodeY(s) = RowEnd(grid.cell[s].row) + 16
        /\ Bottom(s) \in Nat /\ NodeY(s) <= Bottom(s)
        /\ Bottom(s) + 16 <= measure.edgey[grid.cell[s].row + 1]
    BY DEF RowsFit
  <2>2. RowEnd(f - 1) \in Nat
    BY <1>1 DEF RowsFit
  <2> QED
    BY <1>1, <2>1, <2>2
<1> HIDE DEF f, y
<1>3. /\ \A q \in 0 .. grid.rows : measure.edgey[q] \in Nat /\ RowEnd(q) \in Nat /\ measure.edgey[q] <= RowEnd(q)
      /\ \A r, q \in 0 .. grid.rows : r < q => RowEnd(r) <= measure.edgey[q]
  BY DEF RowsFit
<1>4. ASSUME NEW r \in 0 .. grid.rows, r < f PROVE RowEnd(r) + 15 <= y
  <2>1. r = f - 1 \/ r < f - 1
    BY <1>1, <1>4
  <2>2. RowEnd(r) <= RowEnd(f - 1)
    <3>1. CASE r < f - 1
      <4>1. RowEnd(r) <= measure.edgey[f - 1]
        BY <1>1, <1>3, <3>1
      <4> QED
        BY <1>1, <1>3, <4>1
    <3> QED
      BY <1>1, <1>3, <2>1, <3>1
  <2> QED
    BY <1>1, <1>2, <1>3, <2>2
<1>5. ASSUME NEW n \in Nodes, Mid(grid, n) = Mid(grid, s), grid.cell[n].row < f PROVE Bottom(n) <= y
  <2> DEFINE r == grid.cell[n].row
  <2>1. r \in Nat /\ r + 1 \in 0 .. grid.rows /\ Bottom(n) \in Nat /\ Bottom(n) + 16 <= measure.edgey[r + 1]
    BY DEF RowsFit
  <2>2. CASE r = f - 1
    <3>1. n = s
      BY <1>1, <1>5, <2>2, GridIs DEF CellsApart, Apart, Mid
    <3> QED
      BY <1>2, <3>1
  <2>3. CASE r # f - 1
    <3> HIDE DEF r
    <3>1. r + 1 = f - 1 \/ r + 1 < f - 1
      BY <1>1, <1>5, <2>1, <2>3 DEF r
    <3>2. measure.edgey[r + 1] <= RowEnd(f - 1)
      <4>1. CASE r + 1 < f - 1
        <5>1. RowEnd(r + 1) <= measure.edgey[f - 1]
          BY <1>1, <1>3, <2>1, <4>1
        <5> QED
          BY <1>1, <1>3, <2>1, <5>1
      <4> QED
        BY <1>1, <1>3, <2>1, <3>1, <4>1
    <3> QED
      BY <1>1, <1>2, <1>3, <2>1, <3>2
  <2> QED
    BY <2>2, <2>3
<1>6. Begins(f, Mid(grid, s), y) /\ y < measure.edgey[f]
  BY <1>1, <1>2, <1>3, <1>4, <1>5 DEF Begins
<1> QED
  BY <1>6 DEF f, y

LEMMA EndsIn ==
  ASSUME RowsFit, NEW d \in 0 .. grid.rows, NEW i \in Nat, i + 1 <= measure.rowroom[d]
  PROVE  /\ Ends(d, LaneY(d, i)) /\ LaneY(d, i) \in Nat
         /\ measure.edgey[d] + 4 <= LaneY(d, i) /\ LaneY(d, i) + 4 <= RowEnd(d)
<1>1. /\ measure.edgey[d] \in Nat /\ measure.rowroom[d] \in Nat
      /\ \A r \in 0 .. grid.rows : d < r => RowEnd(d) <= measure.edgey[r] /\ measure.edgey[r] \in Nat
  BY DEF RowsFit
<1>2. /\ LaneY(d, i) = measure.edgey[d] + 8 * i + 4 /\ RowEnd(d) = measure.edgey[d] + 8 * measure.rowroom[d]
      /\ 8 * i + 8 <= 8 * measure.rowroom[d]
  BY <1>1 DEF LaneY, RowEnd, LANE
<1>3. LaneY(d, i) \in Nat /\ measure.edgey[d] + 4 <= LaneY(d, i) /\ LaneY(d, i) + 4 <= RowEnd(d) /\ RowEnd(d) \in Nat
  BY <1>1, <1>2
<1>4. \A r \in 0 .. grid.rows : d < r => LaneY(d, i) < measure.edgey[r]
  BY <1>1, <1>3
<1> QED
  BY <1>3, <1>4 DEF Ends

LEMMA EndsAbove ==
  ASSUME RowsFit, NEW t \in Nodes
  PROVE  LET d == grid.cell[t].row
         IN  /\ d \in 0 .. grid.rows /\ Ends(d, LaneY(d, 0)) /\ Ends(d, NodeY(t) - 1)
             /\ LaneY(d, 0) = measure.edgey[d] + 4 /\ LaneY(d, 0) < NodeY(t) - 1
             /\ measure.edgey[d] \in Nat /\ NodeY(t) = RowEnd(d) + 16
             /\ \A r \in 0 .. grid.rows : d < r => measure.edgey[d] + 16 <= measure.edgey[r]
<1> DEFINE d == grid.cell[t].row
<1>1. d \in Nat /\ d \in 0 .. grid.rows /\ d + 1 \in 0 .. grid.rows /\ grid.rows \in Nat
  BY DEF RowsFit
<1>2. /\ NodeY(t) = RowEnd(d) + 16 /\ NodeY(t) <= Bottom(t) /\ Bottom(t) \in Nat
      /\ Bottom(t) + 16 <= measure.edgey[d + 1]
  BY DEF RowsFit
<1> HIDE DEF d
<1>3. /\ \A q \in 0 .. grid.rows : measure.edgey[q] \in Nat /\ RowEnd(q) \in Nat /\ measure.edgey[q] <= RowEnd(q)
      /\ \A r, q \in 0 .. grid.rows : r < q => RowEnd(r) <= measure.edgey[q]
  BY DEF RowsFit
<1>4. LaneY(d, 0) = measure.edgey[d] + 4
  BY <1>1, <1>3 DEF LaneY, LANE
<1>5. ASSUME NEW r \in 0 .. grid.rows, d < r PROVE NodeY(t) + 16 <= measure.edgey[r]
  <2>1. measure.edgey[d + 1] <= measure.edgey[r]
    <3>1. CASE d + 1 < r
      <4>1. RowEnd(d + 1) <= measure.edgey[r]
        BY <1>1, <1>3, <3>1
      <4> QED
        BY <1>1, <1>3, <4>1
    <3>2. d + 1 = r \/ d + 1 < r
      BY <1>1, <1>5
    <3> QED
      BY <1>1, <1>3, <3>1, <3>2
  <2> QED
    BY <1>1, <1>2, <1>3, <2>1
<1>6. /\ NodeY(t) - 1 = RowEnd(d) + 15 /\ NodeY(t) \in Nat /\ NodeY(t) - 1 \in Nat
      /\ RowEnd(d) \in Nat /\ measure.edgey[d] \in Nat /\ measure.edgey[d] <= RowEnd(d)
  BY <1>1, <1>2, <1>3
<1>7. Ends(d, NodeY(t) - 1)
  BY <1>3, <1>5, <1>6 DEF Ends
<1>8. Ends(d, LaneY(d, 0)) /\ LaneY(d, 0) < NodeY(t) - 1
  <2>1. LaneY(d, 0) \in Nat /\ LaneY(d, 0) <= RowEnd(d) + 15 /\ LaneY(d, 0) < NodeY(t) - 1
    BY <1>4, <1>6
  <2>2. \A r \in 0 .. grid.rows : d < r => LaneY(d, 0) < measure.edgey[r]
    BY <1>3, <1>4, <1>5, <1>6
  <2> QED
    BY <2>1, <2>2 DEF Ends
<1>9. \A r \in 0 .. grid.rows : d < r => measure.edgey[d] + 16 <= measure.edgey[r]
  BY <1>2, <1>3, <1>5, <1>6
<1> QED
  BY <1>1, <1>2, <1>4, <1>6, <1>7, <1>8, <1>9 DEF d

LEMMA EndsLower ==
  ASSUME RowsFit, NEW d \in 0 .. grid.rows, NEW e \in 0 .. grid.rows, d <= e, NEW y, Ends(d, y)
  PROVE  Ends(e, y)
<1>1. /\ \A q \in 0 .. grid.rows : measure.edgey[q] \in Nat /\ RowEnd(q) \in Nat /\ measure.edgey[q] <= RowEnd(q)
      /\ \A r, q \in 0 .. grid.rows : r < q => RowEnd(r) <= measure.edgey[q]
      /\ grid.rows \in Nat
  BY DEF RowsFit
<1>2. RowEnd(d) <= RowEnd(e)
  <2>1. d = e \/ d < e
    BY <1>1
  <2>2. CASE d < e
    <3>1. RowEnd(d) <= measure.edgey[e]
      BY <1>1, <2>2
    <3> QED
      BY <1>1, <3>1
  <2> QED
    BY <1>1, <2>1, <2>2
<1>3. y \in Nat /\ y <= RowEnd(e) + 15
  BY <1>1, <1>2 DEF Ends
<1>4. \A r \in 0 .. grid.rows : e < r => d < r
  BY <1>1
<1> QED
  BY <1>3, <1>4 DEF Ends

-----------------------------------------------------------------------------
(* The points of the line of a route with n points.                         *)
LineOf(q, n, L) ==
  /\ Len(L) = n + 2 /\ DOMAIN L = 1 .. n + 2
  /\ L[1] = Point(LaneX(q.points[1].col, q.start), Bottom(q.edge[1]) + 4)
  /\ \A k \in 1 .. n :
       L[k + 1] = IF k = 1 \/ q.points[k - 1].col = q.points[k].col
                  THEN Point(L[k].x, LaneY(q.points[k].row, q.points[k].index))
                  ELSE Point(LaneX(q.points[k].col, q.points[k].index), L[k].y)
  /\ L[n + 2] = Point(L[n + 1].x, NodeY(q.edge[2]) - 1)

LEMMA LineIs ==
  ASSUME NEW q, NEW n \in Nat, Len(q.points) = n
  PROVE  LineOf(q, n, Line(q))
<1> DEFINE P == q.points
           xs == {LaneX(P[1].col, q.start)} \cup {LaneX(P[k].col, P[k].index) : k \in 0 .. n}
           ys == {Bottom(q.edge[1]) + 4} \cup {LaneY(P[k].row, P[k].index) : k \in 0 .. n}
           S == [x : xs, y : ys]
           base == Point(LaneX(P[1].col, q.start), Bottom(q.edge[1]) + 4)
           More(r, k) == IF k = 1 \/ P[k - 1].col = P[k].col
                         THEN Point(r.x, LaneY(P[k].row, P[k].index))
                         ELSE Point(LaneX(P[k].col, P[k].index), r.y)
           adds == [k \in (0 .. n) \ {0} |-> [r \in S |-> More(r, k)]]
           bend[k \in 0 .. n] == IF k = 0 THEN base ELSE More(bend[k - 1], k)
           L == [k \in 1 .. n + 2 |->
                   IF k <= n + 1 THEN bend[k - 1] ELSE Point(bend[n].x, NodeY(q.edge[2]) - 1)]
<1>0. Line(q) = L
  BY DEF Line, LaneX, LaneY, Bottom
<1> HIDE DEF bend
<1>1. base \in S /\ \A r \in S, k \in (0 .. n) \ {0} : More(r, k) \in S
  BY DEF Point
<1> HIDE DEF S
<1>2. PICK f : General!Follows(f, 0, n, S, base, adds)
  <2> HIDE DEF base, More
  <2>1. General!Steps(adds, 0, n, S)
    BY <1>1 DEF General!Steps
  <2> HIDE DEF adds
  <2> QED
    BY <1>1, <2>1, General!Recursion
<1> HIDE DEF base, More
<1>3. f \in [0 .. n -> S] /\ f[0] = base
  <2> HIDE DEF adds
  <2> QED
    BY <1>2 DEF General!Follows
<1>4. ASSUME NEW k \in (0 .. n) \ {0} PROVE f[k] = More(f[k - 1], k)
  <2>1. f[k] = adds[k][f[k - 1]]
    <3> HIDE DEF adds
    <3> QED
      BY <1>2 DEF General!Follows
  <2>2. f[k - 1] \in S
    BY <1>3
  <2> QED
    BY <2>1, <2>2
<1>5. f = [k \in 0 .. n |-> IF k = 0 THEN base ELSE More(f[k - 1], k)]
  BY <1>3, <1>4
<1>6. bend = [k \in 0 .. n |-> IF k = 0 THEN base ELSE More(bend[k - 1], k)]
  BY <1>5, Zenon DEF bend
<1>7. \A k \in 0 .. n : bend[k] = IF k = 0 THEN base ELSE More(bend[k - 1], k)
  BY <1>6, Zenon
<1>8. Len(L) = n + 2 /\ DOMAIN L = 1 .. n + 2
  OBVIOUS
<1>9. \A k \in 0 .. n : L[k + 1] = bend[k]
  OBVIOUS
<1>10. L[n + 2] = Point(bend[n].x, NodeY(q.edge[2]) - 1)
  OBVIOUS
<1> HIDE DEF L
<1>11. L[1] = base
  BY <1>7, <1>9
<1>12. ASSUME NEW k \in 1 .. n PROVE L[k + 1] = More(L[k], k)
  <2>1. k \in 0 .. n /\ k # 0 /\ k - 1 \in 0 .. n /\ (k - 1) + 1 = k
    OBVIOUS
  <2>2. bend[k] = More(bend[k - 1], k)
    BY <1>7, <2>1
  <2>3. L[k + 1] = bend[k] /\ L[k] = bend[k - 1]
    BY <1>9, <2>1
  <2> QED
    BY <2>2, <2>3
<1>13. L[n + 1] = bend[n]
  BY <1>9
<1>14. LineOf(q, n, L)
  BY <1>8, <1>10, <1>11, <1>12, <1>13 DEF LineOf, base, More
<1> QED
  BY <1>0, <1>14, Zenon
-----------------------------------------------------------------------------
(* Lines down and along. *)
DownLine(x, y, z) == [x1 |-> x, x2 |-> x, y1 |-> y, y2 |-> z]
AlongLine(y, x, z) == [x1 |-> x, x2 |-> z, y1 |-> y, y2 |-> y]

LEMMA DownIs ==
  ASSUME NEW x \in Nat, NEW y \in Nat, NEW z \in Nat, y <= z
  PROVE  /\ Stretch(Point(x, y), Point(x, z)) = DownLine(x, y, z)
         /\ Stretch(Point(x, z), Point(x, y)) = DownLine(x, y, z)
BY DEF Stretch, Point, DownLine, Smaller, Larger

LEMMA AlongIs ==
  ASSUME NEW x \in Nat, NEW y \in Nat, NEW z \in Nat, x <= z
  PROVE  /\ Stretch(Point(x, y), Point(z, y)) = AlongLine(y, x, z)
         /\ Stretch(Point(z, y), Point(x, y)) = AlongLine(y, x, z)
BY DEF Stretch, Point, AlongLine, Smaller, Larger

(* No node of a column is in rows f to d, the last one excepted.            *)
Clear(c, f, d) == \A n \in Nodes : Mid(grid, n) = c => grid.cell[n].row \notin f .. d - 1

(* A line in a lane that the way has marked in all of its rows, or columns. *)
DownPiece(w, l) ==
  \E c \in 0 .. grid.cols, i \in Nat, f, d \in 0 .. grid.rows, y, z \in Nat :
    /\ l = DownLine(LaneX(c, i), y, z) /\ y < z /\ f <= d
    /\ \A r \in f .. d : <<r, c, i>> \in ColMarks(w)
    /\ Clear(c, f, d) /\ Begins(f, c, y) /\ Ends(d, z)

AlongPiece(w, l) ==
  \E r \in 0 .. grid.rows, i \in Nat, a, b \in 0 .. grid.cols, x, z \in Nat :
    /\ l = AlongLine(LaneY(r, i), x, z) /\ x < z /\ a <= b
    /\ \A c \in a .. b : <<r, c, i>> \in RowMarks(w)
    /\ measure.edgex[a] <= x /\ z <= ColEnd(b)

Piece(w, l) == DownPiece(w, l) \/ AlongPiece(w, l)

(* A line down the column of the source that ends above the nodes below it. *)
Detour(w, s, l) ==
  \E i \in Nat, y, z \in Nat :
    /\ l = DownLine(LaneX(Mid(grid, s), i), y, z)
    /\ <<Foot(grid, s), Mid(grid, s), i>> \in ColMarks(w)
    /\ Bottom(s) + 4 <= y
    /\ \A n \in Nodes : Mid(grid, n) = Mid(grid, s) /\ Foot(grid, s) <= grid.cell[n].row => z <= NodeY(n)

(* What is known of the way of a route. *)
Goes(w, q, s, t) ==
  /\ Leads(w, grid, s, t) /\ Passable(w, grid) /\ Takes(q, w, s, t)
  /\ ColMarks(w) \subseteq routing.col /\ RowMarks(w) \subseteq routing.row

(* A lane that a way has in rows and columns has room for its index. *)
FitsIn(w) ==
  /\ w.row \in 0 .. grid.rows /\ w.endrow \in 0 .. grid.rows
  /\ w.from \in 0 .. grid.cols /\ w.to \in 0 .. grid.cols /\ w.col \in 0 .. grid.cols
  /\ w.out \in Nat /\ w.i1 \in Nat /\ w.i2 \in Nat /\ w.i3 \in Nat /\ w.i4 \in Nat
  /\ w.col # w.from \/ w.row = w.endrow => w.out + 1 <= measure.colroom[w.from]
  /\ w.row # w.endrow => w.i2 + 1 <= measure.colroom[w.col]
  /\ w.col # w.to => w.i3 + 1 <= measure.rowroom[w.endrow] /\ w.i4 + 1 <= measure.colroom[w.to]
  /\ w.col # w.from => w.i1 + 1 <= measure.rowroom[w.row]
  /\ w.row = w.endrow => w.col = w.from
  /\ w.col = w.from => w.row <= w.endrow

LEMMA WayFits ==
  ASSUME RowsFit, ColsFit, NEW s \in Nodes, NEW t \in Nodes, NEW w, NEW q, Goes(w, q, s, t), DOMAIN grid.cell = Nodes
  PROVE  FitsIn(w)
<1>1. /\ w.row \in 0 .. grid.rows /\ w.endrow \in 0 .. grid.rows
      /\ w.from \in 0 .. grid.cols /\ w.to \in 0 .. grid.cols
  <2>1. /\ grid.cell[s].row + 1 \in 0 .. grid.rows /\ grid.cell[t].row \in Nat
        /\ grid.cell[t].row + 1 \in 0 .. grid.rows /\ grid.rows \in Nat
    BY DEF RowsFit
  <2>2. /\ grid.cell[s].col \in Nat /\ grid.cell[t].col \in Nat /\ grid.cols \in Nat
        /\ grid.cell[s].col + 2 \in 0 .. grid.cols /\ grid.cell[t].col + 2 \in 0 .. grid.cols
    BY DEF ColsFit
  <2>3. /\ w.row = grid.cell[s].row + 1 /\ w.from = grid.cell[s].col + 1
        /\ w.endrow = grid.cell[t].row /\ w.to = grid.cell[t].col + 1
    BY DEF Goes, Leads, Foot, Mid
  <2> QED
    BY <2>1, <2>2, <2>3
<1>2. /\ w.col \in 0 .. grid.cols
      /\ w.out \in Nat /\ w.i1 \in Nat /\ w.i2 \in Nat /\ w.i3 \in Nat /\ w.i4 \in Nat
      /\ w.row = w.endrow => w.col = w.from
      /\ w.col = w.from => w.row <= w.endrow
  BY DEF Goes, Passable
<1>3. /\ \A m \in ColMarks(w) : m[3] + 1 <= measure.colroom[m[2]]
      /\ \A m \in RowMarks(w) : m[3] + 1 <= measure.rowroom[m[1]]
  BY DEF RowsFit, ColsFit, Goes
<1>4. w.col # w.from \/ w.row = w.endrow => w.out + 1 <= measure.colroom[w.from]
  <2> SUFFICES ASSUME w.col # w.from \/ w.row = w.endrow PROVE w.out + 1 <= measure.colroom[w.from]
    OBVIOUS
  <2>1. <<w.row, w.from, w.out>> \in ColMarks(w)
    BY DEF ColMarks
  <2> QED
    BY <1>3, <2>1
<1>5. w.row # w.endrow => w.i2 + 1 <= measure.colroom[w.col]
  <2> SUFFICES ASSUME w.row # w.endrow PROVE w.i2 + 1 <= measure.colroom[w.col]
    OBVIOUS
  <2>1. w.row \in Between(w.row, w.endrow)
    BY <1>1 DEF Between, Smaller, Larger
  <2>2. <<w.row, w.col, w.i2>> \in ColMarks(w)
    BY <2>1 DEF ColMarks, Lane
  <2> QED
    BY <1>3, <2>2
<1>6. w.col # w.to => w.i3 + 1 <= measure.rowroom[w.endrow] /\ w.i4 + 1 <= measure.colroom[w.to]
  <2> SUFFICES ASSUME w.col # w.to
               PROVE  w.i3 + 1 <= measure.rowroom[w.endrow] /\ w.i4 + 1 <= measure.colroom[w.to]
    OBVIOUS
  <2>1. w.to \in Between(w.col, w.to)
    BY <1>1, <1>2 DEF Between, Smaller, Larger
  <2>2. <<w.endrow, w.to, w.i3>> \in RowMarks(w) /\ <<w.endrow, w.to, w.i4>> \in ColMarks(w)
    BY <2>1 DEF ColMarks, RowMarks, Lane
  <2> QED
    BY <1>3, <2>2
<1>7. w.col # w.from => w.i1 + 1 <= measure.rowroom[w.row]
  <2> SUFFICES ASSUME w.col # w.from PROVE w.i1 + 1 <= measure.rowroom[w.row]
    OBVIOUS
  <2>1. w.from \in Between(w.from, w.col)
    BY <1>1, <1>2 DEF Between, Smaller, Larger
  <2>2. <<w.row, w.from, w.i1>> \in RowMarks(w)
    BY <2>1 DEF RowMarks, Lane
  <2> QED
    BY <1>3, <2>2
<1> QED
  BY <1>1, <1>2, <1>4, <1>5, <1>6, <1>7 DEF FitsIn

LEMMA LaneXIs ==
  ASSUME ColsFit, NEW c \in 0 .. grid.cols, NEW i \in Nat, i + 1 <= measure.colroom[c]
  PROVE  /\ LaneX(c, i) \in Nat /\ measure.edgex[c] + 4 <= LaneX(c, i) /\ LaneX(c, i) + 4 <= ColEnd(c)
         /\ measure.edgex[c] \in Nat /\ ColEnd(c) \in Nat
<1>1. measure.edgex[c] \in Nat /\ measure.colroom[c] \in Nat /\ ColEnd(c) \in Nat
  BY DEF ColsFit
<1>2. /\ LaneX(c, i) = measure.edgex[c] + 8 * i + 4 /\ ColEnd(c) = measure.edgex[c] + 8 * measure.colroom[c]
      /\ 8 * i + 8 <= 8 * measure.colroom[c]
  BY <1>1 DEF LaneX, ColEnd, LANE
<1> QED
  BY <1>1, <1>2

LEMMA BetweenIs ==
  ASSUME NEW a \in Nat, NEW b \in Nat
  PROVE  /\ Smaller(a, b) \in {a, b} /\ Larger(a, b) \in {a, b}
         /\ Smaller(a, b) <= Larger(a, b) /\ Between(a, b) = Smaller(a, b) .. Larger(a, b)
         /\ a < b => Smaller(a, b) = a /\ Larger(a, b) = b
         /\ b < a => Smaller(a, b) = b /\ Larger(a, b) = a
BY DEF Smaller, Larger, Between

(* In a lane between two rows, and between two columns. *)
LEMMA LegDown ==
  ASSUME NEW w, NEW q, NEW s \in Nodes, NEW t \in Nodes, Goes(w, q, s, t), FitsIn(w), w.row # w.endrow,
         DOMAIN grid.cell = Nodes, NEW y \in Nat, NEW z \in Nat, y < z,
         Begins(Smaller(w.row, w.endrow), w.col, y), Ends(Larger(w.row, w.endrow), z)
  PROVE  DownPiece(w, DownLine(LaneX(w.col, w.i2), y, z))
<1> DEFINE low == Smaller(w.row, w.endrow)
           high == Larger(w.row, w.endrow)
<1>1. /\ w.row \in 0 .. grid.rows /\ w.endrow \in 0 .. grid.rows /\ w.row \in Nat /\ w.endrow \in Nat
      /\ w.col \in 0 .. grid.cols /\ w.i2 \in Nat
  BY DEF FitsIn
<1>2. /\ low \in 0 .. grid.rows /\ high \in 0 .. grid.rows /\ low <= high
      /\ Between(w.row, w.endrow) = low .. high
  BY <1>1, BetweenIs
<1>3. Clear(w.col, low, high)
  BY DEF Goes, Passable, Clear
<1> HIDE DEF low, high
<1>4. \A r \in low .. high : <<r, w.col, w.i2>> \in ColMarks(w)
  BY <1>2 DEF ColMarks, Lane
<1> QED
  BY <1>1, <1>2, <1>3, <1>4 DEF DownPiece, low, high

LEMMA LegAlong ==
  ASSUME ColsFit, NEW w, NEW r \in 0 .. grid.rows, NEW i \in Nat,
         NEW c \in 0 .. grid.cols, NEW e \in 0 .. grid.cols, c # e, NEW j \in Nat, NEW k \in Nat,
         j + 1 <= measure.colroom[c], k + 1 <= measure.colroom[e], LaneY(r, i) \in Nat,
         \A b \in Between(c, e) : <<r, b, i>> \in RowMarks(w)
  PROVE  AlongPiece(w, Stretch(Point(LaneX(c, j), LaneY(r, i)), Point(LaneX(e, k), LaneY(r, i))))
<1> DEFINE x == LaneX(c, j)
           z == LaneX(e, k)
           y == LaneY(r, i)
<1>1. /\ x \in Nat /\ measure.edgex[c] + 4 <= x /\ x + 4 <= ColEnd(c)
      /\ z \in Nat /\ measure.edgex[e] + 4 <= z /\ z + 4 <= ColEnd(e)
      /\ measure.edgex[c] \in Nat /\ measure.edgex[e] \in Nat /\ ColEnd(c) \in Nat /\ ColEnd(e) \in Nat
      /\ y \in Nat /\ y = LaneY(r, i)
  BY LaneXIs
<1> HIDE DEF x, z, y
<1>0. ASSUME NEW a \in 0 .. grid.cols, NEW b \in 0 .. grid.cols, NEW p \in Nat, NEW u \in Nat,
             p < u, a <= b, \A h \in a .. b : <<r, h, i>> \in RowMarks(w),
             measure.edgex[a] <= p, u <= ColEnd(b)
      PROVE  AlongPiece(w, AlongLine(y, p, u))
  <2>1. AlongLine(y, p, u) = AlongLine(LaneY(r, i), p, u)
    BY <1>1
  <2> QED
    BY <1>0, <2>1 DEF AlongPiece
<1>2. x \in Nat /\ y \in Nat /\ z \in Nat
  BY <1>1
<1>3. c < e \/ e < c
  OBVIOUS
<1>4. CASE c < e
  <2>1. ColEnd(c) <= measure.edgex[e]
    BY <1>4 DEF ColsFit
  <2>2. x < z /\ x <= z
    BY <1>1, <2>1
  <2>3. Stretch(Point(x, y), Point(z, y)) = AlongLine(y, x, z)
    BY <1>2, <2>2, AlongIs
  <2>4. Between(c, e) = c .. e
    BY <1>4, BetweenIs
  <2>5. measure.edgex[c] <= x /\ z <= ColEnd(e)
    BY <1>1
  <2>6. AlongPiece(w, AlongLine(y, x, z))
    <3>1. \A h \in c .. e : <<r, h, i>> \in RowMarks(w)
      BY <2>4
    <3>2. c <= e
      BY <1>4
    <3> QED
      BY <1>0, <1>1, <2>2, <2>5, <3>1, <3>2
  <2> QED
    BY <2>3, <2>6 DEF x, y, z
<1>5. CASE e < c
  <2>1. ColEnd(e) <= measure.edgex[c]
    BY <1>5 DEF ColsFit
  <2>2. z < x /\ z <= x
    BY <1>1, <2>1
  <2>3. Stretch(Point(x, y), Point(z, y)) = AlongLine(y, z, x)
    BY <1>2, <2>2, AlongIs
  <2>4. Between(c, e) = e .. c
    BY <1>5, BetweenIs
  <2>5. measure.edgex[e] <= z /\ x <= ColEnd(c)
    BY <1>1
  <2>6. AlongPiece(w, AlongLine(y, z, x))
    <3>1. \A h \in e .. c : <<r, h, i>> \in RowMarks(w)
      BY <2>4
    <3>2. e <= c
      BY <1>5
    <3> QED
      BY <1>0, <1>1, <2>2, <2>5, <3>1, <3>2
  <2> QED
    BY <2>3, <2>6 DEF x, y, z
<1> QED
  BY <1>3, <1>4, <1>5

(* Out of the source, and to the target. *)
LEMMA LegOut ==
  ASSUME NEW w, NEW q, NEW s \in Nodes, NEW t \in Nodes, Goes(w, q, s, t), FitsIn(w),
         w.col # w.from \/ w.row = w.endrow, NEW y \in Nat, NEW z \in Nat, y < z,
         Begins(w.row, w.from, y), Ends(w.row, z)
  PROVE  DownPiece(w, DownLine(LaneX(w.from, w.out), y, z))
<1>1. /\ w.row \in 0 .. grid.rows /\ w.from \in 0 .. grid.cols /\ w.out \in Nat /\ w.row \in Nat
  BY DEF FitsIn
<1>2. Clear(w.from, w.row, w.row)
  BY <1>1 DEF Clear
<1>3. \A r \in w.row .. w.row : <<r, w.from, w.out>> \in ColMarks(w)
  <2>1. \A r \in w.row .. w.row : r = w.row
    BY <1>1
  <2> QED
    BY <2>1 DEF ColMarks
<1>4. w.row <= w.row
  BY <1>1
<1> QED
  BY <1>1, <1>2, <1>3, <1>4 DEF DownPiece

LEMMA LegTo ==
  ASSUME RowsFit, NEW w, NEW q, NEW s \in Nodes, NEW t \in Nodes, Goes(w, q, s, t), FitsIn(w),
         w.col # w.to
  PROVE  /\ DownPiece(w, DownLine(LaneX(w.to, w.i4), LaneY(w.endrow, w.i3), NodeY(t) - 1))
         /\ LaneY(w.endrow, w.i3) \in Nat /\ NodeY(t) - 1 \in Nat
         /\ LaneY(w.endrow, w.i3) < NodeY(t) - 1
<1> DEFINE d == w.endrow
           y == LaneY(d, w.i3)
           z == NodeY(t) - 1
<1>1. /\ d \in 0 .. grid.rows /\ w.to \in 0 .. grid.cols /\ w.i3 \in Nat /\ w.i4 \in Nat
      /\ w.i3 + 1 <= measure.rowroom[d] /\ d \in Nat
  BY DEF FitsIn
<1>2. d = grid.cell[t].row
  BY DEF Goes, Leads
<1>3. Ends(d, z) /\ NodeY(t) = RowEnd(d) + 16 /\ measure.edgey[d] \in Nat
  BY <1>2, EndsAbove
<1> HIDE DEF d
<1>4. y \in Nat /\ measure.edgey[d] + 4 <= y /\ y + 4 <= RowEnd(d)
  BY <1>1, EndsIn
<1>5. RowEnd(d) \in Nat
  BY <1>1 DEF RowsFit
<1> HIDE DEF y
<1>6. z \in Nat /\ y < z /\ measure.edgey[d] <= y
  BY <1>3, <1>4, <1>5
<1> HIDE DEF z
<1>7. Begins(d, w.to, y)
  BY <1>1, <1>4, <1>6, BeginsIn
<1>8. Clear(w.to, d, d) /\ d <= d
  BY <1>1 DEF Clear
<1>9. \A r \in d .. d : <<r, w.to, w.i4>> \in ColMarks(w)
  <2>1. \A r \in d .. d : r = d
    BY <1>1
  <2> QED
    BY <2>1 DEF ColMarks, d
<1>10. DownPiece(w, DownLine(LaneX(w.to, w.i4), y, z))
  BY <1>1, <1>3, <1>4, <1>6, <1>7, <1>8, <1>9 DEF DownPiece
<1> QED
  BY <1>4, <1>6, <1>10 DEF d, y, z
-----------------------------------------------------------------------------
(* The rows down to a row are as high as their lanes have marks in a column. *)
LEMMA RowsBelow ==
  ASSUME RowsFit, NEW d \in 0 .. grid.rows, NEW e \in 0 .. grid.rows, d <= e
  PROVE  RowEnd(d) <= RowEnd(e) /\ RowEnd(d) \in Nat /\ RowEnd(e) \in Nat
<1>1. /\ \A q \in 0 .. grid.rows : measure.edgey[q] \in Nat /\ RowEnd(q) \in Nat /\ measure.edgey[q] <= RowEnd(q)
      /\ \A r, q \in 0 .. grid.rows : r < q => RowEnd(r) <= measure.edgey[q]
  BY DEF RowsFit
<1>2. CASE d < e
  <2>1. RowEnd(d) <= measure.edgey[e]
    BY <1>1, <1>2
  <2> QED
    BY <1>1, <2>1
<1>3. d = e \/ d < e
  OBVIOUS
<1> QED
  BY <1>1, <1>2, <1>3

LEMMA RowPaid ==
  ASSUME RowsFit, NEW c, NEW d \in 0 .. grid.rows, LanesOK(routing.row, grid.rows, grid.cols)
  PROVE  /\ IsFiniteSet(Paid(routing.row, c, d, d)) /\ Cardinality(Paid(routing.row, c, d, d)) \in Nat
         /\ Cardinality(Paid(routing.row, c, d, d)) <= measure.rowroom[d] /\ measure.rowroom[d] \in Nat
<1> DEFINE P == Paid(routing.row, c, d, d)
           n == measure.rowroom[d]
           I == 0 .. n - 1
<1>1. n \in Nat /\ \A m \in routing.row : m[3] + 1 <= measure.rowroom[m[1]]
  BY DEF RowsFit
<1>2. P \subseteq {d} \X I
  <2> SUFFICES ASSUME NEW p \in P PROVE p \in {d} \X I
    OBVIOUS
  <2>1. p \in (d .. d) \X Nat /\ <<p[1], c, p[2]>> \in routing.row
    BY DEF Paid
  <2>2. p[1] = d /\ p[2] \in Nat /\ p = <<p[1], p[2]>>
    BY <2>1
  <2>3. p[2] + 1 <= n
    BY <1>1, <2>1, <2>2
  <2> HIDE DEF n, P
  <2>4. p[2] \in I
    BY <1>1, <2>2, <2>3
  <2> QED
    BY <2>2, <2>4
<1> HIDE DEF n, P
<1>3. IsFiniteSet(I) /\ Cardinality(I) = n
  <2>1. Cardinality(I) = IF 0 > n - 1 THEN 0 ELSE (n - 1) - 0 + 1
    BY <1>1, FS_Interval
  <2>2. IsFiniteSet(I)
    BY <1>1, FS_Interval
  <2> QED
    BY <1>1, <2>1, <2>2
<1> HIDE DEF I
<1>4. IsFiniteSet({d}) /\ Cardinality({d}) = 1
  BY FS_Singleton
<1>5. IsFiniteSet({d} \X I) /\ Cardinality({d} \X I) = 1 * n
  BY <1>3, <1>4, FS_Product
<1>6. IsFiniteSet(P) /\ Cardinality(P) <= Cardinality({d} \X I) /\ Cardinality(P) \in Nat
  BY <1>2, <1>5, FS_Subset, FS_CardinalityType
<1> QED
  BY <1>1, <1>5, <1>6 DEF P, n

LEMMA Steep ==
  ASSUME RowsFit, NEW c, NEW a \in 0 .. grid.rows, NEW d \in 0 .. grid.rows, a <= d,
         LanesOK(routing.row, grid.rows, grid.cols)
  PROVE  measure.edgey[a] + 8 * Cardinality(Paid(routing.row, c, a, d)) <= RowEnd(d)
<1> DEFINE P(b) == Paid(routing.row, c, a, b)
           Q(b) == Paid(routing.row, c, b, b)
           T == {b \in 0 .. grid.rows : measure.edgey[a] + 8 * Cardinality(P(b)) <= RowEnd(b)}
<1>1. /\ \A q \in 0 .. grid.rows : /\ measure.edgey[q] \in Nat /\ measure.rowroom[q] \in Nat
                                   /\ RowEnd(q) \in Nat /\ RowEnd(q) = measure.edgey[q] + 8 * measure.rowroom[q]
      /\ \A r, q \in 0 .. grid.rows : r < q => RowEnd(r) <= measure.edgey[q]
      /\ grid.rows \in Nat
  BY DEF RowsFit, RowEnd, LANE
<1>2. \A b \in 0 .. grid.rows : /\ IsFiniteSet(P(b)) /\ Cardinality(P(b)) \in Nat
                               /\ IsFiniteSet(Q(b)) /\ Cardinality(Q(b)) \in Nat
                               /\ Cardinality(Q(b)) <= measure.rowroom[b]
  <2> SUFFICES ASSUME NEW b \in 0 .. grid.rows
               PROVE  /\ IsFiniteSet(P(b)) /\ Cardinality(P(b)) \in Nat
                      /\ IsFiniteSet(Q(b)) /\ Cardinality(Q(b)) \in Nat
                      /\ Cardinality(Q(b)) <= measure.rowroom[b]
    OBVIOUS
  <2>1. a \in Nat /\ b \in Nat
    BY <1>1
  <2> QED
    BY <2>1, CountsAre, RowPaid
<1>3. P(a) = Q(a)
  OBVIOUS
<1>4. \A b \in 0 .. grid.rows : a < b => P(b) = P(b - 1) \cup Q(b)
  <2> SUFFICES ASSUME NEW b \in 0 .. grid.rows, a < b PROVE P(b) = P(b - 1) \cup Q(b)
    OBVIOUS
  <2>1. a .. b = (a .. b - 1) \cup (b .. b)
    BY <1>1
  <2> QED
    BY <2>1, Zenon DEF Paid
<1> HIDE DEF P, Q
<1>5. a \in T
  BY <1>1, <1>2, <1>3
<1>6. ASSUME NEW b \in a .. d, b # a, b - 1 \in T PROVE b \in T
  <2>1. b \in 0 .. grid.rows /\ b - 1 \in 0 .. grid.rows /\ b - 1 < b /\ a < b
    BY <1>1, <1>6
  <2>2. P(b) = P(b - 1) \cup Q(b)
    BY <1>4, <2>1
  <2>3. Cardinality(P(b)) <= Cardinality(P(b - 1)) + Cardinality(Q(b))
    <3>1. Cardinality(P(b - 1) \cup Q(b))
            = Cardinality(P(b - 1)) + Cardinality(Q(b)) - Cardinality(P(b - 1) \cap Q(b))
      BY <1>2, <2>1, FS_Union
    <3>2. Cardinality(P(b - 1) \cap Q(b)) \in Nat
      BY <1>2, <2>1, FS_Intersection, FS_CardinalityType
    <3> QED
      BY <1>2, <2>1, <2>2, <3>1, <3>2
  <2>4. measure.edgey[a] + 8 * Cardinality(P(b - 1)) <= RowEnd(b - 1)
    BY <1>6
  <2>5. RowEnd(b - 1) <= measure.edgey[b] /\ RowEnd(b) = measure.edgey[b] + 8 * measure.rowroom[b]
    BY <1>1, <2>1
  <2>6. measure.edgey[a] + 8 * Cardinality(P(b)) <= RowEnd(b)
    BY <1>1, <1>2, <2>1, <2>3, <2>4, <2>5
  <2> QED
    BY <2>1, <2>6
<1>7. a .. d \subseteq T
  <2> HIDE DEF T
  <2>1. a \in Int /\ d \in Int
    OBVIOUS
  <2> QED
    BY <1>5, <1>6, <2>1, General!IntervalInduction
<1>8. d \in T
  BY <1>7
<1> QED
  BY <1>8 DEF P

(* The index of the lane straight down, taken for one of the row, leads not *)
(* lower than to the next node in the column.                               *)
LEMMA LaneHigh ==
  ASSUME RowsFit, LanesOK(routing.row, grid.rows, grid.cols), DOMAIN grid.cell = Nodes,
         NEW w, NEW q, NEW s \in Nodes, NEW t \in Nodes, Goes(w, q, s, t), FitsIn(w), Straight(w),
         Shallow(routing.row, grid, s, w),
         NEW n \in Nodes, Mid(grid, n) = Mid(grid, s), Foot(grid, s) <= grid.cell[n].row
  PROVE  LaneY(w.row, w.i2) <= NodeY(n)
<1> DEFINE K == {k \in Nodes : Mid(grid, k) = Mid(grid, s) /\ Foot(grid, s) <= grid.cell[k].row}
           R == {grid.cell[k].row : k \in K}
           c == Mid(grid, s)
           a == Foot(grid, s)
<1>1. /\ \A k \in Nodes : grid.cell[k].row \in Nat /\ grid.cell[k].row + 1 \in 0 .. grid.rows
      /\ grid.rows \in Nat
  BY DEF RowsFit
<1>2. PICK m \in R : \A x \in R : m <= x
  <2>1. R # {} /\ R \in SUBSET Nat
    BY <1>1
  <2> HIDE DEF R
  <2> QED
    BY <2>1, General!LeastElement
<1>3. PICK k \in K : grid.cell[k].row = m
  OBVIOUS
<1>4. \A j \in K : grid.cell[k].row <= grid.cell[j].row
  BY <1>2, <1>3
<1> HIDE DEF R
<1>5. k \in Nodes /\ Mid(grid, k) = c /\ a <= grid.cell[k].row /\ a = grid.cell[s].row + 1
  BY DEF Foot
<1>6. NextBelow(grid, s, k)
  <2>1. grid.cell[s].row < grid.cell[k].row
    BY <1>1, <1>5
  <2>2. ASSUME NEW j \in Nodes, Mid(grid, j) = Mid(grid, s)
        PROVE  grid.cell[j].row <= grid.cell[s].row \/ grid.cell[k].row <= grid.cell[j].row
    <3>1. a <= grid.cell[j].row => j \in K
      BY <2>2
    <3> HIDE DEF K
    <3> QED
      BY <1>1, <1>4, <1>5, <3>1
  <2> QED
    BY <1>5, <2>1, <2>2 DEF NextBelow
<1>7. grid.cell[k].row <= grid.cell[n].row
  BY <1>4
<1> HIDE DEF K
<1> DEFINE d == grid.cell[k].row
           p == Cardinality(Paid(routing.row, c, a, d))
<1>8. w.i2 <= p + 1
  BY <1>5, <1>6 DEF Shallow
<1>9. /\ d \in 0 .. grid.rows /\ a \in 0 .. grid.rows /\ a <= d /\ w.row = a /\ w.i2 \in Nat
      /\ grid.cell[n].row \in 0 .. grid.rows /\ d <= grid.cell[n].row /\ a \in Nat /\ d \in Nat
  BY <1>1, <1>5, <1>7 DEF FitsIn, Goes, Leads
<1> HIDE DEF a, d, c
<1>10. measure.edgey[a] + 8 * p <= RowEnd(d)
  BY <1>9, Steep
<1>11. p \in Nat
  BY <1>9, CountsAre
<1>12. RowEnd(d) <= RowEnd(grid.cell[n].row) /\ RowEnd(d) \in Nat /\ RowEnd(grid.cell[n].row) \in Nat
  BY <1>9, RowsBelow
<1>13. NodeY(n) = RowEnd(grid.cell[n].row) + 16 /\ measure.edgey[a] \in Nat
  BY <1>9 DEF RowsFit
<1>14. LaneY(w.row, w.i2) = measure.edgey[a] + 8 * w.i2 + 4
  BY <1>9 DEF LaneY, LANE
<1> HIDE DEF p
<1> QED
  BY <1>8, <1>9, <1>10, <1>11, <1>12, <1>13, <1>14

(* What ends in the last row of a way ends above the nodes below it.        *)
LEMMA EndHigh ==
  ASSUME RowsFit, DOMAIN grid.cell = Nodes,
         NEW w, NEW q, NEW s \in Nodes, NEW t \in Nodes, Goes(w, q, s, t), FitsIn(w), Straight(w),
         NEW z, Ends(w.endrow, z),
         NEW n \in Nodes, Mid(grid, n) = Mid(grid, s), Foot(grid, s) <= grid.cell[n].row
  PROVE  z <= NodeY(n)
<1> DEFINE d == grid.cell[n].row
<1>1. /\ w.row = Foot(grid, s) /\ w.from = Mid(grid, s) /\ w.col = w.from /\ w.row <= w.endrow
      /\ w.endrow \in 0 .. grid.rows /\ w.row \in Nat /\ w.endrow \in Nat
  BY DEF Goes, Leads, FitsIn, Straight
<1>2. d \in Nat /\ d \in 0 .. grid.rows /\ NodeY(n) = RowEnd(d) + 16
  BY DEF RowsFit
<1>3. d \notin w.row .. w.endrow - 1
  <2>1. Smaller(w.row, w.endrow) = w.row /\ Larger(w.row, w.endrow) = w.endrow
    BY <1>1 DEF Smaller, Larger
  <2> QED
    BY <1>1, <2>1 DEF Goes, Passable
<1> HIDE DEF d
<1>4. w.endrow <= d
  BY <1>1, <1>2, <1>3 DEF d
<1>5. RowEnd(w.endrow) <= RowEnd(d) /\ RowEnd(w.endrow) \in Nat /\ RowEnd(d) \in Nat
  BY <1>1, <1>2, <1>4, RowsBelow
<1>6. z \in Nat /\ z <= RowEnd(w.endrow) + 15
  BY DEF Ends
<1> QED
  BY <1>2, <1>5, <1>6

LEMMA DetourIs ==
  ASSUME NEW w, NEW q, NEW s \in Nodes, NEW t \in Nodes, Goes(w, q, s, t), FitsIn(w), Straight(w),
         NEW u \in Nat, NEW v \in Nat, NEW b \in Nat, Bottom(s) + 4 = b, b <= u, b <= v, LaneX(w.col, w.i2) \in Nat,
         \A n \in Nodes : Mid(grid, n) = Mid(grid, s) /\ Foot(grid, s) <= grid.cell[n].row =>
                            u <= NodeY(n) /\ v <= NodeY(n)
  PROVE  Detour(w, s, Stretch(Point(LaneX(w.col, w.i2), u), Point(LaneX(w.col, w.i2), v)))
<1> DEFINE x == LaneX(w.col, w.i2)
<1>1. /\ w.row = Foot(grid, s) /\ w.col = Mid(grid, s) /\ w.row \in Nat /\ w.endrow \in Nat
      /\ w.i2 \in Nat /\ w.row # w.endrow /\ x = LaneX(Mid(grid, s), w.i2)
  BY DEF Goes, Leads, FitsIn, Straight
<1>2. <<Foot(grid, s), Mid(grid, s), w.i2>> \in ColMarks(w)
  <2>1. w.row \in Between(w.row, w.endrow)
    BY <1>1 DEF Between, Smaller, Larger
  <2>2. <<w.row, w.col, w.i2>> \in ColMarks(w)
    BY <1>1, <2>1 DEF ColMarks, Lane
  <2> QED
    BY <1>1, <2>2
<1>3. x \in Nat
  OBVIOUS
<1> HIDE DEF x
<1>4. ASSUME NEW y \in Nat, NEW z \in Nat, b <= y,
             \A n \in Nodes : Mid(grid, n) = Mid(grid, s) /\ Foot(grid, s) <= grid.cell[n].row => z <= NodeY(n)
      PROVE  Detour(w, s, DownLine(x, y, z))
  BY <1>1, <1>2, <1>4 DEF Detour
<1>5. CASE u <= v
  <2>1. Stretch(Point(x, u), Point(x, v)) = DownLine(x, u, v)
    BY <1>3, <1>5, DownIs
  <2>2. Detour(w, s, DownLine(x, u, v))
    BY <1>4
  <2> QED
    BY <2>1, <2>2 DEF x
<1>6. CASE v <= u
  <2>1. Stretch(Point(x, u), Point(x, v)) = DownLine(x, v, u)
    BY <1>3, <1>6, DownIs
  <2>2. Detour(w, s, DownLine(x, v, u))
    BY <1>4
  <2> QED
    BY <2>1, <2>2 DEF x
<1> QED
  BY <1>5, <1>6

(* In the lane between two rows, from one to the other one and, if the      *)
(* target is there, on to it.                                               *)
LEMMA LegBetween ==
  ASSUME RowsFit, ColsFit, DOMAIN grid.cell = Nodes,
         NEW w, NEW q, NEW s \in Nodes, NEW t \in Nodes, Goes(w, q, s, t), FitsIn(w), w.row # w.endrow,
         NEW y, Ends(w.row, y), measure.edgey[w.row] <= y,
         NEW z, Ends(w.endrow, z), measure.edgey[w.endrow] <= z
  PROVE  DownPiece(w, Stretch(Point(LaneX(w.col, w.i2), y), Point(LaneX(w.col, w.i2), z)))
<1> DEFINE r == w.row
           e == w.endrow
           x == LaneX(w.col, w.i2)
<1>1. /\ r \in 0 .. grid.rows /\ e \in 0 .. grid.rows /\ r \in Nat /\ e \in Nat
      /\ w.i2 + 1 <= measure.colroom[w.col] /\ w.col \in 0 .. grid.cols /\ w.i2 \in Nat
  BY DEF FitsIn
<1>2. x \in Nat
  BY <1>1, LaneXIs
<1>3. /\ measure.edgey[r] \in Nat /\ measure.edgey[e] \in Nat /\ y \in Nat /\ z \in Nat
      /\ r < e => y < measure.edgey[e]
      /\ e < r => z < measure.edgey[r]
  BY <1>1 DEF RowsFit, Ends
<1>4. CASE r < e
  <2>1. y < z
    BY <1>3, <1>4
  <2>2. Smaller(r, e) = r /\ Larger(r, e) = e
    BY <1>1, <1>4, BetweenIs
  <2>3. Begins(r, w.col, y)
    BY <1>1, <1>3, BeginsIn
  <2>4. DownPiece(w, DownLine(x, y, z))
    BY <1>3, <1>4, <2>1, <2>2, <2>3, LegDown
  <2>5. Stretch(Point(x, y), Point(x, z)) = DownLine(x, y, z)
    <3> HIDE DEF x
    <3> QED
      BY <1>2, <1>3, <2>1, DownIs
  <2> QED
    BY <2>4, <2>5
<1>5. CASE e < r
  <2>1. z < y
    BY <1>3, <1>5
  <2>2. Smaller(r, e) = e /\ Larger(r, e) = r
    BY <1>1, <1>5, BetweenIs
  <2>3. Begins(e, w.col, z)
    BY <1>1, <1>3, BeginsIn
  <2>4. DownPiece(w, DownLine(x, z, y))
    BY <1>3, <1>5, <2>1, <2>2, <2>3, LegDown
  <2>5. Stretch(Point(x, y), Point(x, z)) = DownLine(x, z, y)
    <3> HIDE DEF x
    <3> QED
      BY <1>2, <1>3, <2>1, DownIs
  <2> QED
    BY <2>4, <2>5
<1> QED
  BY <1>1, <1>4, <1>5

LEMMA LegLast ==
  ASSUME RowsFit, ColsFit, DOMAIN grid.cell = Nodes,
         NEW w, NEW q, NEW s \in Nodes, NEW t \in Nodes, Goes(w, q, s, t), FitsIn(w), w.row # w.endrow
  PROVE  DownPiece(w, Stretch(Point(LaneX(w.col, w.i2), LaneY(w.endrow, 0)),
                              Point(LaneX(w.col, w.i2), NodeY(t) - 1)))
<1> DEFINE r == w.row
           e == w.endrow
           x == LaneX(w.col, w.i2)
           y == LaneY(e, 0)
           z == NodeY(t) - 1
<1> SUFFICES DownPiece(w, Stretch(Point(x, y), Point(x, z)))
  OBVIOUS
<1>1. /\ r \in 0 .. grid.rows /\ e \in 0 .. grid.rows /\ r \in Nat /\ e \in Nat
      /\ w.i2 + 1 <= measure.colroom[w.col] /\ w.col \in 0 .. grid.cols /\ w.i2 \in Nat
  BY DEF FitsIn
<1>2. x \in Nat
  BY <1>1, LaneXIs
<1>3. /\ Ends(e, y) /\ Ends(e, z) /\ y < z /\ y = measure.edgey[e] + 4 /\ measure.edgey[e] \in Nat
  <2>1. e = grid.cell[t].row
    BY DEF Goes, Leads
  <2> QED
    BY <2>1, EndsAbove
<1>4. y \in Nat /\ z \in Nat /\ measure.edgey[e] <= y
  BY <1>3 DEF Ends
<1>5. measure.edgey[r] \in Nat /\ (r < e => measure.edgey[r] <= y)
  <2>1. /\ RowEnd(r) \in Nat /\ measure.edgey[r] <= RowEnd(r) /\ measure.edgey[r] \in Nat
        /\ r < e => RowEnd(r) <= measure.edgey[e]
    BY <1>1 DEF RowsFit
  <2> QED
    BY <1>3, <1>4, <2>1
<1>6. Stretch(Point(x, y), Point(x, z)) = DownLine(x, y, z)
  <2> HIDE DEF x, y, z
  <2>1. y <= z
    BY <1>3, <1>4
  <2> QED
    BY <1>2, <1>4, <2>1, DownIs
<1> HIDE DEF y, z
<1>7. CASE r < e
  <2>1. Smaller(r, e) = r /\ Larger(r, e) = e
    BY <1>1, <1>7, BetweenIs
  <2>2. Begins(r, w.col, y)
    BY <1>1, <1>4, <1>5, <1>7, BeginsIn
  <2>3. DownPiece(w, DownLine(x, y, z))
    BY <1>3, <1>4, <2>1, <2>2, LegDown
  <2> QED
    BY <1>6, <2>3
<1>8. CASE e < r
  <2>1. Smaller(r, e) = e /\ Larger(r, e) = r
    BY <1>1, <1>8, BetweenIs
  <2>2. Begins(e, w.col, y)
    BY <1>1, <1>4, BeginsIn
  <2>3. Ends(r, z)
    <3>1. e <= r
      BY <1>1, <1>8
    <3> QED
      BY <1>1, <1>3, <3>1, EndsLower
  <2>4. DownPiece(w, DownLine(x, y, z))
    BY <1>3, <1>4, <2>1, <2>2, <2>3, LegDown
  <2> QED
    BY <1>6, <2>4
<1> QED
  BY <1>1, <1>7, <1>8

-----------------------------------------------------------------------------
Traced(w, s, L) ==
  /\ \A l \in Direct(L) : Piece(w, l)
  /\ \A l \in Lines(L) : Piece(w, l) \/ Detour(w, s, l)

LEMMA TracedAll ==
  ASSUME NEW w, NEW s, NEW L, NEW n \in Nat, Len(L) = n, L[2].x # L[3].x,
         \A k \in 1 .. n - 1 : Piece(w, Stretch(L[k], L[k + 1]))
  PROVE  Traced(w, s, L)
<1>1. \A l \in Lines(L) : Piece(w, l)
  BY DEF Lines
<1>2. Direct(L) = Lines(L)
  BY DEF Direct
<1> QED
  BY <1>1, <1>2 DEF Traced

LEMMA TracedDown ==
  ASSUME NEW w, NEW s, NEW L, NEW n \in Nat, Len(L) = n, L[2].x = L[3].x,
         Piece(w, Stretch(L[1], L[3])),
         \A k \in 1 .. 2 : Piece(w, Stretch(L[k], L[k + 1])) \/ Detour(w, s, Stretch(L[k], L[k + 1])),
         \A k \in 3 .. n - 1 : Piece(w, Stretch(L[k], L[k + 1]))
  PROVE  Traced(w, s, L)
<1>1. Direct(L) = {Stretch(L[1], L[3])} \cup {Stretch(L[k], L[k + 1]) : k \in 3 .. n - 1}
  BY DEF Direct
<1>2. \A l \in Direct(L) : Piece(w, l)
  BY <1>1
<1>3. ASSUME NEW l \in Lines(L) PROVE Piece(w, l) \/ Detour(w, s, l)
  <2>1. PICK k \in 1 .. n - 1 : l = Stretch(L[k], L[k + 1])
    BY DEF Lines
  <2>2. k \in 1 .. 2 \/ k \in 3 .. n - 1
    OBVIOUS
  <2> QED
    BY <2>1, <2>2
<1> QED
  BY <1>2, <1>3 DEF Traced

LEMMA ColumnsApart ==
  ASSUME ColsFit, NEW c \in 0 .. grid.cols, NEW e \in 0 .. grid.cols, NEW i \in Nat, NEW j \in Nat,
         i + 1 <= measure.colroom[c], j + 1 <= measure.colroom[e], LaneX(c, i) = LaneX(e, j)
  PROVE  c = e /\ i = j
<1>1. /\ LaneX(c, i) \in Nat /\ measure.edgex[c] + 4 <= LaneX(c, i) /\ LaneX(c, i) + 4 <= ColEnd(c)
      /\ LaneX(e, j) \in Nat /\ measure.edgex[e] + 4 <= LaneX(e, j) /\ LaneX(e, j) + 4 <= ColEnd(e)
      /\ measure.edgex[c] \in Nat /\ ColEnd(c) \in Nat /\ measure.edgex[e] \in Nat /\ ColEnd(e) \in Nat
  BY LaneXIs
<1>2. (c < e => ColEnd(c) <= measure.edgex[e]) /\ (e < c => ColEnd(e) <= measure.edgex[c])
  BY DEF ColsFit
<1>3. c = e
  BY <1>1, <1>2
<1>4. measure.edgex[c] + 8 * i + 4 = measure.edgex[c] + 8 * j + 4
  BY <1>3 DEF LaneX, LANE
<1> QED
  BY <1>1, <1>3, <1>4

LEMMA RowsApart ==
  ASSUME RowsFit, NEW r \in 0 .. grid.rows, NEW e \in 0 .. grid.rows, NEW i \in Nat, NEW j \in Nat,
         i + 1 <= measure.rowroom[r], j + 1 <= measure.rowroom[e], LaneY(r, i) = LaneY(e, j)
  PROVE  r = e /\ i = j
<1>1. /\ LaneY(r, i) \in Nat /\ measure.edgey[r] + 4 <= LaneY(r, i) /\ LaneY(r, i) + 4 <= RowEnd(r)
      /\ LaneY(e, j) \in Nat /\ measure.edgey[e] + 4 <= LaneY(e, j) /\ LaneY(e, j) + 4 <= RowEnd(e)
  BY EndsIn
<1>2. /\ measure.edgey[r] \in Nat /\ RowEnd(r) \in Nat /\ measure.edgey[e] \in Nat /\ RowEnd(e) \in Nat
      /\ r < e => RowEnd(r) <= measure.edgey[e]
      /\ e < r => RowEnd(e) <= measure.edgey[r]
  BY DEF RowsFit
<1>3. r = e
  BY <1>1, <1>2
<1>4. measure.edgey[r] + 8 * i + 4 = measure.edgey[r] + 8 * j + 4
  BY <1>3 DEF LaneY, LANE
<1> QED
  BY <1>1, <1>2, <1>3, <1>4

(* The points of lines with one to four turns. *)
Bent(p, u, v) ==
  IF u.col = v.col THEN Point(p.x, LaneY(v.row, v.index)) ELSE Point(LaneX(v.col, v.index), p.y)

Outset(L, q, v) ==
  /\ L[1] = Point(LaneX(v.col, q.start), Bottom(q.edge[1]) + 4)
  /\ L[2] = Point(LaneX(v.col, q.start), LaneY(v.row, v.index))

LEMMA OutsetIs ==
  ASSUME NEW q, NEW n \in Nat, 1 <= n, NEW L, LineOf(q, n, L)
  PROVE  Outset(L, q, q.points[1])
<1>1. /\ L[1] = Point(LaneX(q.points[1].col, q.start), Bottom(q.edge[1]) + 4)
      /\ L[1 + 1] = Point(L[1].x, LaneY(q.points[1].row, q.points[1].index))
  BY DEF LineOf
<1> QED
  BY <1>1 DEF Outset, Point

LEMMA BentIs ==
  ASSUME NEW q, NEW n \in Nat, NEW L, LineOf(q, n, L), NEW k \in 2 .. n
  PROVE  L[k + 1] = Bent(L[k], q.points[k - 1], q.points[k])
BY DEF LineOf, Bent

LEMMA LineOne ==
  ASSUME NEW q, NEW v, q.points = <<v>>
  PROVE  /\ Len(Line(q)) = 3 /\ Outset(Line(q), q, v)
         /\ Line(q)[3] = Point(Line(q)[2].x, NodeY(q.edge[2]) - 1)
<1>1. Len(q.points) = 1 /\ q.points[1] = v
  OBVIOUS
<1>2. LineOf(q, 1, Line(q))
  BY <1>1, LineIs
<1> DEFINE L == Line(q)
<1> HIDE DEF L
<1>3. Outset(L, q, v)
  BY <1>1, <1>2, OutsetIs DEF L
<1> QED
  BY <1>2, <1>3 DEF LineOf, L

LEMMA LineTwo ==
  ASSUME NEW q, NEW u, NEW v, q.points = <<u, v>>
  PROVE  /\ Len(Line(q)) = 4 /\ Outset(Line(q), q, u)
         /\ Line(q)[3] = Bent(Line(q)[2], u, v)
         /\ Line(q)[4] = Point(Line(q)[3].x, NodeY(q.edge[2]) - 1)
<1>1. Len(q.points) = 2 /\ q.points[1] = u /\ q.points[2] = v
  OBVIOUS
<1> DEFINE L == Line(q)
<1>2. LineOf(q, 2, L)
  BY <1>1, LineIs
<1> HIDE DEF L
<1>0. 2 \in Nat /\ 1 <= 2 /\ 2 \in 2 .. 2
  OBVIOUS
<1>3. Outset(L, q, q.points[1])
  BY <1>0, <1>2, OutsetIs
<1>5. L[2 + 1] = Bent(L[2], q.points[2 - 1], q.points[2])
  BY <1>0, <1>2, BentIs
<1>4. Len(L) = 4 /\ L[4] = Point(L[3].x, NodeY(q.edge[2]) - 1)
  BY <1>2 DEF LineOf
<1> QED
  BY <1>1, <1>3, <1>4, <1>5 DEF L

LEMMA LineThree ==
  ASSUME NEW q, NEW u, NEW v, NEW p, q.points = <<u, v, p>>
  PROVE  /\ Len(Line(q)) = 5 /\ Outset(Line(q), q, u)
         /\ Line(q)[3] = Bent(Line(q)[2], u, v) /\ Line(q)[4] = Bent(Line(q)[3], v, p)
         /\ Line(q)[5] = Point(Line(q)[4].x, NodeY(q.edge[2]) - 1)
<1>1. Len(q.points) = 3 /\ q.points[1] = u /\ q.points[2] = v /\ q.points[3] = p
  OBVIOUS
<1> DEFINE L == Line(q)
<1>2. LineOf(q, 3, L)
  BY <1>1, LineIs
<1> HIDE DEF L
<1>0. 3 \in Nat /\ 1 <= 3 /\ 2 \in 2 .. 3 /\ 3 \in 2 .. 3
  OBVIOUS
<1>3. Outset(L, q, q.points[1])
  BY <1>0, <1>2, OutsetIs
<1>5. L[2 + 1] = Bent(L[2], q.points[2 - 1], q.points[2])
  BY <1>0, <1>2, BentIs
<1>6. L[3 + 1] = Bent(L[3], q.points[3 - 1], q.points[3])
  BY <1>0, <1>2, BentIs
<1>4. Len(L) = 5 /\ L[5] = Point(L[4].x, NodeY(q.edge[2]) - 1)
  BY <1>2 DEF LineOf
<1> QED
  BY <1>1, <1>3, <1>4, <1>5, <1>6 DEF L

LEMMA LineFour ==
  ASSUME NEW q, NEW u, NEW v, NEW p, NEW o, q.points = <<u, v, p, o>>
  PROVE  /\ Len(Line(q)) = 6 /\ Outset(Line(q), q, u)
         /\ Line(q)[3] = Bent(Line(q)[2], u, v) /\ Line(q)[4] = Bent(Line(q)[3], v, p)
         /\ Line(q)[5] = Bent(Line(q)[4], p, o)
         /\ Line(q)[6] = Point(Line(q)[5].x, NodeY(q.edge[2]) - 1)
<1>1. Len(q.points) = 4 /\ q.points[1] = u /\ q.points[2] = v /\ q.points[3] = p /\ q.points[4] = o
  OBVIOUS
<1> DEFINE L == Line(q)
<1>2. LineOf(q, 4, L)
  BY <1>1, LineIs
<1> HIDE DEF L
<1>0. 4 \in Nat /\ 1 <= 4 /\ 2 \in 2 .. 4 /\ 3 \in 2 .. 4 /\ 4 \in 2 .. 4
  OBVIOUS
<1>3. Outset(L, q, q.points[1])
  BY <1>0, <1>2, OutsetIs
<1>5. L[2 + 1] = Bent(L[2], q.points[2 - 1], q.points[2])
  BY <1>0, <1>2, BentIs
<1>6. L[3 + 1] = Bent(L[3], q.points[3 - 1], q.points[3])
  BY <1>0, <1>2, BentIs
<1>7. L[4 + 1] = Bent(L[4], q.points[4 - 1], q.points[4])
  BY <1>0, <1>2, BentIs
<1>4. Len(L) = 6 /\ L[6] = Point(L[5].x, NodeY(q.edge[2]) - 1)
  BY <1>2 DEF LineOf
<1> QED
  BY <1>1, <1>3, <1>4, <1>5, <1>6, <1>7 DEF L

(* Where the lines of a way are. *)
LEMMA WayTraced ==
  ASSUME RowsFit, ColsFit, GridOK, DOMAIN grid.cell = Nodes, LanesOK(routing.row, grid.rows, grid.cols),
         NEW w, NEW q, NEW s \in Nodes, NEW t \in Nodes, Goes(w, q, s, t), FitsIn(w),
         Shallow(routing.row, grid, s, w)
  PROVE  Traced(w, s, Line(q))
<1> DEFINE r == w.row
           e == w.endrow
           f == w.from
           c == w.col
           g == w.to
           L == Line(q)
           P == q.points
           xo == LaneX(f, w.out)
           xi == LaneX(c, w.i2)
           xt == LaneX(g, w.i4)
           yo == Bottom(s) + 4
           ya == LaneY(r, w.i1)
           yb == LaneY(e, w.i3)
           y0 == LaneY(e, 0)
           yd == LaneY(r, w.i2)
           yt == NodeY(t) - 1
<1>1. /\ r \in 0 .. grid.rows /\ e \in 0 .. grid.rows /\ r \in Nat /\ e \in Nat
      /\ f \in 0 .. grid.cols /\ g \in 0 .. grid.cols /\ c \in 0 .. grid.cols
      /\ w.out \in Nat /\ w.i1 \in Nat /\ w.i2 \in Nat /\ w.i3 \in Nat /\ w.i4 \in Nat
      /\ r = e => c = f
      /\ c = f => r <= e
  BY DEF FitsIn
<1>2. /\ c # f \/ r = e => w.out + 1 <= measure.colroom[f] /\ xo \in Nat
      /\ r # e => w.i2 + 1 <= measure.colroom[c] /\ xi \in Nat
      /\ c # g => w.i4 + 1 <= measure.colroom[g] /\ xt \in Nat
      /\ c # g => w.i3 + 1 <= measure.rowroom[e]
      /\ c # f => w.i1 + 1 <= measure.rowroom[r]
  <2>1. /\ c # f \/ r = e => w.out + 1 <= measure.colroom[f]
        /\ r # e => w.i2 + 1 <= measure.colroom[c]
        /\ c # g => w.i4 + 1 <= measure.colroom[g] /\ w.i3 + 1 <= measure.rowroom[e]
        /\ c # f => w.i1 + 1 <= measure.rowroom[r]
    BY DEF FitsIn
  <2>2. c # f \/ r = e => xo \in Nat
    BY <1>1, <2>1, LaneXIs
  <2>3. r # e => xi \in Nat
    BY <1>1, <2>1, LaneXIs
  <2>4. c # g => xt \in Nat
    BY <1>1, <2>1, LaneXIs
  <2> QED
    BY <2>1, <2>2, <2>3, <2>4
<1>3. /\ f = Mid(grid, s) /\ r = Foot(grid, s) /\ e = grid.cell[t].row
      /\ q.edge = <<s, t>> /\ P = Turns(w) /\ q.start = IF Straight(w) THEN w.i2 ELSE w.out
  BY DEF Goes, Leads, Takes
<1>4. Begins(r, f, yo) /\ yo < measure.edgey[r] /\ yo \in Nat
  <2>1. Begins(r, f, yo) /\ yo < measure.edgey[r]
    BY <1>3, BeginsBelow
  <2> QED
    BY <2>1 DEF Begins
<1>5. /\ Ends(e, y0) /\ Ends(e, yt) /\ y0 = measure.edgey[e] + 4 /\ y0 < yt
      /\ y0 \in Nat /\ yt \in Nat /\ measure.edgey[e] \in Nat
  <2>1. /\ Ends(e, y0) /\ Ends(e, yt) /\ y0 = measure.edgey[e] + 4 /\ y0 < yt /\ measure.edgey[e] \in Nat
    BY <1>3, EndsAbove
  <2> QED
    BY <2>1 DEF Ends
<1>6. c # g => /\ Ends(e, yb) /\ yb \in Nat /\ measure.edgey[e] + 4 <= yb /\ yb < yt
               /\ DownPiece(w, DownLine(xt, yb, yt))
  <2>1. c # g => Ends(e, yb) /\ measure.edgey[e] + 4 <= yb
    BY <1>1, <1>2, EndsIn
  <2>2. c # g => DownPiece(w, DownLine(xt, yb, yt)) /\ yb < yt /\ yb \in Nat
    BY LegTo
  <2> QED
    BY <2>1, <2>2
<1>7. c # f => Ends(r, ya) /\ ya \in Nat /\ measure.edgey[r] + 4 <= ya
  BY <1>1, <1>2, EndsIn
<1>8. measure.edgey[r] \in Nat
  BY <1>1 DEF RowsFit
<1> SUFFICES Traced(w, s, L)
  OBVIOUS
<1>9. CASE r = e /\ c = g
  <2>1. P = <<Turn(r, f, 0)>> /\ q.start = w.out
    BY <1>1, <1>3, <1>9 DEF Turns, Straight
  <2>2. /\ Len(L) = 3 /\ Outset(L, q, Turn(r, f, 0))
        /\ L[3] = Point(L[2].x, NodeY(q.edge[2]) - 1)
    BY <2>1, LineOne
  <2> HIDE DEF L
  <2>3. L[1] = Point(xo, yo) /\ L[2] = Point(xo, y0) /\ L[3] = Point(xo, yt)
    BY <1>3, <1>9, <2>1, <2>2 DEF Outset, Turn, Point
  <2> HIDE DEF xo, yo, y0, yt
  <2>4. yo < y0 /\ yo < yt /\ Ends(r, y0) /\ Ends(r, yt) /\ Begins(r, f, y0)
    <3>1. measure.edgey[r] <= y0
      BY <1>5, <1>9
    <3> QED
      BY <1>1, <1>4, <1>5, <1>8, <1>9, <3>1, BeginsIn
  <2>5. /\ DownPiece(w, DownLine(xo, yo, yt)) /\ DownPiece(w, DownLine(xo, yo, y0))
        /\ DownPiece(w, DownLine(xo, y0, yt))
    BY <1>4, <1>5, <1>9, <2>4, LegOut DEF xo
  <2>6. /\ Stretch(Point(xo, yo), Point(xo, yt)) = DownLine(xo, yo, yt)
        /\ Stretch(Point(xo, yo), Point(xo, y0)) = DownLine(xo, yo, y0)
        /\ Stretch(Point(xo, y0), Point(xo, yt)) = DownLine(xo, y0, yt)
    BY <1>2, <1>4, <1>5, <1>9, <2>4, DownIs
  <2>7. Piece(w, Stretch(L[1], L[3])) /\ Piece(w, Stretch(L[1], L[2])) /\ Piece(w, Stretch(L[2], L[3]))
    BY <2>3, <2>5, <2>6 DEF Piece
  <2>8. L[2].x = L[3].x
    BY <2>3 DEF Point
  <2>9. \A k \in 1 .. 2 : Piece(w, Stretch(L[k], L[k + 1]))
    <3>1. \A k \in 1 .. 2 : (k = 1 /\ k + 1 = 2) \/ (k = 2 /\ k + 1 = 3)
      OBVIOUS
    <3> QED
      BY <2>7, <3>1
  <2>10. \A k \in 3 .. 3 - 1 : Piece(w, Stretch(L[k], L[k + 1]))
    OBVIOUS
  <2> QED
    BY <2>2, <2>7, <2>8, <2>9, <2>10, TracedDown
<1>10. CASE r = e /\ c # g
  <2>1. P = <<Turn(r, f, w.i3), Turn(e, g, w.i4)>> /\ q.start = w.out
    BY <1>1, <1>3, <1>10 DEF Turns, Straight
  <2>2. /\ Len(L) = 4 /\ Outset(L, q, Turn(r, f, w.i3))
        /\ L[3] = Bent(L[2], Turn(r, f, w.i3), Turn(e, g, w.i4))
        /\ L[4] = Point(L[3].x, NodeY(q.edge[2]) - 1)
    BY <2>1, LineTwo
  <2> HIDE DEF L
  <2>3. c = f /\ f # g
    BY <1>1, <1>10
  <2>4. L[1] = Point(xo, yo) /\ L[2] = Point(xo, yb) /\ L[3] = Point(xt, yb) /\ L[4] = Point(xt, yt)
    BY <1>3, <1>10, <2>1, <2>2, <2>3 DEF Outset, Bent, Turn, Point
  <2>5. L[2].x # L[3].x
    <3>1. xo # xt
      BY <1>1, <1>2, <1>10, <2>3, ColumnsApart
    <3> QED
      BY <2>4, <3>1 DEF Point
  <2>6. Piece(w, Stretch(Point(xo, yb), Point(xt, yb)))
    <3>1. \A b \in Between(f, g) : <<e, b, w.i3>> \in RowMarks(w)
      BY <1>10, <2>3 DEF RowMarks, Lane
    <3> QED
      BY <1>1, <1>2, <1>6, <1>10, <2>3, <3>1, LegAlong DEF Piece
  <2> HIDE DEF xo, xt, yo, yb, yt
  <2>7. yo < yb /\ Ends(r, yb)
    BY <1>4, <1>5, <1>6, <1>8, <1>10
  <2>8. DownPiece(w, DownLine(xo, yo, yb))
    BY <1>4, <1>6, <1>10, <2>7, LegOut DEF xo
  <2>9. /\ Stretch(Point(xo, yo), Point(xo, yb)) = DownLine(xo, yo, yb)
        /\ Stretch(Point(xt, yb), Point(xt, yt)) = DownLine(xt, yb, yt)
    BY <1>2, <1>4, <1>5, <1>6, <1>10, <2>7, DownIs
  <2>10. /\ Piece(w, Stretch(L[1], L[2])) /\ Piece(w, Stretch(L[2], L[3])) /\ Piece(w, Stretch(L[3], L[4]))
    BY <1>6, <1>10, <2>4, <2>6, <2>8, <2>9 DEF Piece
  <2>11. \A k \in 1 .. 4 - 1 : Piece(w, Stretch(L[k], L[k + 1]))
    <3>1. \A k \in 1 .. 4 - 1 : (k = 1 /\ k + 1 = 2) \/ (k = 2 /\ k + 1 = 3) \/ (k = 3 /\ k + 1 = 4)
      OBVIOUS
    <3> QED
      BY <2>10, <3>1
  <2> QED
    BY <2>2, <2>5, <2>11, TracedAll
<1>11. ASSUME r # e, c = f
       PROVE  /\ Straight(w) /\ r < e /\ Begins(Smaller(r, e), c, yo) /\ Larger(r, e) = e
              /\ measure.edgey[r] <= measure.edgey[e] /\ yd \in Nat /\ yo <= yd
              /\ \A n \in Nodes : Mid(grid, n) = Mid(grid, s) /\ Foot(grid, s) <= grid.cell[n].row =>
                                    yd <= NodeY(n) /\ y0 <= NodeY(n) /\ (c # g => yb <= NodeY(n))
  <2>1. Straight(w) /\ r < e
    BY <1>1, <1>11 DEF Straight
  <2>2. Smaller(r, e) = r /\ Larger(r, e) = e
    BY <1>1, <2>1, BetweenIs
  <2>3. measure.edgey[r] <= RowEnd(r) /\ RowEnd(r) <= measure.edgey[e] /\ RowEnd(r) \in Nat
    BY <1>1, <2>1 DEF RowsFit
  <2>4. yd = measure.edgey[r] + 8 * w.i2 + 4
    BY DEF LaneY, LANE
  <2>5. yd \in Nat /\ yo <= yd
    BY <1>1, <1>4, <1>8, <2>4
  <2>6. ASSUME NEW n \in Nodes, Mid(grid, n) = Mid(grid, s), Foot(grid, s) <= grid.cell[n].row
        PROVE  yd <= NodeY(n) /\ y0 <= NodeY(n) /\ (c # g => yb <= NodeY(n))
    <3>1. yd <= NodeY(n)
      BY <2>1, <2>6, LaneHigh
    <3>2. y0 <= NodeY(n)
      BY <1>5, <2>1, <2>6, EndHigh
    <3>3. c # g => yb <= NodeY(n)
      BY <1>6, <2>1, <2>6, EndHigh
    <3> QED
      BY <3>1, <3>2, <3>3
  <2>7. measure.edgey[r] <= measure.edgey[e]
    BY <1>5, <1>8, <2>3
  <2> QED
    BY <1>4, <1>11, <2>1, <2>2, <2>5, <2>6, <2>7
<1>12. ASSUME r # e, c = f, NEW z \in Nat, Ends(e, z), measure.edgey[e] <= z
       PROVE  Piece(w, Stretch(Point(xi, yo), Point(xi, z)))
  <2>1. yo < z
    BY <1>4, <1>5, <1>8, <1>11, <1>12
  <2>2. DownPiece(w, DownLine(xi, yo, z))
    BY <1>4, <1>11, <1>12, <2>1, LegDown
  <2>3. Stretch(Point(xi, yo), Point(xi, z)) = DownLine(xi, yo, z)
    <3> HIDE DEF xi, yo
    <3> QED
      BY <1>2, <1>4, <1>12, <2>1, DownIs
  <2> QED
    BY <2>2, <2>3 DEF Piece
<1>13. ASSUME r # e, c = f, NEW u \in {yo, yd}, NEW v \in Nat, yo <= v,
              \A n \in Nodes : Mid(grid, n) = Mid(grid, s) /\ Foot(grid, s) <= grid.cell[n].row => v <= NodeY(n)
       PROVE  Detour(w, s, Stretch(Point(xi, u), Point(xi, v)))
  <2>1. \A n \in Nodes : Mid(grid, n) = Mid(grid, s) /\ Foot(grid, s) <= grid.cell[n].row =>
                            u <= NodeY(n) /\ v <= NodeY(n)
    <3>1. \A n \in Nodes : NodeY(n) \in Nat
      BY DEF RowsFit
    <3> HIDE DEF yo, yd
    <3> QED
      BY <1>4, <1>11, <1>13, <3>1
  <2>2. u \in Nat /\ yo <= u
    BY <1>4, <1>11, <1>13
  <2>3. Straight(w)
    BY <1>11, <1>13
  <2>4. xi \in Nat
    BY <1>2, <1>13
  <2> QED
    BY <1>4, <1>13, <2>1, <2>2, <2>3, <2>4, DetourIs
<1>14. CASE r # e /\ c = f /\ c = g
  <2>1. P = <<Turn(r, f, w.i2), Turn(e, c, 0)>> /\ q.start = w.i2
    BY <1>3, <1>11, <1>14 DEF Turns
  <2>2. /\ Len(L) = 4 /\ Outset(L, q, Turn(r, f, w.i2))
        /\ L[3] = Bent(L[2], Turn(r, f, w.i2), Turn(e, c, 0))
        /\ L[4] = Point(L[3].x, NodeY(q.edge[2]) - 1)
    BY <2>1, LineTwo
  <2> HIDE DEF L
  <2>3. L[1] = Point(xi, yo) /\ L[2] = Point(xi, yd) /\ L[3] = Point(xi, y0) /\ L[4] = Point(xi, yt)
    BY <1>3, <1>14, <2>1, <2>2 DEF Outset, Bent, Turn, Point
  <2>4. L[2].x = L[3].x
    BY <2>3 DEF Point
  <2>5. Piece(w, Stretch(L[1], L[3])) /\ Piece(w, Stretch(L[3], L[4]))
    <3>1. Piece(w, Stretch(Point(xi, y0), Point(xi, yt)))
      BY <1>14, LegLast DEF Piece
    <3>2. measure.edgey[e] <= y0
      BY <1>5
    <3>3. Piece(w, Stretch(Point(xi, yo), Point(xi, y0)))
      BY <1>5, <1>12, <1>14, <3>2
    <3> QED
      BY <2>3, <3>1, <3>3
  <2>6. Detour(w, s, Stretch(L[1], L[2])) /\ Detour(w, s, Stretch(L[2], L[3]))
    <3>1. yo <= y0 /\ yo <= yd /\ yd \in Nat
      BY <1>4, <1>5, <1>8, <1>11, <1>14
    <3>2. Detour(w, s, Stretch(Point(xi, yo), Point(xi, yd)))
      BY <1>11, <1>13, <1>14, <3>1
    <3>3. Detour(w, s, Stretch(Point(xi, yd), Point(xi, y0)))
      BY <1>5, <1>11, <1>13, <1>14, <3>1
    <3> QED
      BY <2>3, <3>2, <3>3
  <2>7. \A k \in 1 .. 2 : Detour(w, s, Stretch(L[k], L[k + 1]))
    <3>1. \A k \in 1 .. 2 : (k = 1 /\ k + 1 = 2) \/ (k = 2 /\ k + 1 = 3)
      OBVIOUS
    <3> QED
      BY <2>6, <3>1
  <2>8. \A k \in 3 .. 4 - 1 : Piece(w, Stretch(L[k], L[k + 1]))
    <3>1. \A k \in 3 .. 4 - 1 : k = 3 /\ k + 1 = 4
      OBVIOUS
    <3> QED
      BY <2>5, <3>1
  <2> QED
    BY <2>2, <2>4, <2>5, <2>7, <2>8, TracedDown
<1>15. CASE r # e /\ c = f /\ c # g
  <2>1. P = <<Turn(r, f, w.i2), Turn(e, c, w.i3), Turn(e, g, w.i4)>> /\ q.start = w.i2
    BY <1>3, <1>11, <1>15 DEF Turns
  <2>2. /\ Len(L) = 5 /\ Outset(L, q, Turn(r, f, w.i2))
        /\ L[3] = Bent(L[2], Turn(r, f, w.i2), Turn(e, c, w.i3))
        /\ L[4] = Bent(L[3], Turn(e, c, w.i3), Turn(e, g, w.i4))
        /\ L[5] = Point(L[4].x, NodeY(q.edge[2]) - 1)
    BY <2>1, LineThree
  <2> HIDE DEF L
  <2>3. /\ L[1] = Point(xi, yo) /\ L[2] = Point(xi, yd) /\ L[3] = Point(xi, yb) /\ L[4] = Point(xt, yb)
        /\ L[5] = Point(xt, yt)
    BY <1>3, <1>15, <2>1, <2>2 DEF Outset, Bent, Turn, Point
  <2>4. L[2].x = L[3].x
    BY <2>3 DEF Point
  <2>5. Piece(w, Stretch(L[1], L[3])) /\ Piece(w, Stretch(L[3], L[4])) /\ Piece(w, Stretch(L[4], L[5]))
    <3>1. Stretch(Point(xt, yb), Point(xt, yt)) = DownLine(xt, yb, yt)
      BY <1>2, <1>5, <1>6, <1>15, DownIs
    <3>2. Piece(w, Stretch(Point(xt, yb), Point(xt, yt)))
      BY <1>6, <1>15, <3>1 DEF Piece
    <3>3. Piece(w, Stretch(Point(xi, yb), Point(xt, yb)))
      <4>1. \A b \in Between(c, g) : <<e, b, w.i3>> \in RowMarks(w)
        BY <1>15 DEF RowMarks, Lane
      <4> QED
        BY <1>1, <1>2, <1>6, <1>15, <4>1, LegAlong DEF Piece
    <3>4. measure.edgey[e] <= yb
      BY <1>5, <1>6, <1>15
    <3>5. Piece(w, Stretch(Point(xi, yo), Point(xi, yb)))
      BY <1>6, <1>12, <1>15, <3>4
    <3> QED
      BY <2>3, <3>2, <3>3, <3>5
  <2>6. Detour(w, s, Stretch(L[1], L[2])) /\ Detour(w, s, Stretch(L[2], L[3]))
    <3>1. yo <= yb /\ yo <= yd /\ yd \in Nat
      BY <1>4, <1>5, <1>6, <1>8, <1>11, <1>15
    <3>2. Detour(w, s, Stretch(Point(xi, yo), Point(xi, yd)))
      BY <1>11, <1>13, <1>15, <3>1
    <3>3. Detour(w, s, Stretch(Point(xi, yd), Point(xi, yb)))
      BY <1>6, <1>11, <1>13, <1>15, <3>1
    <3> QED
      BY <2>3, <3>2, <3>3
  <2>7. \A k \in 1 .. 2 : Detour(w, s, Stretch(L[k], L[k + 1]))
    <3>1. \A k \in 1 .. 2 : (k = 1 /\ k + 1 = 2) \/ (k = 2 /\ k + 1 = 3)
      OBVIOUS
    <3> QED
      BY <2>6, <3>1
  <2>8. \A k \in 3 .. 5 - 1 : Piece(w, Stretch(L[k], L[k + 1]))
    <3>1. \A k \in 3 .. 5 - 1 : (k = 3 /\ k + 1 = 4) \/ (k = 4 /\ k + 1 = 5)
      OBVIOUS
    <3> QED
      BY <2>5, <3>1
  <2> QED
    BY <2>2, <2>4, <2>5, <2>7, <2>8, TracedDown
<1>16. ASSUME c # f
       PROVE  /\ r # e /\ q.start = w.out /\ xo # xi
              /\ Piece(w, Stretch(Point(xo, yo), Point(xo, ya)))
              /\ Piece(w, Stretch(Point(xo, ya), Point(xi, ya)))
  <2>1. r # e /\ q.start = w.out
    BY <1>1, <1>3, <1>16 DEF Straight
  <2>2. xo # xi
    BY <1>1, <1>2, <1>16, <2>1, ColumnsApart
  <2>3. yo < ya
    BY <1>4, <1>7, <1>8, <1>16
  <2>4. DownPiece(w, DownLine(xo, yo, ya))
    BY <1>4, <1>7, <1>16, <2>3, LegOut
  <2>5. Stretch(Point(xo, yo), Point(xo, ya)) = DownLine(xo, yo, ya)
    <3> HIDE DEF xo, yo, ya
    <3> QED
      BY <1>2, <1>4, <1>7, <1>16, <2>3, DownIs
  <2>6. Piece(w, Stretch(Point(xo, ya), Point(xi, ya)))
    <3>1. \A b \in Between(f, c) : <<r, b, w.i1>> \in RowMarks(w)
      BY <1>16 DEF RowMarks, Lane
    <3> QED
      BY <1>1, <1>2, <1>7, <1>16, <2>1, <3>1, LegAlong DEF Piece
  <2> QED
    BY <2>1, <2>2, <2>4, <2>5, <2>6 DEF Piece
<1>17. CASE c # f /\ c = g
  <2>1. P = <<Turn(r, f, w.i1), Turn(r, c, w.i2), Turn(e, c, 0)>> /\ q.start = w.out /\ r # e
    BY <1>3, <1>16, <1>17 DEF Turns
  <2>2. /\ Len(L) = 5 /\ Outset(L, q, Turn(r, f, w.i1))
        /\ L[3] = Bent(L[2], Turn(r, f, w.i1), Turn(r, c, w.i2))
        /\ L[4] = Bent(L[3], Turn(r, c, w.i2), Turn(e, c, 0))
        /\ L[5] = Point(L[4].x, NodeY(q.edge[2]) - 1)
    BY <2>1, LineThree
  <2> HIDE DEF L
  <2>3. /\ L[1] = Point(xo, yo) /\ L[2] = Point(xo, ya) /\ L[3] = Point(xi, ya) /\ L[4] = Point(xi, y0)
        /\ L[5] = Point(xi, yt)
    BY <1>3, <1>17, <2>1, <2>2 DEF Outset, Bent, Turn, Point
  <2>4. L[2].x # L[3].x
    BY <1>16, <1>17, <2>3 DEF Point
  <2>5. Piece(w, Stretch(L[3], L[4]))
    <3>1. measure.edgey[r] <= ya /\ measure.edgey[e] <= y0
      BY <1>5, <1>7, <1>8, <1>17
    <3>2. Piece(w, Stretch(Point(xi, ya), Point(xi, y0)))
      BY <1>5, <1>7, <1>17, <2>1, <3>1, LegBetween DEF Piece
    <3> QED
      BY <2>3, <3>2
  <2>6. Piece(w, Stretch(L[4], L[5]))
    <3>1. Piece(w, Stretch(Point(xi, y0), Point(xi, yt)))
      BY <2>1, LegLast DEF Piece
    <3> QED
      BY <2>3, <3>1
  <2>7. Piece(w, Stretch(L[1], L[2])) /\ Piece(w, Stretch(L[2], L[3]))
    BY <1>16, <1>17, <2>3
  <2>8. \A k \in 1 .. 5 - 1 : Piece(w, Stretch(L[k], L[k + 1]))
    <3>1. \A k \in 1 .. 5 - 1 : \/ (k = 1 /\ k + 1 = 2) \/ (k = 2 /\ k + 1 = 3)
                                \/ (k = 3 /\ k + 1 = 4) \/ (k = 4 /\ k + 1 = 5)
      OBVIOUS
    <3> QED
      BY <2>5, <2>6, <2>7, <3>1
  <2> QED
    BY <2>2, <2>4, <2>8, TracedAll
<1>18. CASE c # f /\ c # g
  <2>1. /\ P = <<Turn(r, f, w.i1), Turn(r, c, w.i2), Turn(e, c, w.i3), Turn(e, g, w.i4)>>
        /\ q.start = w.out /\ r # e
    BY <1>3, <1>16, <1>18 DEF Turns
  <2>2. /\ Len(L) = 6 /\ Outset(L, q, Turn(r, f, w.i1))
        /\ L[3] = Bent(L[2], Turn(r, f, w.i1), Turn(r, c, w.i2))
        /\ L[4] = Bent(L[3], Turn(r, c, w.i2), Turn(e, c, w.i3))
        /\ L[5] = Bent(L[4], Turn(e, c, w.i3), Turn(e, g, w.i4))
        /\ L[6] = Point(L[5].x, NodeY(q.edge[2]) - 1)
    BY <2>1, LineFour
  <2> HIDE DEF L
  <2>3. /\ L[1] = Point(xo, yo) /\ L[2] = Point(xo, ya) /\ L[3] = Point(xi, ya) /\ L[4] = Point(xi, yb)
        /\ L[5] = Point(xt, yb) /\ L[6] = Point(xt, yt)
    BY <1>3, <1>18, <2>1, <2>2 DEF Outset, Bent, Turn, Point
  <2>4. L[2].x # L[3].x
    BY <1>16, <1>18, <2>3 DEF Point
  <2>5. Piece(w, Stretch(L[3], L[4]))
    <3>1. measure.edgey[r] <= ya /\ measure.edgey[e] <= yb
      BY <1>5, <1>6, <1>7, <1>8, <1>18
    <3>2. Piece(w, Stretch(Point(xi, ya), Point(xi, yb)))
      BY <1>6, <1>7, <1>18, <2>1, <3>1, LegBetween DEF Piece
    <3> QED
      BY <2>3, <3>2
  <2>6. Piece(w, Stretch(L[4], L[5])) /\ Piece(w, Stretch(L[5], L[6]))
    <3>1. Stretch(Point(xt, yb), Point(xt, yt)) = DownLine(xt, yb, yt)
      BY <1>2, <1>5, <1>6, <1>18, DownIs
    <3>2. Piece(w, Stretch(Point(xt, yb), Point(xt, yt)))
      BY <1>6, <1>18, <3>1 DEF Piece
    <3>3. Piece(w, Stretch(Point(xi, yb), Point(xt, yb)))
      <4>1. \A b \in Between(c, g) : <<e, b, w.i3>> \in RowMarks(w)
        BY <1>18 DEF RowMarks, Lane
      <4> QED
        BY <1>1, <1>2, <1>6, <1>18, <2>1, <4>1, LegAlong DEF Piece
    <3> QED
      BY <2>3, <3>2, <3>3
  <2>7. Piece(w, Stretch(L[1], L[2])) /\ Piece(w, Stretch(L[2], L[3]))
    BY <1>16, <1>18, <2>3
  <2>8. \A k \in 1 .. 6 - 1 : Piece(w, Stretch(L[k], L[k + 1]))
    <3>1. \A k \in 1 .. 6 - 1 : \/ (k = 1 /\ k + 1 = 2) \/ (k = 2 /\ k + 1 = 3) \/ (k = 3 /\ k + 1 = 4)
                                \/ (k = 4 /\ k + 1 = 5) \/ (k = 5 /\ k + 1 = 6)
      OBVIOUS
    <3> QED
      BY <2>5, <2>6, <2>7, <3>1
  <2> QED
    BY <2>2, <2>4, <2>8, TracedAll
<1> QED
  BY <1>9, <1>10, <1>14, <1>15, <1>17, <1>18

-----------------------------------------------------------------------------
(* Every way makes a mark in the column of its source. *)
LEMMA SourceTouched ==
  ASSUME NEW w, NEW q, NEW s \in Nodes, NEW t \in Nodes, Goes(w, q, s, t), FitsIn(w)
  PROVE  Touched(routing, s, grid)
<1>1. w.from = grid.cell[s].col + 1 /\ w.row \in Nat /\ w.endrow \in Nat /\ ColMarks(w) \subseteq routing.col
  BY DEF Goes, Leads, Mid, FitsIn
<1>2. \E m \in ColMarks(w) : m[2] = w.from
  <2>1. CASE w.col # w.from \/ w.row = w.endrow
    <3>1. <<w.row, w.from, w.out>> \in ColMarks(w)
      BY <2>1 DEF ColMarks
    <3> QED
      BY <3>1
  <2>2. CASE w.col = w.from /\ w.row # w.endrow
    <3>1. w.row \in Between(w.row, w.endrow)
      BY <1>1 DEF Between, Smaller, Larger
    <3>2. <<w.row, w.col, w.i2>> \in ColMarks(w)
      BY <2>2, <3>1 DEF ColMarks, Lane
    <3> QED
      BY <2>2, <3>2
  <2> QED
    BY <2>1, <2>2
<1> QED
  BY <1>1, <1>2 DEF Touched

(* A node, and a line beside it, above it or below it. *)
Passes(l, n) ==
  \/ l.x2 <= NodeX(n) \/ NodeX(n) + drawing.width[n] <= l.x1
  \/ l.y2 <= NodeY(n) \/ Bottom(n) <= l.y1

LEMMA PassesBeside ==
  ASSUME ColsFit, NEW n \in Nodes, Touched(routing, n, grid), NEW c \in 0 .. grid.cols, c # Mid(grid, n),
         NEW i \in Nat, i + 1 <= measure.colroom[c], NEW y, NEW z
  PROVE  Passes(DownLine(LaneX(c, i), y, z), n)
<1> DEFINE x == LaneX(c, i)
           k == grid.cell[n].col
<1>1. x \in Nat /\ measure.edgex[c] + 4 <= x /\ x + 4 <= ColEnd(c) /\ measure.edgex[c] \in Nat /\ ColEnd(c) \in Nat
  BY LaneXIs
<1>2. /\ k \in Nat /\ k + 2 \in 0 .. grid.cols /\ k \in 0 .. grid.cols /\ c # k + 1 /\ grid.cols \in Nat
      /\ NodeX(n) \in Int /\ drawing.width[n] \in Nat
      /\ NodeX(n) + drawing.width[n] <= measure.edgex[k + 2] /\ ColEnd(k) <= NodeX(n)
  BY DEF ColsFit, Mid
<1>3. /\ \A b \in 0 .. grid.cols : measure.edgex[b] \in Nat /\ ColEnd(b) \in Nat /\ measure.edgex[b] <= ColEnd(b)
      /\ \A b, e \in 0 .. grid.cols : b < e => ColEnd(b) <= measure.edgex[e]
  BY DEF ColsFit
<1> HIDE DEF x, k
<1>4. c <= k \/ k + 2 <= c
  BY <1>2
<1>5. CASE c <= k
  <2>1. ColEnd(c) <= ColEnd(k)
    <3>1. CASE c < k
      <4>1. ColEnd(c) <= measure.edgex[k]
        BY <1>2, <1>3, <3>1
      <4> QED
        BY <1>1, <1>2, <1>3, <4>1
    <3>2. c = k \/ c < k
      BY <1>2, <1>5
    <3> QED
      BY <1>1, <3>1, <3>2
  <2>2. x <= NodeX(n)
    BY <1>1, <1>2, <1>3, <2>1
  <2> QED
    BY <2>2 DEF Passes, DownLine, x
<1>6. CASE k + 2 <= c
  <2>1. measure.edgex[k + 2] <= measure.edgex[c]
    <3>1. CASE k + 2 < c
      <4>1. ColEnd(k + 2) <= measure.edgex[c]
        BY <1>2, <1>3, <3>1
      <4> QED
        BY <1>1, <1>2, <1>3, <4>1
    <3>2. k + 2 = c \/ k + 2 < c
      BY <1>2, <1>6
    <3> QED
      BY <1>1, <3>1, <3>2
  <2>2. NodeX(n) + drawing.width[n] <= x
    BY <1>1, <1>2, <1>3, <2>1
  <2> QED
    BY <2>2 DEF Passes, DownLine, x
<1> QED
  BY <1>4, <1>5, <1>6

LEMMA DownPasses ==
  ASSUME RowsFit, ColsFit, NEW w, ColMarks(w) \subseteq routing.col, NEW l, DownPiece(w, l),
         NEW n \in Nodes, Touched(routing, n, grid)
  PROVE  Passes(l, n)
<1>1. PICK c \in 0 .. grid.cols, i \in Nat, f \in 0 .. grid.rows, d \in 0 .. grid.rows, y \in Nat, z \in Nat :
        /\ l = DownLine(LaneX(c, i), y, z) /\ y < z /\ f <= d
        /\ \A r \in f .. d : <<r, c, i>> \in ColMarks(w)
        /\ Clear(c, f, d) /\ Begins(f, c, y) /\ Ends(d, z)
  BY DEF DownPiece
<1>2. i + 1 <= measure.colroom[c]
  <2>1. f \in f .. d
    BY <1>1
  <2>2. <<f, c, i>> \in routing.col
    BY <1>1, <2>1
  <2> QED
    BY <2>2 DEF ColsFit
<1>3. CASE c # Mid(grid, n)
  BY <1>1, <1>2, <1>3, PassesBeside
<1>4. CASE c = Mid(grid, n)
  <2> DEFINE e == grid.cell[n].row
  <2>1. e \in Nat /\ e \in 0 .. grid.rows /\ NodeY(n) = RowEnd(e) + 16 /\ NodeY(n) \in Nat
    BY DEF RowsFit
  <2>2. e \notin f .. d - 1
    BY <1>1, <1>4 DEF Clear
  <2>3. e < f => Bottom(n) <= y
    BY <1>1, <1>4 DEF Begins
  <2>4. z \in Nat /\ z <= RowEnd(d) + 15
    BY <1>1 DEF Ends
  <2> HIDE DEF e
  <2>5. d <= e => z <= NodeY(n)
    <3> SUFFICES ASSUME d <= e PROVE z <= NodeY(n)
      OBVIOUS
    <3>1. RowEnd(d) <= RowEnd(e) /\ RowEnd(d) \in Nat /\ RowEnd(e) \in Nat
      BY <2>1, RowsBelow
    <3> QED
      BY <2>1, <2>4, <3>1
  <2>6. e < f \/ d <= e
    BY <1>1, <2>1, <2>2
  <2> QED
    BY <1>1, <2>3, <2>5, <2>6 DEF Passes, DownLine
<1> QED
  BY <1>3, <1>4

LEMMA AlongPasses ==
  ASSUME RowsFit, NEW w, RowMarks(w) \subseteq routing.row, NEW l, AlongPiece(w, l), NEW n \in Nodes
  PROVE  Passes(l, n)
<1>1. PICK r \in 0 .. grid.rows, i \in Nat, a \in 0 .. grid.cols, b \in 0 .. grid.cols, x \in Nat, z \in Nat :
        /\ l = AlongLine(LaneY(r, i), x, z) /\ x < z /\ a <= b
        /\ \A c \in a .. b : <<r, c, i>> \in RowMarks(w)
  BY DEF AlongPiece
<1>2. i + 1 <= measure.rowroom[r]
  <2>1. a \in a .. b
    BY <1>1
  <2>2. <<r, a, i>> \in routing.row
    BY <1>1, <2>1
  <2> QED
    BY <2>2 DEF RowsFit
<1> DEFINE e == grid.cell[n].row
           y == LaneY(r, i)
<1>3. /\ e \in Nat /\ e \in 0 .. grid.rows /\ e + 1 \in 0 .. grid.rows /\ NodeY(n) = RowEnd(e) + 16
      /\ Bottom(n) \in Nat /\ Bottom(n) + 16 <= measure.edgey[e + 1]
  BY DEF RowsFit
<1>4. y \in Nat /\ measure.edgey[r] + 4 <= y /\ y + 4 <= RowEnd(r)
  BY <1>2, EndsIn
<1> HIDE DEF e, y
<1>5. CASE r <= e
  <2>1. RowEnd(r) <= RowEnd(e) /\ RowEnd(r) \in Nat /\ RowEnd(e) \in Nat
    BY <1>3, <1>5, RowsBelow
  <2>2. y <= NodeY(n)
    BY <1>3, <1>4, <2>1
  <2> QED
    BY <1>1, <2>2 DEF Passes, AlongLine, y
<1>6. CASE e < r
  <2>1. measure.edgey[e + 1] <= measure.edgey[r]
    <3>1. /\ measure.edgey[e + 1] \in Nat /\ measure.edgey[r] \in Nat /\ RowEnd(e + 1) \in Nat
          /\ measure.edgey[e + 1] <= RowEnd(e + 1)
          /\ e + 1 < r => RowEnd(e + 1) <= measure.edgey[r]
      BY <1>3 DEF RowsFit
    <3>2. e + 1 = r \/ e + 1 < r
      BY <1>3, <1>6
    <3> QED
      BY <3>1, <3>2
  <2>2. Bottom(n) <= y
    <3>1. measure.edgey[e + 1] \in Nat /\ measure.edgey[r] \in Nat
      BY <1>3 DEF RowsFit
    <3> QED
      BY <1>3, <1>4, <2>1, <3>1
  <2> QED
    BY <1>1, <2>2 DEF Passes, AlongLine, y
<1> QED
  BY <1>3, <1>5, <1>6

LEMMA DetourPasses ==
  ASSUME RowsFit, ColsFit, GridOK, NEW w, ColMarks(w) \subseteq routing.col, NEW s \in Nodes, NEW l,
         Detour(w, s, l), NEW n \in Nodes, Touched(routing, n, grid)
  PROVE  Passes(l, n)
<1>1. PICK i \in Nat, y \in Nat, z \in Nat :
        /\ l = DownLine(LaneX(Mid(grid, s), i), y, z)
        /\ <<Foot(grid, s), Mid(grid, s), i>> \in ColMarks(w)
        /\ Bottom(s) + 4 <= y
        /\ \A k \in Nodes : Mid(grid, k) = Mid(grid, s) /\ Foot(grid, s) <= grid.cell[k].row => z <= NodeY(k)
  BY DEF Detour
<1>2. i + 1 <= measure.colroom[Mid(grid, s)]
  BY <1>1 DEF ColsFit
<1>3. Mid(grid, s) \in 0 .. grid.cols
  BY DEF ColsFit, Mid
<1>4. CASE Mid(grid, s) # Mid(grid, n)
  BY <1>1, <1>2, <1>3, <1>4, PassesBeside
<1>5. CASE Mid(grid, s) = Mid(grid, n)
  <2>1. grid.cell[n].row < Foot(grid, s) => Bottom(n) <= Bottom(s) + 4
    BY <1>5, BeginsBelow DEF Begins
  <2>2. /\ Bottom(n) \in Nat /\ Bottom(s) \in Nat /\ grid.cell[n].row \in Nat /\ Foot(grid, s) \in Nat
    BY DEF RowsFit, Foot
  <2>3. Bottom(n) <= y \/ z <= NodeY(n)
    BY <1>1, <1>5, <2>1, <2>2
  <2> QED
    BY <1>1, <2>3 DEF Passes, DownLine
<1> QED
  BY <1>4, <1>5
-----------------------------------------------------------------------------
(* Two lines that are not drawn on top of each other. *)
NotOver(l, m) ==
  /\ l.x1 = l.x2 /\ m.x1 = l.x1 /\ m.x2 = l.x1 => l.y2 <= m.y1 \/ m.y2 <= l.y1
  /\ l.y1 = l.y2 /\ m.y1 = l.y1 /\ m.y2 = l.y1 => l.x2 <= m.x1 \/ m.x2 <= l.x1

LEMMA EndBegin ==
  ASSUME NEW d \in 0 .. grid.rows, NEW f \in 0 .. grid.rows, d < f, RowsFit, NEW c, NEW y, NEW z,
         Ends(d, z), Begins(f, c, y)
  PROVE  z <= y
<1>1. y \in Nat /\ z \in Nat /\ z < measure.edgey[f] /\ z <= RowEnd(d) + 15
  BY DEF Begins, Ends
<1>2. RowEnd(d) \in Nat /\ measure.edgey[f] \in Nat
  BY DEF RowsFit
<1>3. measure.edgey[f] <= y \/ RowEnd(d) + 15 <= y
  BY DEF Begins
<1> QED
  BY <1>1, <1>2, <1>3

LEMMA PiecesApart ==
  ASSUME RowsFit, ColsFit, NEW v, NEW w, Distinct(v, w),
         ColMarks(v) \subseteq routing.col, RowMarks(v) \subseteq routing.row,
         ColMarks(w) \subseteq routing.col, RowMarks(w) \subseteq routing.row,
         NEW l, Piece(v, l), NEW m, Piece(w, m)
  PROVE  NotOver(l, m)
<1>1. CASE DownPiece(v, l) /\ DownPiece(w, m)
  <2>1. PICK c \in 0 .. grid.cols, i \in Nat, f \in 0 .. grid.rows, d \in 0 .. grid.rows, y \in Nat, z \in Nat :
          /\ l = DownLine(LaneX(c, i), y, z) /\ y < z /\ f <= d
          /\ \A r \in f .. d : <<r, c, i>> \in ColMarks(v)
          /\ Clear(c, f, d) /\ Begins(f, c, y) /\ Ends(d, z)
    BY <1>1 DEF DownPiece
  <2>2. PICK e \in 0 .. grid.cols, j \in Nat, g \in 0 .. grid.rows, h \in 0 .. grid.rows, p \in Nat, u \in Nat :
          /\ m = DownLine(LaneX(e, j), p, u) /\ p < u /\ g <= h
          /\ \A r \in g .. h : <<r, e, j>> \in ColMarks(w)
          /\ Clear(e, g, h) /\ Begins(g, e, p) /\ Ends(h, u)
    BY <1>1 DEF DownPiece
  <2>3. i + 1 <= measure.colroom[c] /\ j + 1 <= measure.colroom[e]
    <3>1. f \in f .. d /\ g \in g .. h
      BY <2>1, <2>2
    <3>2. <<f, c, i>> \in routing.col /\ <<g, e, j>> \in routing.col
      BY <2>1, <2>2, <3>1
    <3> QED
      BY <3>2 DEF ColsFit
  <2>4. ASSUME LaneX(c, i) = LaneX(e, j) PROVE z <= p \/ u <= y
    <3>1. c = e /\ i = j
      BY <2>3, <2>4, ColumnsApart
    <3>2. \A r \in f .. d : r \notin g .. h
      BY <2>1, <2>2, <3>1 DEF Distinct
    <3>3. d < g \/ h < f
      <4>1. f \in f .. d /\ g \in g .. h
        BY <2>1, <2>2
      <4>2. f \notin g .. h /\ g \notin f .. d
        BY <3>2, <4>1
      <4> QED
        BY <2>1, <2>2, <4>2
    <3>4. CASE d < g
      BY <2>1, <2>2, <3>4, EndBegin
    <3>5. CASE h < f
      BY <2>1, <2>2, <3>5, EndBegin
    <3> QED
      BY <3>3, <3>4, <3>5
  <2> QED
    BY <2>1, <2>2, <2>4 DEF NotOver, DownLine
<1>2. CASE AlongPiece(v, l) /\ AlongPiece(w, m)
  <2>1. PICK r \in 0 .. grid.rows, i \in Nat, a \in 0 .. grid.cols, b \in 0 .. grid.cols, x \in Nat, z \in Nat :
          /\ l = AlongLine(LaneY(r, i), x, z) /\ x < z /\ a <= b
          /\ \A c \in a .. b : <<r, c, i>> \in RowMarks(v)
          /\ measure.edgex[a] <= x /\ z <= ColEnd(b)
    BY <1>2 DEF AlongPiece
  <2>2. PICK e \in 0 .. grid.rows, j \in Nat, g \in 0 .. grid.cols, h \in 0 .. grid.cols, p \in Nat, u \in Nat :
          /\ m = AlongLine(LaneY(e, j), p, u) /\ p < u /\ g <= h
          /\ \A c \in g .. h : <<e, c, j>> \in RowMarks(w)
          /\ measure.edgex[g] <= p /\ u <= ColEnd(h)
    BY <1>2 DEF AlongPiece
  <2>3. i + 1 <= measure.rowroom[r] /\ j + 1 <= measure.rowroom[e]
    <3>1. a \in a .. b /\ g \in g .. h
      BY <2>1, <2>2
    <3>2. <<r, a, i>> \in routing.row /\ <<e, g, j>> \in routing.row
      BY <2>1, <2>2, <3>1
    <3> QED
      BY <3>2 DEF RowsFit
  <2>4. ASSUME LaneY(r, i) = LaneY(e, j) PROVE z <= p \/ u <= x
    <3>1. r = e /\ i = j
      BY <2>3, <2>4, RowsApart
    <3>2. \A c \in a .. b : c \notin g .. h
      BY <2>1, <2>2, <3>1 DEF Distinct
    <3>3. b < g \/ h < a
      <4>1. a \in a .. b /\ g \in g .. h
        BY <2>1, <2>2
      <4>2. a \notin g .. h /\ g \notin a .. b
        BY <3>2, <4>1
      <4> QED
        BY <2>1, <2>2, <4>2
    <3>4. /\ b < g => ColEnd(b) <= measure.edgex[g]
          /\ h < a => ColEnd(h) <= measure.edgex[a]
          /\ ColEnd(b) \in Nat /\ ColEnd(h) \in Nat /\ measure.edgex[g] \in Nat /\ measure.edgex[a] \in Nat
      BY DEF ColsFit
    <3> QED
      BY <2>1, <2>2, <3>3, <3>4
  <2> QED
    BY <2>1, <2>2, <2>4 DEF NotOver, AlongLine
<1>3. \A k, o : DownPiece(k, o) => o.x1 = o.x2 /\ o.y1 # o.y2
  BY DEF DownPiece, DownLine
<1>4. \A k, o : AlongPiece(k, o) => o.y1 = o.y2 /\ o.x1 # o.x2
  BY DEF AlongPiece, AlongLine
<1>5. CASE DownPiece(v, l) /\ AlongPiece(w, m)
  <2>1. l.y1 # l.y2 /\ m.x1 # m.x2
    BY <1>3, <1>4, <1>5
  <2> QED
    BY <2>1 DEF NotOver
<1>6. CASE AlongPiece(v, l) /\ DownPiece(w, m)
  <2>1. m.y1 # m.y2 /\ l.x1 # l.x2
    BY <1>3, <1>4, <1>6
  <2> QED
    BY <2>1 DEF NotOver
<1> QED
  BY <1>1, <1>2, <1>5, <1>6 DEF Piece

-----------------------------------------------------------------------------
LEMMA RouteDrawn ==
  ASSUME Laid, NEW q, NEW w, Way(routing, grid, q, w)
  PROVE  /\ \A l \in Lines(Line(q)), n \in Nodes : Passes(l, n)
         /\ \A l \in Direct(Line(q)) : Piece(w, l)
         /\ ColMarks(w) \subseteq routing.col /\ RowMarks(w) \subseteq routing.row
<1>1. RowsFit /\ ColsFit
  BY LaidFits
<1>2. GridOK /\ DOMAIN grid.cell = Nodes /\ LanesOK(routing.row, grid.rows, grid.cols)
  BY GridIs DEF Laid, MarksIn
<1>3. PICK s \in Nodes, t \in Nodes : Goes(w, q, s, t) /\ Shallow(routing.row, grid, s, w)
  BY <1>2 DEF Way, Goes
<1>4. ColMarks(w) \subseteq routing.col /\ RowMarks(w) \subseteq routing.row
  BY <1>3 DEF Goes
<1>5. FitsIn(w)
  BY <1>1, <1>2, <1>3, WayFits
<1>6. Traced(w, s, Line(q))
  BY <1>1, <1>2, <1>3, <1>5, WayTraced
<1>7. ASSUME NEW n \in Nodes PROVE Touched(routing, n, grid)
  <2>1. CASE n = s
    BY <1>3, <1>5, <2>1, SourceTouched
  <2>2. CASE n # s
    BY <2>2, NodesTouched DEF Laid
  <2> QED
    BY <2>1, <2>2
<1>8. ASSUME NEW l \in Lines(Line(q)), NEW n \in Nodes PROVE Passes(l, n)
  <2>1. Touched(routing, n, grid)
    BY <1>7
  <2>2. DownPiece(w, l) \/ AlongPiece(w, l) \/ Detour(w, s, l)
    BY <1>6 DEF Traced, Piece
  <2>3. CASE DownPiece(w, l)
    BY <1>1, <1>4, <2>1, <2>3, DownPasses
  <2>4. CASE AlongPiece(w, l)
    BY <1>1, <1>4, <2>4, AlongPasses
  <2>5. CASE Detour(w, s, l)
    BY <1>1, <1>2, <1>4, <2>1, <2>5, DetourPasses
  <2> QED
    BY <2>2, <2>3, <2>4, <2>5
<1> QED
  BY <1>4, <1>6, <1>8 DEF Traced

LEMMA DrawClear == ASSUME TreeInv, RouteInv, PictureInv, WaysInv, Draw PROVE RoutesClear'
<1> DEFINE boxes == [n \in Nodes |-> BoxAt(n)]
           R == routing.routes
           lines == [i \in DOMAIN R |-> Line(R[i])]
<1>1. /\ step = "draw" /\ step' = "done" /\ drawing' = drawing
      /\ picture'.boxes = boxes /\ picture'.lines = lines
  BY DEF Draw, tree, BoxAt
<1>2. Laid /\ Ways(routing, grid)
  BY <1>1 DEF TreeInv, Spanning, RouteInv, PictureInv, WaysInv, Laid
<1>3. /\ \A i \in DOMAIN R : \E w : Way(routing, grid, R[i], w)
      /\ \A i, j \in DOMAIN R : i < j =>
           \E v, w : Way(routing, grid, R[i], v) /\ Way(routing, grid, R[j], w) /\ Distinct(v, w)
  BY <1>2 DEF Ways
<1>4. Nodes' = Nodes /\ \A n \in Nodes : picture'.boxes[n] = BoxAt(n)
  BY <1>1 DEF Nodes
<1>5. DOMAIN picture'.lines = DOMAIN R /\ \A i \in DOMAIN R : picture'.lines[i] = Line(R[i])
  BY <1>1
<1> HIDE DEF boxes, lines
<1>6. ASSUME NEW i \in DOMAIN R, NEW l \in Lines(Line(R[i])), NEW n \in Nodes PROVE Passes(l, n)
  <2>1. PICK w : Way(routing, grid, R[i], w)
    BY <1>3
  <2> HIDE DEF R
  <2> QED
    BY <1>2, <1>6, <2>1, RouteDrawn
<1>7. ASSUME NEW i \in DOMAIN R, NEW j \in DOMAIN R, i < j,
             NEW l \in Direct(Line(R[i])), NEW m \in Direct(Line(R[j]))
      PROVE  NotOver(l, m)
  <2>1. PICK v, w : Way(routing, grid, R[i], v) /\ Way(routing, grid, R[j], w) /\ Distinct(v, w)
    BY <1>3, <1>7
  <2>2. RowsFit /\ ColsFit
    BY <1>2, LaidFits
  <2> HIDE DEF R
  <2>3. Piece(v, l) /\ ColMarks(v) \subseteq routing.col /\ RowMarks(v) \subseteq routing.row
    BY <1>2, <1>7, <2>1, RouteDrawn
  <2>4. Piece(w, m) /\ ColMarks(w) \subseteq routing.col /\ RowMarks(w) \subseteq routing.row
    BY <1>2, <1>7, <2>1, RouteDrawn
  <2> QED
    BY <2>1, <2>2, <2>3, <2>4, PiecesApart
<1> HIDE DEF R
<1>8. ASSUME NEW i \in DOMAIN picture'.lines, NEW l \in Lines(picture'.lines[i]), NEW n \in Nodes'
      PROVE  LET b == picture'.boxes[n]
             IN  l.x2 <= b.x \/ b.x + b.width <= l.x1 \/ l.y2 <= b.y \/ b.y + b.height <= l.y1
  <2>1. Passes(l, n)
    BY <1>4, <1>5, <1>6
  <2>2. picture'.boxes[n] = BoxAt(n)
    BY <1>4
  <2> QED
    BY <2>1, <2>2 DEF Passes, BoxAt, Bottom
<1>9. ASSUME NEW i \in DOMAIN picture'.lines, NEW j \in DOMAIN picture'.lines, i < j,
             NEW l \in Direct(picture'.lines[i]), NEW m \in Direct(picture'.lines[j])
      PROVE  NotOver(l, m)
  BY <1>5, <1>7, <1>9
<1> QED
  BY <1>8, <1>9, Zenon DEF RoutesClear, NotOver

LEMMA ClearNext ==
  TreeInv /\ RouteInv /\ PictureInv /\ WaysInv /\ RoutesClear /\ [Next]_vars => RoutesClear'
<1> SUFFICES ASSUME TreeInv, RouteInv, PictureInv, WaysInv, RoutesClear, [Next]_vars PROVE RoutesClear'
  OBVIOUS
<1>1. CASE Draw
  BY <1>1, DrawClear
<1>2. CASE TakeFront \/ PickBest \/ Arrange \/ RouteEdge \/ Execute \/ Measure
  <2>1. step' # "done"
    BY <1>2 DEF TakeFront, PickBest, Arrange, RouteEdge, Measure, Execute, Open
  <2> QED
    BY <2>1 DEF RoutesClear
<1>3. CASE UNCHANGED layoutVars
  <2>1. step' = step /\ picture' = picture /\ Nodes' = Nodes
    BY <1>3 DEF layoutVars, tree, Nodes
  <2> QED
    BY <2>1 DEF RoutesClear
<1>4. CASE UNCHANGED vars
  BY <1>3, <1>4 DEF vars
<1> QED
  BY <1>1, <1>2, <1>3, <1>4 DEF Next, Layout, LayoutNext, BuildGraphs

(* In the picture of any graph, no edge is drawn through a node, and no two *)
(* edges on top of each other on their ways from lane to lane (routeEdge    *)
(* and precomputeEdgeCoordinates, with what the phases before them leave).  *)
THEOREM RoutesDrawnClear == Spec => []RoutesClear
<1>1. Init => PictureInv /\ WaysInv /\ RoutesClear
  BY DEF Init, LayoutInit, PictureInv, NodesApart, WaysInv, RoutesClear
<1> QED
  BY <1>1, RouteAlways, PictureNext, WaysNext, ClearNext, PTL DEF Spec
=============================================================================
