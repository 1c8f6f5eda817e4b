---------------------------- MODULE BlocksProofs ----------------------------
(***************************************************************************)
(* The block container keeps its promises for every segment: any number of *)
(* bytes, any assembler indexes, any sequence of marks.  The one condition *)
(* is that no caller marks a range of size zero.                           *)
(***************************************************************************)
EXTENDS Blocks, Lemmas

(* The inductive invariant: the container tiles the segment, which is what  *)
(* mark relies on when it looks for the blocks at the two ends of a range.  *)
IInv == Tiles(blocks, Base, Limit) /\ TypeOK

LEMMA SegmentFacts ==
  /\ Base \in Nat /\ Limit \in Nat /\ Base < Limit /\ 0 \in Infos /\ Infos \subseteq Nat
BY SegmentAssumption, InfosAssumption

LEMMA TypeFromTiles ==
  ASSUME NEW S, Tiles(S, Base, Limit), \A b \in S : b.info \in Infos
  PROVE  S \subseteq [start : Base .. Limit, end : Base .. Limit,
                      type : BlockTypes, info : Infos]
<1> SUFFICES ASSUME NEW b \in S
             PROVE  b \in [start : Base .. Limit, end : Base .. Limit,
                           type : BlockTypes, info : Infos]
  OBVIOUS
<1>1. b \in Block /\ b.start < b.end /\ Base <= b.start /\ b.end <= Limit
  BY DEF Tiles, Sound, Within
<1>2. b.start \in Base .. Limit /\ b.end \in Base .. Limit
  BY <1>1, SegmentFacts DEF Block
<1>. QED BY <1>1, <1>2 DEF Block

LEMMA PartitionFromTiles == Tiles(blocks, Base, Limit) => Partition
BY DEF Tiles, Sound, Covers, Apart, Partition, NoEmptyBlock, Disjoint, Covered,
       Addrs, Empty, Block

(* A new segment is one Unknown block.                                      *)
LEMMA InitResult ==
  ASSUME Init
  PROVE  IInv /\ \A a \in Addrs : Holds(blocks, a, "Unknown", 0)
<1> DEFINE new == NewBlock(Base, Limit, "Unknown", 0)
<1>1. blocks = DoInsert({}, new)
  <2>1. \A a : Get({}, a) = {}
    BY DEF Get
  <2>2. {Leftover(x, x.start, Base) : x \in {}} = {}
        /\ {Leftover(y, Limit, y.end) : y \in {}} = {}
    OBVIOUS
  <2>3. Demoted({}) = {}
    BY DEF Demoted
  <2>4. {} \ Erased({}, {}, {}) = {}
    OBVIOUS
  <2>5. DoInsertAll({}, {}) = {}
    BY DEF DoInsertAll
  <2>. QED BY <2>1, <2>2, <2>3, <2>4, <2>5 DEF Init, Mark
<1>2. /\ new \in Block /\ new.start = Base /\ new.end = Limit
      /\ new.type = "Unknown" /\ new.info = 0
  BY SegmentFacts DEF NewBlock, Block, BlockTypes
<1> HIDE DEF new
<1>3. Sound({}) /\ Within({}, Base, Limit) /\ \A n \in {} : Apart(n, new)
  BY DEF Sound, Within
<1>4. /\ Sound(blocks) /\ Within(blocks, Base, Limit)
      /\ \A n \in blocks : n.info = 0
      /\ \A a \in Nat : Contains(new, a) => Holds(blocks, a, "Unknown", 0)
  BY <1>1, <1>2, <1>3, SegmentFacts, DoInsertResult
<1>5. \A a \in Addrs : Holds(blocks, a, "Unknown", 0)
  BY <1>2, <1>4, SegmentFacts DEF Addrs, Contains
<1>6. Covers(blocks, Base, Limit)
  BY <1>5 DEF Addrs, Covers, Holds
<1>7. Tiles(blocks, Base, Limit)
  BY <1>4, <1>6 DEF Tiles
<1>. QED BY <1>4, <1>5, <1>7, SegmentFacts, TypeFromTiles DEF IInv, TypeOK

(* Every operation keeps the invariant and has the outcome of a mark.       *)
LEMMA StepResult ==
  ASSUME IInv, Next, MinSize = 1
  PROVE  /\ IInv'
         /\ \E s, e \in Base .. Limit :
               s < e /\ Outcome(blocks, blocks', Base, Limit, s, e)
<1> USE SegmentFacts
<1>1. /\ Tiles(blocks, Base, Limit) /\ \A b \in blocks : b.info \in Infos
  BY DEF IInv, TypeOK
<1>2. ASSUME NEW a \in Addrs, NEW n \in 1 .. Limit - Base, InBounds(a, n),
             NEW t \in BlockTypes, NEW i \in Infos,
             blocks' = Mark(blocks, a, a + n, t, i)
      PROVE  /\ IInv'
             /\ \E s, e \in Base .. Limit :
                   s < e /\ Outcome(blocks, blocks', Base, Limit, s, e)
  <2>1. /\ a \in Nat /\ a + n \in Nat /\ Base <= a /\ a < a + n /\ a + n <= Limit /\ i \in Nat
    BY <1>2 DEF Addrs, InBounds
  <2>2. /\ Marked(blocks, blocks', Base, Limit, a, a + n, t, i)
        /\ Outcome(blocks, blocks', Base, Limit, a, a + n)
    BY <1>1, <1>2, <2>1, MarkResult, MarkOutcome
  <2>3. Tiles(blocks', Base, Limit)
    BY <2>2 DEF Marked
  <2>4. \A b \in blocks' : b.info \in Infos
    BY <2>2, <1>1 DEF Marked
  <2>5. a \in Base .. Limit /\ a + n \in Base .. Limit
    BY <2>1
  <2>. QED BY <2>1, <2>2, <2>3, <2>4, <2>5, TypeFromTiles DEF IInv, TypeOK
<1>3. ASSUME NEW a \in Addrs, NEW i \in Infos, SetAddressAssembler(a, i)
      PROVE  /\ IInv'
             /\ \E s, e \in Base .. Limit :
                   s < e /\ Outcome(blocks, blocks', Base, Limit, s, e)
  <2>1. blocks' = MarkInfo(blocks, a, "Unknown", i) /\ a \in Base .. Limit - 1 /\ i \in Nat
    BY <1>3 DEF SetAddressAssembler, Addrs
  <2>2. /\ Tiles(blocks', Base, Limit)
        /\ \E e \in a + 1 .. Limit : Outcome(blocks, blocks', Base, Limit, a, e)
        /\ \A n \in blocks' : n.info \in {0, i} \/ \E k \in blocks : n.info = k.info
    BY <1>1, <2>1, MarkInfoOutcome DEF BlockTypes
  <2>3. PICK e \in a + 1 .. Limit : Outcome(blocks, blocks', Base, Limit, a, e)
    BY <2>2
  <2>4. a \in Base .. Limit /\ e \in Base .. Limit /\ a < e
    BY <2>1
  <2>5. \A b \in blocks' : b.info \in Infos
    BY <1>1, <1>3, <2>2
  <2>. QED BY <2>2, <2>3, <2>4, <2>5, TypeFromTiles DEF IInv, TypeOK
<1>4. PICK a \in Addrs :
        \/ \E n \in MinSize .. Limit - Base :
              \/ MarkUnknown(a, n) \/ MarkData(a, n) \/ MarkString(a, n)
              \/ \E i \in Infos : MarkCode(a, n, i)
        \/ \E i \in Infos \ {0} : SetAddressAssembler(a, i)
  BY DEF Next
<1>5. CASE \E i \in Infos \ {0} : SetAddressAssembler(a, i)
  BY <1>3, <1>5
<1>6. CASE \E n \in 1 .. Limit - Base :
             \/ MarkUnknown(a, n) \/ MarkData(a, n) \/ MarkString(a, n)
             \/ \E i \in Infos : MarkCode(a, n, i)
  <2>1. PICK n \in 1 .. Limit - Base :
             \/ MarkUnknown(a, n) \/ MarkData(a, n) \/ MarkString(a, n)
             \/ \E i \in Infos : MarkCode(a, n, i)
    BY <1>6
  <2>2. InBounds(a, n) /\ \E t \in BlockTypes, i \in Infos :
                             blocks' = Mark(blocks, a, a + n, t, i)
    BY <2>1 DEF MarkUnknown, MarkData, MarkString, MarkCode, BlockTypes
  <2>. QED BY <1>2, <2>2
<1>. QED BY <1>4, <1>5, <1>6

(* The container stays a tiling of the segment.                             *)
THEOREM Invariance == ASSUME MinSize = 1 PROVE Spec => []IInv
<1>1. Init => IInv
  BY InitResult
<1>2. IInv /\ [Next]_blocks => IInv'
  <2>1. IInv /\ Next => IInv'
    BY StepResult
  <2>2. IInv /\ UNCHANGED blocks => IInv'
    BY DEF IInv, TypeOK
  <2>. QED BY <2>1, <2>2
<1>. QED BY <1>1, <1>2, PTL DEF Spec

(* Every block lies in the segment and has a known type and info.           *)
THEOREM TypeCorrect == ASSUME MinSize = 1 PROVE Spec => []TypeOK
<1>1. IInv => TypeOK
  BY DEF IInv
<1>. QED BY <1>1, Invariance, PTL

(* The blocks partition the segment: no block is empty, no two overlap and  *)
(* every byte is in one, whatever the marks of AddressSpace were.           *)
THEOREM PartitionHolds == ASSUME MinSize = 1 PROVE Spec => []Partition
<1>1. IInv => Partition
  BY PartitionFromTiles DEF IInv
<1>. QED BY <1>1, Invariance, PTL

(* A mark makes no item but the one of its range.                           *)
LEMMA MarkItems ==
  ASSUME IInv, NEW a \in Addrs, NEW n \in 1 .. Limit - Base, InBounds(a, n),
         NEW t \in BlockTypes, NEW i \in Infos, blocks' = Mark(blocks, a, a + n, t, i),
         NEW b \in NewItems
  PROVE  b.type = t /\ b.info = i /\ b.start = a /\ Size(b) = n
<1>1. Tiles(blocks, Base, Limit)
  BY DEF IInv
<1>2. a \in Nat /\ a + n \in Nat /\ Base <= a /\ a < a + n /\ a + n <= Limit /\ i \in Nat
  BY SegmentFacts DEF Addrs, InBounds
<1>3. Marked(blocks, blocks', Base, Limit, a, a + n, t, i)
  BY <1>1, <1>2, SegmentFacts, MarkResult
<1>4. b.type = t /\ b.info = i /\ b.start = a /\ b.end = a + n
  BY <1>3 DEF Marked, NewItems
<1>. QED BY <1>2, <1>4 DEF Size

(* setAddressAssembler makes no item but what it leaves of the block that   *)
(* holds the address.                                                       *)
LEMMA MarkInfoItems ==
  ASSUME IInv, NEW a \in Addrs, NEW i \in Infos,
         blocks' = MarkInfo(blocks, a, "Unknown", i), NEW b \in NewItems
  PROVE  \E c \in blocks : Contains(c, a) /\ b = FirstPart(c, a, i)
<1>1. Tiles(blocks, Base, Limit) /\ a \in Nat /\ Base <= a /\ a < Limit /\ i \in Nat
  BY SegmentFacts DEF IInv, Addrs
<1>2. PICK c \in blocks : Contains(c, a)
  BY <1>1 DEF Tiles, Covers, Addrs
<1>3. /\ c \in Block /\ c.start \in Nat /\ c.end \in Nat /\ c.type \in BlockTypes
      /\ c.info \in Nat /\ Base <= c.start /\ c.start <= a /\ a < c.end /\ c.end <= Limit
  BY <1>1, <1>2 DEF Tiles, Sound, Within, Block, Contains
<1>4. Get(blocks, a) = {c} /\ (CHOOSE x \in {c} : TRUE) = c
  <2>1. {x \in blocks : Contains(x, a)} = {c}
    BY <1>1, <1>2, HoldsOne DEF Tiles
  <2>. QED BY <2>1 DEF Get
<1>5. CASE a = c.start
  <2>1. blocks' = Mark(blocks, a, c.end, c.type, i)
    BY <1>3, <1>4, <1>5 DEF MarkInfo
  <2>2. Marked(blocks, blocks', Base, Limit, a, c.end, c.type, i)
    BY <1>1, <1>3, <1>5, <2>1, SegmentFacts, MarkResult
  <2>3. b \in Block /\ b.type = c.type /\ b.info = i /\ b.start = a /\ b.end = c.end
    BY <2>2 DEF Marked, NewItems, Tiles, Sound
  <2>4. b = [c EXCEPT !.info = i]
    BY <1>3, <1>5, <2>3 DEF Block
  <2>. QED BY <1>2, <1>5, <2>4 DEF FirstPart
<1>6. CASE a > c.start
  <2> DEFINE M == Mark(blocks, c.start, a, c.type, c.info)
  <2>1. blocks' = Mark(M, a, c.end, "Unknown", i)
    BY <1>4, <1>6 DEF MarkInfo
  <2>2. Marked(blocks, M, Base, Limit, c.start, a, c.type, c.info)
    BY <1>1, <1>3, <1>6, SegmentFacts, MarkResult
  <2> HIDE DEF M
  <2>3. Marked(M, blocks', Base, Limit, a, c.end, "Unknown", i)
    <3>1. Tiles(M, Base, Limit)
      BY <2>2 DEF Marked
    <3>2. "Unknown" \in BlockTypes
      BY DEF BlockTypes
    <3>3. Marked(M, Mark(M, a, c.end, "Unknown", i), Base, Limit, a, c.end, "Unknown", i)
      BY <1>1, <1>3, <3>1, <3>2, SegmentFacts, MarkResult
    <3>. QED BY <2>1, <3>3
  <2>4. b \in Block /\ b \in M
    BY <2>3 DEF Marked, NewItems, Tiles, Sound
  <2>5. b.type = c.type /\ b.info = c.info /\ b.start = c.start /\ b.end = a
    BY <2>2, <2>4 DEF Marked, NewItems
  <2>6. b = [c EXCEPT !.end = a]
    BY <1>3, <2>4, <2>5 DEF Block
  <2>7. a # c.start
    BY <1>1, <1>3, <1>6
  <2>8. b = FirstPart(c, a, i)
    BY <2>6, <2>7, Zenon DEF FirstPart
  <2>. QED BY <1>2, <2>8
<1>. QED BY <1>1, <1>3, <1>5, <1>6

(* A mark makes no item but the one it is asked for; setAddressAssembler    *)
(* none but the part it leaves of the block it splits or renames.           *)
THEOREM ItemsMarked == ASSUME MinSize = 1 PROVE Spec => ItemsAsMarked
<1> DEFINE AsMarked(b) ==
      \/ b.type = "Data" /\ MarkData(b.start, Size(b))
      \/ b.type = "String" /\ MarkString(b.start, Size(b))
      \/ b.type = "Code" /\ MarkCode(b.start, Size(b), b.info)
      \/ \E c \in blocks, i \in Infos \ {0} : \E a \in c.start .. c.end - 1 :
            SetAddressAssembler(a, i) /\ b = FirstPart(c, a, i)
<1>1. ASSUME IInv, Next, NEW b \in NewItems PROVE AsMarked(b)
  <2>0. b.type # "Unknown" /\ 0 \in Infos
    BY SegmentFacts DEF NewItems
  <2>1. PICK a \in Addrs :
          \/ \E n \in MinSize .. Limit - Base :
                \/ MarkUnknown(a, n) \/ MarkData(a, n) \/ MarkString(a, n)
                \/ \E i \in Infos : MarkCode(a, n, i)
          \/ \E i \in Infos \ {0} : SetAddressAssembler(a, i)
    BY <1>1 DEF Next
  <2>2. CASE \E i \in Infos \ {0} : SetAddressAssembler(a, i)
    <3>1. PICK i \in Infos \ {0} : SetAddressAssembler(a, i)
      BY <2>2
    <3>2. PICK c \in blocks : Contains(c, a) /\ b = FirstPart(c, a, i)
      BY <1>1, <3>1, MarkInfoItems DEF SetAddressAssembler
    <3>3. a \in c.start .. c.end - 1
      BY <1>1, <3>2, SegmentFacts DEF Contains, IInv, Tiles, Sound, Block, Addrs
    <3>. QED BY <3>1, <3>2, <3>3
  <2>3. CASE \E n \in MinSize .. Limit - Base :
                \/ MarkUnknown(a, n) \/ MarkData(a, n) \/ MarkString(a, n)
                \/ \E i \in Infos : MarkCode(a, n, i)
    <3>1. PICK n \in 1 .. Limit - Base :
             \/ MarkUnknown(a, n) \/ MarkData(a, n) \/ MarkString(a, n)
             \/ \E i \in Infos : MarkCode(a, n, i)
      BY <2>3
    <3>2. MarkUnknown(a, n) => b.type = "Unknown"
      BY <1>1, <2>0, MarkItems DEF MarkUnknown, BlockTypes
    <3>3. MarkData(a, n) => AsMarked(b)
      BY <1>1, <2>0, MarkItems DEF MarkData, BlockTypes
    <3>4. MarkString(a, n) => AsMarked(b)
      BY <1>1, <2>0, MarkItems DEF MarkString, BlockTypes
    <3>5. ASSUME NEW i \in Infos, MarkCode(a, n, i) PROVE AsMarked(b)
      BY <1>1, <3>5, MarkItems DEF MarkCode, BlockTypes
    <3>. QED BY <2>0, <3>1, <3>2, <3>3, <3>4, <3>5
  <2>. QED BY <2>1, <2>2, <2>3
<1>2. IInv /\ [Next]_blocks => [\A b \in NewItems : AsMarked(b)]_blocks
  BY <1>1
<1>. QED BY <1>2, Invariance, PTL DEF Spec, ItemsAsMarked

(* The byte map of a tiling.                                                *)
LEMMA ByteMapValue ==
  ASSUME NEW S, Tiles(S, Base, Limit), NEW a \in Addrs
  PROVE  /\ ByteMap(S)[a] \in BlockTypes \X Nat
         /\ \A t, i : Holds(S, a, t, i) <=> ByteMap(S)[a] = <<t, i>>
         /\ \A b \in S : Contains(b, a) => ByteMap(S)[a] = <<b.type, b.info>>
<1>1. PICK b \in S : Contains(b, a)
  BY DEF Tiles, Covers, Addrs
<1>2. Sound(S) /\ a \in Nat
  BY SegmentFacts DEF Tiles, Addrs
<1>3. \A c \in S : Contains(c, a) => c = b
  BY <1>1, <1>2, HoldsOne
<1>4. (CHOOSE x \in S : Contains(x, a)) = b
  BY <1>1, <1>3
<1>5. ByteMap(S)[a] = <<b.type, b.info>>
  BY <1>4 DEF ByteMap
<1>6. b.type \in BlockTypes /\ b.info \in Nat
  BY <1>2 DEF Sound, Block
<1>7. \A t, i : Holds(S, a, t, i) <=> b.type = t /\ b.info = i
  BY <1>1, <1>2, HoldsOne
<1>. QED BY <1>3, <1>5, <1>6, <1>7

(* The container implements the byte map: marking a range sets its bytes    *)
(* and forgets at most bytes of the runs at its two ends.                   *)
THEOREM Implementation == ASSUME MinSize = 1 PROVE Spec => MapSpec
<1>0. Map!Addrs = Addrs
  BY DEF Map!Addrs, Addrs
<1>1. Init => Map!Init
  <2> SUFFICES ASSUME Init PROVE Map!Init
    OBVIOUS
  <2>1. \A a \in Addrs : ByteMap(blocks)[a] = <<"Unknown", 0>>
    BY InitResult, ByteMapValue DEF IInv
  <2>. QED BY <2>1, <1>0 DEF Map!Init, Map!Forgotten, ByteMap
<1>2. ASSUME IInv, Next PROVE Map!Next
  <2> DEFINE f == ByteMap(blocks)
             g == ByteMap(blocks')
  <2>1. PICK s \in Base .. Limit, e \in Base .. Limit :
                s < e /\ Outcome(blocks, blocks', Base, Limit, s, e)
    BY <1>2, StepResult
  <2>2. Tiles(blocks, Base, Limit) /\ Tiles(blocks', Base, Limit)
    BY <1>2, StepResult DEF IInv
  <2>3. \A a \in Addrs :
          /\ \A t, i : Holds(blocks, a, t, i) <=> f[a] = <<t, i>>
          /\ \A b \in blocks : Contains(b, a) => f[a] = <<b.type, b.info>>
          /\ f[a] \in BlockTypes \X Nat
    BY <2>2, ByteMapValue
  <2>4. \A a \in Addrs :
          /\ g[a] \in BlockTypes \X Nat
          /\ \A t, i : Holds(blocks', a, t, i) <=> g[a] = <<t, i>>
    BY <2>2, ByteMapValue
  <2>5. g \in [Addrs -> BlockTypes \X Nat]
    <3>1. \A a \in Addrs : g[a] \in BlockTypes \X Nat
      BY <2>4
    <3> DEFINE h(a) == LET b == CHOOSE x \in blocks' : Contains(x, a)
                       IN  <<b.type, b.info>>
    <3>2. g = [a \in Addrs |-> h(a)]
      BY DEF ByteMap
    <3> HIDE DEF h, g
    <3>. QED BY <3>1, <3>2
  <2> HIDE DEF f, g
  <2>6. /\ s .. e - 1 \subseteq Addrs /\ s \in s .. e - 1 /\ e - 1 \in s .. e - 1
        /\ s \in Nat /\ e - 1 \in Nat /\ Addrs \subseteq Nat
    BY <2>1, SegmentFacts DEF Addrs
  <2>7. \A a \in s .. e - 1 : g[a] = g[s]
    <3>1. PICK t, i : \A a \in s .. e - 1 : Holds(blocks', a, t, i)
      BY <2>1 DEF Outcome
    <3>. QED BY <3>1, <2>4, <2>6
  (* All bytes of one block have one value, so those of a block that a mark *)
  (* cuts form a run with the boundary byte.                                *)
  <2>8. ASSUME NEW a \in Addrs, NEW c \in Addrs, NEW b \in blocks,
               Contains(b, a), Contains(b, c)
        PROVE  Map!SameRun(a, c)
    <3>1. \A y \in Addrs : (a <= y /\ y <= c) \/ (c <= y /\ y <= a) => Contains(b, y)
      <4>1. b.start \in Nat /\ b.end \in Nat
        BY <2>2 DEF Tiles, Sound, Block
      <4>. QED BY <2>8, <2>6, <4>1 DEF Contains
    <3>2. \A y \in Addrs : (a <= y /\ y <= c) \/ (c <= y /\ y <= a) => f[y] = f[a]
      BY <2>3, <2>8, <3>1
    <3>. QED BY <3>2, <1>0 DEF Map!SameRun, f
  <2>9. ASSUME NEW a \in Addrs \ (s .. e - 1)
        PROVE  \/ g[a] = f[a]
               \/ /\ g[a] = <<"Unknown", 0>>
                  /\ a < s => Map!SameRun(a, s)
                  /\ a >= e => Map!SameRun(a, e - 1)
    <3>1. \/ \A u, j : Holds(blocks, a, u, j) => Holds(blocks', a, u, j)
          \/ /\ Holds(blocks', a, "Unknown", 0)
             /\ a < s => \E x \in blocks : Contains(x, a) /\ Contains(x, s)
             /\ a >= e => \E y \in blocks : Contains(y, a) /\ Contains(y, e - 1)
      BY <2>1 DEF Outcome, Addrs
    <3>2. CASE \A u, j : Holds(blocks, a, u, j) => Holds(blocks', a, u, j)
      <4>1. PICK u \in BlockTypes, j \in Nat : f[a] = <<u, j>>
        BY <2>3
      <4>2. g[a] = <<u, j>>
        BY <2>3, <2>4, <3>2, <4>1
      <4>. QED BY <4>1, <4>2
    <3>3. CASE /\ Holds(blocks', a, "Unknown", 0)
               /\ a < s => \E x \in blocks : Contains(x, a) /\ Contains(x, s)
               /\ a >= e => \E y \in blocks : Contains(y, a) /\ Contains(y, e - 1)
      <4>1. g[a] = <<"Unknown", 0>>
        BY <2>4, <3>3
      <4>. QED BY <4>1, <3>3, <2>6, <2>8
    <3>. QED BY <3>1, <3>2, <3>3
  <2>10. Map!Paint(s, e, g[s])
    BY <2>5, <2>7, <2>9, <1>0
       DEF Map!Paint, Map!Value, Map!BlockTypes, Map!Forgotten, BlockTypes, f, g
  <2>. QED BY <2>1, <2>10 DEF Map!Next, g
<1>3. IInv /\ [Next]_blocks => [Map!Next]_(ByteMap(blocks))
  <2>1. UNCHANGED blocks => UNCHANGED ByteMap(blocks)
    BY DEF ByteMap
  <2>. QED BY <1>2, <2>1
<1>. QED BY <1>1, <1>3, Invariance, PTL DEF Spec, MapSpec, Map!Spec
=============================================================================
