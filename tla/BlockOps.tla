------------------------------ MODULE BlockOps ------------------------------
(***************************************************************************)
(* The operators of BlockContainer (rdcore/document/model/blockcontainer), *)
(* the ordered set of half-open blocks [start, end) that says what is      *)
(* known of every byte of a segment.  A container is a set of blocks; an   *)
(* iterator is a set with the block it points to, or {} for end().         *)
(*                                                                         *)
(* CanMergeAnyInfo, KeptType and AnySize are faulty variants of the        *)
(* operator that follows each of them; nothing uses them here.             *)
(***************************************************************************)
EXTENDS Integers

BlockTypes == {"Unknown", "Data", "String", "Code"}

Block == [start : Nat, end : Nat, type : BlockTypes, info : Nat]

NewBlock(s, e, t, i) == [start |-> s, end |-> e, type |-> t, info |-> i]

Contains(b, a) == b.start <= a /\ a < b.end

Empty(b) == b.start >= b.end

(* BlockSorter: the order of the container.  Blocks that overlap are        *)
(* equivalent, so inserting one that overlaps another changes nothing.      *)
Before(b1, b2) == b1.end <= b2.start

Insert(S, b) ==
  IF \E n \in S : ~Before(n, b) /\ ~Before(b, n) THEN S ELSE S \cup {b}

CanMergeAnyInfo(b1, b2) == b1.type = "Unknown" /\ b1.type = b2.type

CanMerge(b1, b2) ==
  b1.type = "Unknown" /\ b1.type = b2.type /\ b1.info = b2.info

(* doInsert: while the block found at the end of b can be merged with it,   *)
(* b swallows that block and the search goes on from its end.  The          *)
(* recursion stops at the first address, from the end of b on, that no      *)
(* mergeable block contains.                                                *)
FreeEnds(S, b) ==
  {e \in {b.end} \cup {n.end : n \in S} :
     e >= b.end /\ \A n \in S : CanMerge(n, b) => ~Contains(n, e)}

MergeEnd(S, b) == CHOOSE e \in FreeEnds(S, b) : \A f \in FreeEnds(S, b) : e <= f

Swallowed(S, b) ==
  {n \in S : CanMerge(n, b) /\ b.end < n.end /\ n.start < MergeEnd(S, b)}

DoInsert(S, b) ==
  Insert(S \ Swallowed(S, b), [b EXCEPT !.end = MergeEnd(S, b)])

DoInsertAll(S, B) == IF B = {} THEN S ELSE DoInsert(S, CHOOSE b \in B : TRUE)

(* get: lower_bound, then backwards until a block contains the address; the *)
(* walk gives up at the first block and returns it.                         *)
First(S) == CHOOSE b \in S : \A c \in S \ {b} : Before(b, c)

Get(S, a) ==
  LET hit == {b \in S : Contains(b, a)}
  IN  IF hit # {} THEN hit
      ELSE IF \E b \in S : b.end > a THEN {First(S)} ELSE {}

(* mark: the blocks from the one at s to the one at e - 1 are erased, what  *)
(* is left of those two outside [s, e) is demoted to Unknown, and the new   *)
(* block is inserted, joined with the leftovers it can merge with.          *)
Erased(S, beg, fin) ==
  IF beg # {} /\ fin # {}
  THEN {b \in S : /\ \E x \in beg : b = x \/ Before(x, b)
                  /\ \E y \in fin : b = y \/ Before(b, y)}
  ELSE beg \cup fin

KeptType(b, s, e) == NewBlock(s, e, b.type, b.info)

Leftover(b, s, e) == NewBlock(s, e, "Unknown", 0)

AnySize(B) == B

Demoted(B) == {b \in B : ~Empty(b)}

Mark(S, s, e, t, i) ==
  LET beg   == Get(S, s)
      fin   == Get(S, e - 1)
      left  == Demoted({Leftover(x, x.start, s) : x \in beg})
      right == Demoted({Leftover(y, e, y.end) : y \in fin})
      joins == CanMerge(NewBlock(s, e, "Unknown", 0), NewBlock(s, e, t, i))
      new   == NewBlock(IF joins /\ left # {} THEN (CHOOSE l \in left : TRUE).start ELSE s,
                        IF joins /\ right # {} THEN (CHOOSE r \in right : TRUE).end ELSE e,
                        t, i)
      S0    == S \ Erased(S, beg, fin)
      S1    == IF joins THEN S0 ELSE DoInsertAll(S0, left)
      S2    == IF joins THEN S1 ELSE DoInsertAll(S1, right)
  IN  DoInsert(S2, new)

(* info: the block at a gets the new info; when a is inside the block, the  *)
(* block is split and only its second part gets the type and the info.      *)
MarkInfo(S, a, t, i) ==
  LET b == CHOOSE x \in Get(S, a) : TRUE
  IN  IF Get(S, a) = {} THEN S
      ELSE IF a > b.start
           THEN Mark(Mark(S, b.start, a, b.type, b.info), a, b.end, t, i)
           ELSE IF a = b.start THEN Mark(S, b.start, b.end, b.type, i) ELSE S
=============================================================================
