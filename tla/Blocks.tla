------------------------------- MODULE Blocks -------------------------------
(***************************************************************************)
(* The BlockContainer of one segment, driven by the mark operations of     *)
(* AddressSpace (rdcore/document/model/addressspace.cpp).  Sizes are those *)
(* the callers compute from types, pointers, strings and decoded           *)
(* instructions; the ranges stay inside the segment.                       *)
(***************************************************************************)
EXTENDS Integers, FiniteSets, BlockOps

CONSTANTS
  Base,      (* first address of the segment                               *)
  Limit,     (* address after the last one of the segment                  *)
  Infos,     (* values of the 16-bit info field: 0 and assembler indexes   *)
  MinSize    (* smallest size a caller of markData passes                  *)

(* A segment has at least one byte (Document::setSegment refuses an empty   *)
(* one) and does not start at address 0, where end - 1 would wrap around.   *)
ASSUME SegmentAssumption ==
  /\ Base \in Nat \ {0}
  /\ Limit \in Nat
  /\ Base < Limit

ASSUME InfosAssumption == Infos \subseteq Nat /\ 0 \in Infos

ASSUME MinSizeAssumption == MinSize \in {0, 1}

VARIABLE blocks  (* BlockContainer::m_container *)

Addrs == Base .. Limit - 1

(* AddressSpace::insert marks the whole new segment Unknown. *)
Init == blocks = Mark({}, Base, Limit, "Unknown", 0)

(* AddressSpace::findBlocks *)
Found(a) == \E b \in blocks : Contains(b, a)

InBounds(a, n) == a + n <= Limit

MarkUnknown(a, n) ==
  /\ Found(a) /\ InBounds(a, n) /\ n > 0
  /\ blocks' = Mark(blocks, a, a + n, "Unknown", 0)

MarkData(a, n) ==
  /\ Found(a) /\ InBounds(a, n)
  /\ blocks' = Mark(blocks, a, a + n, "Data", 0)

(* Document::setString refuses a size of zero. *)
MarkString(a, n) ==
  /\ Found(a) /\ InBounds(a, n) /\ n > 0
  /\ blocks' = Mark(blocks, a, a + n, "String", 0)

(* Algorithm::decode refuses an instruction of size zero and one that does  *)
(* not fit the rest of the segment.                                         *)
MarkCode(a, n, i) ==
  /\ Found(a) /\ InBounds(a, n) /\ n > 0
  /\ blocks' = Mark(blocks, a, a + n, "Code", i)

(* Document::setAddressAssembler: the index pushed for a name is not 0.     *)
SetAddressAssembler(a, i) ==
  /\ Found(a)
  /\ blocks' = MarkInfo(blocks, a, "Unknown", i)

Next ==
  \E a \in Addrs :
    \/ \E n \in MinSize .. Limit - Base :
          \/ MarkUnknown(a, n)
          \/ MarkData(a, n)
          \/ MarkString(a, n)
          \/ \E i \in Infos : MarkCode(a, n, i)
    \/ \E i \in Infos \ {0} : SetAddressAssembler(a, i)

Spec == Init /\ [][Next]_blocks
-----------------------------------------------------------------------------
(* Every block is a block of the segment with a known type and info. *)
TypeOK == blocks \subseteq [start : Base .. Limit, end : Base .. Limit,
                            type : BlockTypes, info : Infos]

(* No block is empty: "Trying to insert an empty block" is an error of      *)
(* BlockContainer::mark.                                                    *)
NoEmptyBlock == \A b \in blocks : ~Empty(b)

(* The blocks partition the segment: each byte is in exactly one block.     *)
(* The renderer, the block iterators and getBlockView read the container    *)
(* as such a list of adjacent blocks; an insertion that met an overlap      *)
(* would be dropped in silence and leave a hole.                            *)
Disjoint == \A b, c \in blocks : b # c => Before(b, c) \/ Before(c, b)

Covered == \A a \in Addrs : \E b \in blocks : Contains(b, a)

Partition == NoEmptyBlock /\ Disjoint /\ Covered

NewItems == {b \in blocks' \ blocks : b.type # "Unknown"}

Size(b) == b.end - b.start

FirstPart(b, a, i) == IF a = b.start THEN [b EXCEPT !.info = i] ELSE [b EXCEPT !.end = a]

(* A mark makes no item but the one it is asked for, with its exact bounds: *)
(* what is left of the items it cuts becomes Unknown and is no shorter      *)
(* instruction, string or datum.  Only setAddressAssembler leaves a shorter *)
(* item: when it splits a block, the part before the address keeps its type *)
(* and info (BlockContainer::info).                                         *)
ItemsAsMarked ==
  [][\A b \in NewItems :
       \/ b.type = "Data" /\ MarkData(b.start, Size(b))
       \/ b.type = "String" /\ MarkString(b.start, Size(b))
       \/ b.type = "Code" /\ MarkCode(b.start, Size(b), b.info)
       \/ \E c \in blocks, i \in Infos \ {0} : \E a \in c.start .. c.end - 1 :
             SetAddressAssembler(a, i) /\ b = FirstPart(c, a, i)]_blocks

ByteMap(S) == [a \in Addrs |-> LET b == CHOOSE x \in S : Contains(x, a)
                               IN  <<b.type, b.info>>]

Map == INSTANCE BlockMap WITH map <- ByteMap(blocks)

(* The container implements the byte map: a mark gives its range one value  *)
(* and forgets at most the runs of equal bytes that the range cuts, however *)
(* the blocks happen to be split and merged.                                *)
MapSpec == Map!Spec
=============================================================================
