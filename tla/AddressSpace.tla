---------------------------- MODULE AddressSpace ----------------------------
(***************************************************************************)
(* The segments a loader makes (Document::setSegment,                      *)
(* rdcore/document/model/addressspace.cpp) and what is read through them:  *)
(* a set S of segments with different addresses, and the bytes of the file *)
(* that the context has loaded.                                            *)
(*                                                                         *)
(* A segment's buffer is filled when it is inserted and not written later, *)
(* so it is a function of the segment and of the file.  The blocks that    *)
(* are made with it are the state of Blocks and Locations.  No segment     *)
(* reaches the end of the 64 bits of an address.                           *)
(***************************************************************************)
EXTENDS Integers

AtMost(m, n) == IF m < n THEN m ELSE n
AtLeast(m, n) == IF m < n THEN n ELSE m

SegmentFlags == {"PureCode", "CodeAndData", "Data", "Bss"}

Segment ==
  [address : Nat, endaddress : Nat, offset : Nat, endoffset : Nat, flags : SegmentFlags]

AddressSize(s) == AtLeast(0, s.endaddress - s.address)

OffsetSize(s) == IF s.flags = "Bss" THEN 0 ELSE AtLeast(0, s.endoffset - s.offset)

ContainsAddress(s, a) == s.address <= a /\ a < s.endaddress

ContainsOffset(s, o) == s.flags # "Bss" /\ s.offset <= o /\ o < s.endoffset
-----------------------------------------------------------------------------
(* Look-ups go through the segments by their addresses, to the first hit.   *)
Foremost(S) == CHOOSE s \in S : \A t \in S : s.address <= t.address

AtAddress(S, a) == {s \in S : ContainsAddress(s, a)}

AtOffset(S, o) == {s \in S : ContainsOffset(s, o)}

(* An RDLocation is the set of its value, empty when it is not valid.       *)
Offset(S, a) ==
  LET s == Foremost(AtAddress(S, a))
      o == a - s.address + s.offset
  IN  IF AtAddress(S, a) # {} /\ s.flags # "Bss" /\ o < s.endoffset THEN {o} ELSE {}

Address(S, o) ==
  LET s == Foremost(AtOffset(S, o))
      a == o - s.offset + s.address
  IN  IF AtOffset(S, o) # {} /\ a < s.endaddress THEN {a} ELSE {}
-----------------------------------------------------------------------------
(* insert: only the first and the last address of s are looked up.          *)
InsertSegment(S, s) ==
  IF AtAddress(S, s.address) # {} \/ AtAddress(S, s.endaddress - 1) # {} THEN S
  ELSE S \cup {s}

(* What setSegment makes of its arguments, in a file of a number of bytes.  *)
NewSegment(bytes, offset, address, psize, vsize, flags) ==
  [address |-> address, endaddress |-> address + vsize,
   offset |-> IF flags = "Bss" THEN 0 ELSE offset,
   endoffset |-> IF flags = "Bss" THEN 0 ELSE AtMost(offset + psize, bytes),
   flags |-> flags]

SetSegment(S, bytes, offset, address, psize, vsize, flags) ==
  IF (flags # "Bss" /\ psize = 0) \/ vsize = 0 THEN S
  ELSE InsertSegment(S, NewSegment(bytes, offset, address, psize, vsize, flags))
-----------------------------------------------------------------------------
BufferSize(s) == AtLeast(OffsetSize(s), AddressSize(s))

(* The byte of s's buffer at an index: copied from the file, or 0.          *)
ByteAt(s, file, i) == IF i < OffsetSize(s) THEN file[s.offset + i + 1] ELSE 0

(* A pointer into the buffer of s, or none; a view is one with a size.      *)
Pointer(s, i) == [of |-> s, index |-> i]

(* addressof, of a pointer into a buffer of S: the distance from the start  *)
(* of the buffer of the segment found at its segment's address, which may   *)
(* be any number when that is another one.                                  *)
AddressOf(S, p) ==
  LET s == Foremost(AtAddress(S, p.of.address))
  IN  IF s = p.of THEN {s.address + p.index} ELSE Nat

AddrPointers(S, a) ==
  LET s == Foremost(AtAddress(S, a))
  IN  IF AtAddress(S, a) = {} \/ a - s.address >= BufferSize(s) THEN {}
      ELSE {Pointer(s, a - s.address)}

OffsPointers(S, o) ==
  LET s == Foremost(AtOffset(S, o))
  IN  IF AtOffset(S, o) = {} \/ o - s.offset >= BufferSize(s) THEN {}
      ELSE {Pointer(s, o - s.offset)}

(* A view of n bytes is cut at the end of the buffer; an empty one is none. *)
OffsetToViews(S, o, n) ==
  LET s == Foremost(AtOffset(S, o))
      size == AtMost(n, BufferSize(s) - (o - s.offset))
  IN  IF AtOffset(S, o) = {} \/ size = 0 THEN {}
      ELSE {[start |-> Pointer(s, o - s.offset), size |-> size]}

(* addressToView: the file has the last word on where the bytes are.        *)
AddressToViews(S, a, n) ==
  UNION {OffsetToViews(S, o, n) : o \in Offset(S, a)}
-----------------------------------------------------------------------------
Disjoint(S) ==
  \A s, t \in S : s = t \/ s.endaddress <= t.address \/ t.endaddress <= s.address

(* No byte of the file is in two segments. *)
DisjointInFile(S) ==
  \A s, t \in S :
    \/ s = t \/ OffsetSize(s) = 0 \/ OffsetSize(t) = 0
    \/ s.endoffset <= t.offset \/ t.endoffset <= s.offset

(* What insert does not see: a segment inside the new one, at none of its   *)
(* ends.                                                                    *)
Encloses(s, t) == s.address < t.address /\ t.endaddress < s.endaddress

(* Nothing setSegment makes is without addresses.                           *)
Inhabited(S) == S \subseteq Segment /\ \A s \in S : s.address < s.endaddress

(* The byte at a, read through a pointer or a view, is the one of the file  *)
(* at a's offset, whatever overlaps: a view may lead into the buffer of     *)
(* another segment of the same bytes, and says the same there.              *)
BytesAgree(S, file, a, n) ==
  LET byte(p) == ByteAt(p.of, file, p.index)
  IN  \A o \in Offset(S, a) :
        /\ \A p \in AddrPointers(S, a) : byte(p) = file[o + 1]
        /\ \A p \in OffsPointers(S, o) : byte(p) = file[o + 1]
        /\ \A v \in AddressToViews(S, a, n) :
             /\ v.size \in 1 .. n /\ v.start.index + v.size <= BufferSize(v.start.of)
             /\ byte(v.start) = file[o + 1]

(* An address that is in the file is found again from its offset and from   *)
(* the start of a view of it: the scan for strings goes on from there.      *)
FoundAgain(S, a, n) ==
  \A o \in Offset(S, a) :
    /\ Address(S, o) = {a}
    /\ \A v \in AddressToViews(S, a, n) : AddressOf(S, v.start) = {a}
=============================================================================
