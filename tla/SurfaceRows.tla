----------------------------- MODULE SurfaceRows -----------------------------
(***************************************************************************)
(* What a surface reads of a document and the rows it makes of it:         *)
(* SurfaceRenderer (rdcore/surface/surfacerenderer), the BlocksIterator    *)
(* that it scrolls with, and the branches between rows that SurfacePath    *)
(* draws.                                                                  *)
(*                                                                         *)
(* A document is a record of its segments, in the order of their           *)
(* addresses, with the blocks of each, its entry, and its links.  Columns  *)
(* and the text of a line are left out: a row is the address it stands     *)
(* for and what is written there.  Rows count from 1, and 0 is the code's  *)
(* row -1.                                                                 *)
(*                                                                         *)
(* StaysWithin and AlwaysFirst are faulty variants of the operator that    *)
(* follows each of them; nothing uses them here.                           *)
(***************************************************************************)
EXTENDS Integers, Sequences, SequencesExt

None == 0 (* RD_NVAL, and an entry that is not valid *)

Least(S) == CHOOSE a \in S : \A b \in S : a <= b
Greatest(S) == CHOOSE a \in S : \A b \in S : b <= a
Smaller(a, b) == IF a < b THEN a ELSE b
-----------------------------------------------------------------------------
(* A segment: the addresses first .. last - 1, all of them in a block.  A   *)
(* block: where it starts, its type, the flags of that address, and whether *)
(* it is the tail of a basic block.                                         *)
InSegment(s, a) == s.first <= a /\ a < s.last

(* addressToSegment, indexOfSegment *)
SegmentOf(d, a) ==
  LET S == {i \in DOMAIN d.segments : InSegment(d.segments[i], a)}
  IN  IF S = {} THEN None ELSE Least(S)

FirstAddress(d) == d.segments[1].first
LastAddress(d) == d.segments[Len(d.segments)].last

(* BlockContainer::find and lowerBound: the block that holds the address.   *)
BlockIndex(s, a) == Greatest({i \in DOMAIN s.blocks : s.blocks[i].at <= a})

BlockAt(d, a) ==
  LET s == d.segments[SegmentOf(d, a)] IN s.blocks[BlockIndex(s, a)]

FlagsOf(d, a) ==
  IF SegmentOf(d, a) # None /\ BlockAt(d, a).at = a THEN BlockAt(d, a).flags ELSE {}

(* What AddressSpace keeps: segments one after the other, each of them      *)
(* parted into blocks that follow each other from its first address on.     *)
BlockTypes == {"Code", "Data", "String", "Unknown"}
Blocks == [at : Nat, type : BlockTypes, flags : SUBSET STRING, tail : BOOLEAN]
Segments == [first : Nat \ {None}, last : Nat, blocks : Seq(Blocks) \ {<<>>}]

IsDocument(d) ==
  /\ d.segments \in Seq(Segments) \ {<<>>}
  /\ \A i, j \in DOMAIN d.segments : i < j => d.segments[i].last <= d.segments[j].first
  /\ \A i \in DOMAIN d.segments :
       LET s == d.segments[i]
       IN  /\ s.blocks[1].at = s.first
           /\ \A k \in DOMAIN s.blocks : s.blocks[k].at < s.last
           /\ \A k, l \in DOMAIN s.blocks : k < l => s.blocks[k].at < s.blocks[l].at
  /\ d.entry \in Nat /\ (d.entry # None => SegmentOf(d, d.entry) # None)
  /\ d.jumps \cup d.calls \subseteq Nat \X Nat

SameSegments(d, e) ==
  /\ DOMAIN d.segments = DOMAIN e.segments
  /\ \A i \in DOMAIN d.segments : /\ d.segments[i].first = e.segments[i].first
                                  /\ d.segments[i].last = e.segments[i].last

(* next() and prev() of a BlocksIterator at the block that starts at a:     *)
(* from the end of a segment to its neighbour, and nowhere from the ends.   *)
Step(d, a, dir) ==
  LET i == SegmentOf(d, a)
      k == BlockIndex(d.segments[i], a) + dir
  IN  IF k \in DOMAIN d.segments[i].blocks THEN d.segments[i].blocks[k].at
      ELSE IF i + dir \notin DOMAIN d.segments THEN a
      ELSE LET B == d.segments[i + dir].blocks IN IF dir > 0 THEN B[1].at ELSE Last(B).at

(* scrollAddress: n blocks on, or as far as there are any.                  *)
StaysWithin(d, a, n) ==
  IF a + n < FirstAddress(d) THEN FirstAddress(d) ELSE Smaller(a + n, LastAddress(d))

Scrolled(d, a, n) ==
  LET blocks == IF n > 0 THEN n ELSE -n
      go[i \in 0 .. blocks] ==
        IF i = 0 THEN BlockAt(d, a).at ELSE Step(d, go[i - 1], IF n > 0 THEN 1 ELSE -1)
  IN  IF a < FirstAddress(d) THEN FirstAddress(d)
      ELSE IF a > LastAddress(d) THEN LastAddress(d)
      ELSE IF SegmentOf(d, a) = None THEN a
      ELSE IF go[blocks] = BlockAt(d, a).at THEN a ELSE go[blocks]
-----------------------------------------------------------------------------
(* m_rows while rows are made.  m_needsempty says that the last one is not  *)
(* virtual; the first one is made without asking it.                        *)
Virtual(row) == row.text \in {"empty", "separator"}

Line(rows, a, text) == Append(rows, [address |-> a, text |-> text])

EmptyLine(rows, a, flags, always) ==
  IF rows = <<>> \/ "NoEmptyLine" \in flags \/ (~always /\ Virtual(Last(rows))) THEN rows
  ELSE Line(rows, a, "empty")

Separator(rows, a, flags) ==
  IF "NoSeparatorsLine" \in flags THEN rows ELSE Line(rows, a, "separator")

CodeLines(rows, s, b, flags) ==
  LET parted == IF b.at # s.first THEN EmptyLine(rows, b.at, flags, TRUE) ELSE rows
      above == IF "Function" \in b.flags
               THEN IF "NoFunctionLine" \in flags THEN parted ELSE Line(parted, b.at, "function")
               ELSE IF "Location" \in b.flags
               THEN Line(EmptyLine(rows, b.at, flags, FALSE), b.at, "location")
               ELSE rows
      code == Line(above, b.at, "block")
  IN  IF b.tail THEN Separator(code, b.at, flags) ELSE code

DataLines(rows, b, flags) ==
  LET above == IF "Type" \in b.flags
               THEN Line(EmptyLine(rows, b.at, flags, FALSE), b.at, "type") ELSE rows
      data == Line(above, b.at, "block")
  IN  IF "TypeEnd" \in b.flags THEN EmptyLine(data, b.at, flags, FALSE) ELSE data

BlockLines(rows, s, b, flags) ==
  IF b.type = "Code" THEN CodeLines(rows, s, b, flags)
  ELSE IF b.type \in {"Data", "String"} THEN DataLines(rows, b, flags)
  ELSE Line(rows, b.at, "block")

SegmentLines(rows, i, s, flags) ==
  IF "NoSegmentLine" \in flags THEN rows
  ELSE Line(IF i > 1 THEN EmptyLine(rows, s.first, flags, FALSE) ELSE rows, s.first, "segment")

(* The conditions of resize and resizeRange: as many rows as there is room  *)
(* for, or up to an address.                                                *)
CanUpdate(rows, a, room) ==
  IF room.counts = "rows" THEN Len(rows) < room.limit ELSE a <= room.limit

(* updateSegment, from an address of the segment on.                        *)
UpdateSegment(rows, i, s, start, flags, room) ==
  LET from == BlockIndex(s, start)
      to[k \in from - 1 .. Len(s.blocks)] ==
        IF k = from - 1
        THEN IF s.blocks[from].at = s.first THEN SegmentLines(rows, i, s, flags) ELSE rows
        ELSE IF CanUpdate(to[k - 1], s.blocks[k].at, room)
        THEN BlockLines(to[k - 1], s, s.blocks[k], flags) ELSE to[k - 1]
  IN  to[Len(s.blocks)]

(* Where the rows of a segment begin.                                       *)
AlwaysFirst(s, first) == s.first

StartIn(s, first) == IF InSegment(s, first) THEN first ELSE s.first

(* updateSegments: whether there is room for one more is asked with the     *)
(* address of the segment before it.                                        *)
UpdateSegments(d, first, flags, room) ==
  LET i0 == SegmentOf(d, first)
      to[i \in i0 - 1 .. Len(d.segments)] ==
        IF i = i0 - 1 THEN <<>>
        ELSE IF CanUpdate(to[i - 1], d.segments[IF i = i0 THEN i ELSE i - 1].first, room)
        THEN UpdateSegment(to[i - 1], i, d.segments[i], StartIn(d.segments[i], first), flags, room)
        ELSE to[i - 1]
  IN  IF i0 = None THEN <<>> ELSE to[Len(d.segments)]

RowsOfSize(d, first, n, flags) ==
  UpdateSegments(d, first, flags, [counts |-> "rows", limit |-> n])

RowsOfRange(d, first, second, flags) ==
  UpdateSegments(d, first, flags, [counts |-> "addresses", limit |-> second])
-----------------------------------------------------------------------------
(* lastIndexOf *)
LastIndexOf(rows, a) ==
  LET S == {i \in DOMAIN rows : rows[i].address = a /\ ~Virtual(rows[i])}
  IN  IF S = {} THEN 0 ELSE Greatest(S)

(* insertPath, calculateToRow: a target that has no row is above the first  *)
(* or below the last one.                                                   *)
Path(rows, n, from, to) ==
  LET row == LastIndexOf(rows, to)
  IN  [from |-> LastIndexOf(rows, from),
       to |-> IF row # 0 THEN row ELSE IF to < from THEN 0 ELSE n + 2]

(* SurfacePath::update: a location shows what leads to it, any other        *)
(* address what it branches to.                                             *)
PathsOf(d, a) ==
  {l \in IF "Location" \in FlagsOf(d, a) THEN {k \in d.jumps \cup d.calls : k[2] = a}
         ELSE {k \in d.jumps : k[1] = a} :
     l[1] # l[2] /\ "Imported" \notin FlagsOf(d, l[1]) \cup FlagsOf(d, l[2])}

Paths(d, rows, n) ==
  UNION {{Path(rows, n, l[1], l[2]) : l \in PathsOf(d, rows[i].address)} :
         i \in 1 .. Smaller(n, Len(rows))}
=============================================================================
