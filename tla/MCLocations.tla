---------------------------- MODULE MCLocations ----------------------------
(* Instances of Locations: every memory of a few bytes.                     *)
EXTENDS Locations, AddressSpace

(* Segments as Locations sees them. *)
Seen(S) ==
  {[start |-> s.address, file |-> s.address + OffsetSize(s), end |-> s.endaddress,
    kind |-> s.flags] : s \in S}

(* A loader's calls: data before code, with nothing between them, a segment *)
(* of zeros, and one that overlaps and is refused.                          *)
Loaded ==
  LET data == SetSegment({}, 7, 0, 1, 4, 4, "Data")
      code == SetSegment(data, 7, 4, 5, 9, 3, "PureCode")
      zeros == SetSegment(code, 7, 0, 9, 0, 2, "Bss")
  IN  SetSegment(zeros, 7, 4, 7, 3, 2, "Data")

Neighbours == Seen(Loaded)

Zeros == {[byte |-> [a \in Addrs |-> 0], text |-> [a \in Addrs |-> 0]]}

NoText == [a \in Addrs |-> 0]

AllImages ==
  {[byte |-> [a \in Addrs |-> IF a \in DOMAIN b THEN b[a] ELSE 0], text |-> t] :
     b \in [1 .. 7 -> 0 .. 2], t \in {NoText, [NoText EXCEPT ![6] = 2]}}

Fitting == {m \in AllImages : ImageFits(m)}

Asks(kind, from, at, size) ==
  [kind |-> kind, from |-> from, at |-> at, size |-> size, dataonly |-> FALSE]

Various == {
  Asks("location", Loader, 1, Width),
  [Asks("location", 5, 6, 1) EXCEPT !.dataonly = TRUE],
  Asks("location", 2, 5, Width),
  Asks("slot", 5, 1, Width),
  Asks("table", 7, 6, Width),
  Asks("table", 7, 4, 1),
  Asks("branches", 5, 1, 2),
  Asks("calls", 7, 3, 3) }

ASSUME VariousFit == \A r \in Various : RequestFits(r)

(* Every document that three calls make, of a file of three bytes.          *)
SmallFile == <<1, 2, 3>>

Calls == (0 .. 3) \X (1 .. 4) \X {0, 2} \X {1, 3} \X {"Data", "Bss"}

AfterCall(S) ==
  {SetSegment(S, Len(SmallFile), c[1], c[2], c[3], c[4], c[5]) : c \in Calls}

Spaces == UNION {AfterCall(S) : S \in UNION {AfterCall(S) : S \in AfterCall({})}}

Small == 0 .. 7

(* insert lets segments overlap in one way only.                            *)
ASSUME SegmentsAreApart ==
  \A S \in Spaces : Disjoint(S) \/ \E s, t \in S : Encloses(s, t)

(* Two ways to the byte of an address agree.                                *)
ASSUME BytesAreTheFiles ==
  \A S \in Spaces, a \in Small, n \in 0 .. 3 : BytesAgree(S, SmallFile, a, n)

(* Offsets and addresses are inverse where no byte is in two segments.      *)
ASSUME AddressesComeBack ==
  \A S \in Spaces, a \in Small, n \in 1 .. 3 :
    Disjoint(S) /\ DisjointInFile(S) => FoundAgain(S, a, n)

(* An item of one byte, and then one over it that goes past the segment.    *)
Overhang == {Asks("location", 5, 4, 1), Asks("location", 6, 3, 3)}
=============================================================================
