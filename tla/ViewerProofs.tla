---------------------------- MODULE ViewerProofs ----------------------------
(***************************************************************************)
(* What a surface shows, for any documents with the same segments and any  *)
(* calls and events: rows of the document that was drawn, which only a      *)
(* range takes away, a cursor on the current address, arrows along the      *)
(* branches of the document; and that going back and going forward undo     *)
(* each other: the two stacks and the current address are one tape, along   *)
(* which both move.                                                         *)
(***************************************************************************)
EXTENDS Viewer, TLAPS

(* The two stacks are sequences; what of does not matter. *)
Stacks == \E S : back \in Seq(S) /\ forward \in Seq(S)

LEMMA Widen ==
  ASSUME NEW S, NEW T, NEW s \in Seq(S)
  PROVE  s \in Seq(S \cup T)
OBVIOUS

LEMMA Push ==
  ASSUME NEW S, NEW s \in Seq(S), NEW e
  PROVE  Append(s, e) \in Seq(S \cup {e}) /\ <<e>> \o s \in Seq(S \cup {e})
<1>1. s \in Seq(S \cup {e}) /\ e \in S \cup {e}
  BY Widen
<1>2. <<e>> \in Seq(S \cup {e})
  OBVIOUS
<1> QED
  BY <1>1, <1>2

LEMMA Pop ==
  ASSUME NEW S, NEW s \in Seq(S), s # <<>>
  PROVE  /\ Front(s) \in Seq(S) /\ Tail(s) \in Seq(S)
         /\ Last(s) \in S /\ Head(s) \in S
BY DEF Front, Last

(* The last of one stack is put before the other, and back again.           *)
LEMMA BackEnd ==
  ASSUME NEW S, NEW b \in Seq(S), b # <<>>
  PROVE  Front(b) \o <<Last(b)>> = b
BY DEF Front, Last

LEMMA Associate ==
  ASSUME NEW S, NEW b \in Seq(S), NEW f \in Seq(S), NEW c
  PROVE  b \o (<<c>> \o f) = b \o <<c>> \o f
<1>1. b \in Seq(S \cup {c}) /\ f \in Seq(S \cup {c}) /\ <<c>> \in Seq(S \cup {c})
  BY Widen
<1> QED
  BY <1>1

LEMMA TapeForward ==
  ASSUME NEW S, NEW b \in Seq(S), NEW f \in Seq(S), NEW c, f # <<>>
  PROVE  Append(b, c) \o <<Head(f)>> \o Tail(f) = b \o <<c>> \o f
<1> DEFINE U == S \cup {c}
<1>1. b \in Seq(U) /\ f \in Seq(U) /\ <<c>> \in Seq(U)
  BY Widen
<1>2. <<Head(f)>> \in Seq(U) /\ Tail(f) \in Seq(U)
  BY Pop, Widen
<1>3. <<Head(f)>> \o Tail(f) = f
  OBVIOUS
<1>4. Append(b, c) = b \o <<c>>
  BY <1>1
<1>5. (b \o <<c>>) \o (<<Head(f)>> \o Tail(f)) = (b \o <<c>> \o <<Head(f)>>) \o Tail(f)
  BY <1>1, <1>2
<1> QED
  BY <1>3, <1>4, <1>5
-----------------------------------------------------------------------------
LEMMA StacksNext == Stacks /\ [Next]_vars => Stacks'
<1> SUFFICES ASSUME Stacks, [Next]_vars PROVE Stacks'
  OBVIOUS
<1> PICK S : back \in Seq(S) /\ forward \in Seq(S)
  BY DEF Stacks
<1> DEFINE T == S \cup {current}
<1>0. back \in Seq(T) /\ forward \in Seq(T)
  BY Widen
<1>1. ASSUME NEW a, GoTo(a) PROVE Stacks'
  <2>1. back' \in Seq(T)
    BY <1>1, <1>0, Push DEF GoTo, Remembered
  <2>2. forward' \in Seq(T)
    BY <1>1, <1>0 DEF GoTo
  <2> QED
    BY <2>1, <2>2 DEF Stacks
<1>2. CASE GoBack
  <2>1. back' \in Seq(T)
    BY <1>2, <1>0, Pop DEF GoBack
  <2>2. forward' \in Seq(T)
    BY <1>2, <1>0, Push DEF GoBack, Pushed
  <2> QED
    BY <2>1, <2>2 DEF Stacks
<1>3. CASE GoForward
  <2>1. forward' \in Seq(T)
    BY <1>3, <1>0, Pop DEF GoForward
  <2>2. back' \in Seq(T)
    BY <1>3, <1>0, Push DEF GoForward, Pushed
  <2> QED
    BY <2>1, <2>2 DEF Stacks
<1>4. CASE UNCHANGED history
  <2>1. back' = back /\ forward' = forward
    BY <1>4 DEF history
  <2> QED
    BY <2>1 DEF Stacks
<1>5. UNCHANGED vars => UNCHANGED history
  BY DEF vars, history
<1>6. ASSUME NEW a PROVE Seek(a) \/ Scroll(a) \/ MoveTo(a) \/ Select(a) \/ Resize(a) => UNCHANGED history
  BY DEF Seek, Scroll, MoveTo, Select, Resize
<1>7. ASSUME NEW a, NEW b PROVE ResizeRange(a, b) => UNCHANGED history
  BY DEF ResizeRange
<1>8. Update \/ BusyBegin \/ Change \/ BusyEnd => UNCHANGED history
  BY DEF Update, BusyBegin, Change, BusyEnd
<1> QED
  BY <1>1, <1>2, <1>3, <1>4, <1>5, <1>6, <1>7, <1>8 DEF Next

(* Both moves leave the tape as it was. *)
LEMMA TapeKept == Stacks /\ [Next]_vars =>
  /\ GoBack /\ current # None /\ Starts(Last(back)) => Tape' = Tape
  /\ GoForward /\ current # None /\ Starts(Head(forward)) => Tape' = Tape
<1> SUFFICES ASSUME Stacks
             PROVE  /\ GoBack /\ current # None /\ Starts(Last(back)) => Tape' = Tape
                    /\ GoForward /\ current # None /\ Starts(Head(forward)) => Tape' = Tape
  OBVIOUS
<1> PICK S : back \in Seq(S) /\ forward \in Seq(S)
  BY DEF Stacks
<1>1. ASSUME GoBack, current # None, Starts(Last(back)) PROVE Tape' = Tape
  <2>1. back # <<>> /\ back' = Front(back) /\ forward' = <<current>> \o forward
    BY <1>1 DEF GoBack, Pushed
  <2>2. current' = Last(back)
    BY <1>1 DEF GoBack, GoesTo, Starts
  <2>3. Tape' = Front(back) \o <<Last(back)>> \o (<<current>> \o forward)
    BY <2>1, <2>2 DEF Tape
  <2>4. Front(back) \o <<Last(back)>> = back
    BY <2>1, BackEnd
  <2>5. back \o (<<current>> \o forward) = back \o <<current>> \o forward
    BY Associate
  <2> QED
    BY <2>3, <2>4, <2>5, Zenon DEF Tape
<1>2. ASSUME GoForward, current # None, Starts(Head(forward)) PROVE Tape' = Tape
  <2>1. forward # <<>> /\ forward' = Tail(forward) /\ back' = Append(back, current)
    BY <1>2 DEF GoForward, Pushed
  <2>2. current' = Head(forward)
    BY <1>2 DEF GoForward, GoesTo, Starts
  <2>3. Tape' = Append(back, current) \o <<Head(forward)>> \o Tail(forward)
    BY <2>1, <2>2 DEF Tape
  <2>4. Append(back, current) \o <<Head(forward)>> \o Tail(forward) = back \o <<current>> \o forward
    BY <2>1, TapeForward
  <2> QED
    BY <2>3, <2>4, Zenon DEF Tape
<1> QED
  BY <1>1, <1>2

(* Going back after having gone forward, or the other way round, leads to   *)
(* where one was, with nothing lost from either stack: Cursor::goBack and   *)
(* goForward, for every document and whatever happens between them.         *)
THEOREM HistoryIsATape == Spec => BackAndForth
<1>1. Init => Stacks
  <2> SUFFICES ASSUME Init PROVE back \in Seq({}) /\ forward \in Seq({})
    BY DEF Stacks
  <2> QED
    BY DEF Init
<1>2. Stacks /\ [Next]_vars => Stacks'
  BY StacksNext
<1>3. Stacks /\ [Next]_vars =>
        [/\ GoBack /\ current # None /\ Starts(Last(back)) => Tape' = Tape
         /\ GoForward /\ current # None /\ Starts(Head(forward)) => Tape' = Tape]_vars
  BY TapeKept
<1> QED
  BY <1>1, <1>2, <1>3, PTL DEF Spec, BackAndForth
-----------------------------------------------------------------------------
General == INSTANCE Lemmas

Texts == {"function", "location", "block", "separator", "empty", "type", "segment"}
Row == [address : Nat, text : Texts]

(* How rows grow: some are added, none of those before is touched.          *)
Extends(x, y) == Len(x) <= Len(y) /\ \A i \in 1 .. Len(x) : y[i] = x[i]

(* The added ones stand for an address and show no block, or just one.      *)
Decorates(x, y, a) ==
  /\ y \in Seq(Row) /\ Extends(x, y)
  /\ \A i \in Len(x) + 1 .. Len(y) : y[i].address = a /\ y[i].text # "block"

Shows(x, y, a) ==
  /\ y \in Seq(Row) /\ Extends(x, y)
  /\ \E k \in Len(x) + 1 .. Len(y) : \A i \in Len(x) + 1 .. Len(y) :
       y[i].address = a /\ (y[i].text = "block" <=> i = k)

LEMMA LineResult ==
  ASSUME NEW x \in Seq(Row), NEW a \in Nat, NEW t \in Texts
  PROVE  /\ Line(x, a, t) \in Seq(Row) /\ Extends(x, Line(x, a, t))
         /\ Len(Line(x, a, t)) = Len(x) + 1
         /\ Line(x, a, t)[Len(x) + 1] = [address |-> a, text |-> t]
<1> DEFINE row == [address |-> a, text |-> t]
<1>1. row \in Row
  BY DEF Row
<1>2. Append(x, row) \in Seq(Row) /\ Len(Append(x, row)) = Len(x) + 1
  BY <1>1
<1>3. \A i \in 1 .. Len(x) : Append(x, row)[i] = x[i]
  BY <1>1
<1>4. Append(x, row)[Len(x) + 1] = row
  BY <1>1
<1> HIDE DEF row
<1>5. Line(x, a, t) = Append(x, row)
  BY DEF Line, row
<1> QED
  BY <1>2, <1>3, <1>4, <1>5 DEF Extends, row

LEMMA Grow ==
  ASSUME NEW x \in Seq(Row), NEW y \in Seq(Row), NEW z \in Seq(Row),
         Extends(x, y), Extends(y, z)
  PROVE  Extends(x, z)
BY DEF Extends

LEMMA DecoratesSelf ==
  ASSUME NEW x \in Seq(Row), NEW a PROVE Decorates(x, x, a)
BY DEF Decorates, Extends

LEMMA DecoratesMore ==
  ASSUME NEW x \in Seq(Row), NEW y, NEW z, NEW a, Decorates(x, y, a), Decorates(y, z, a)
  PROVE  Decorates(x, z, a)
<1>1. y \in Seq(Row) /\ z \in Seq(Row) /\ Extends(x, z)
  BY Grow DEF Decorates
<1>2. ASSUME NEW i \in Len(x) + 1 .. Len(z) PROVE z[i].address = a /\ z[i].text # "block"
  <2>1. CASE i <= Len(y)
    BY <1>1, <2>1 DEF Decorates, Extends
  <2>2. CASE i > Len(y)
    BY <1>1, <2>2 DEF Decorates
  <2> QED
    BY <1>1, <2>1, <2>2
<1> QED
  BY <1>1, <1>2 DEF Decorates

LEMMA LineDecorates ==
  ASSUME NEW x \in Seq(Row), NEW a \in Nat, NEW t \in Texts \ {"block"}
  PROVE  Decorates(x, Line(x, a, t), a)
<1> DEFINE y == Line(x, a, t)
<1>1. y \in Seq(Row) /\ Extends(x, y) /\ Len(y) = Len(x) + 1
      /\ y[Len(x) + 1] = [address |-> a, text |-> t]
  BY LineResult
<1> HIDE DEF y
<1>2. ASSUME NEW i \in Len(x) + 1 .. Len(y) PROVE y[i] = [address |-> a, text |-> t]
  BY <1>1
<1>3. Decorates(x, y, a)
  BY <1>1, <1>2 DEF Decorates
<1> QED
  BY <1>3 DEF y

LEMMA EmptyLineDecorates ==
  ASSUME NEW x \in Seq(Row), NEW a \in Nat, NEW mode, NEW always
  PROVE  Decorates(x, EmptyLine(x, a, mode, always), a)
<1>1. EmptyLine(x, a, mode, always) \in {x, Line(x, a, "empty")}
  BY Zenon DEF EmptyLine
<1> QED
  BY <1>1, LineDecorates, DecoratesSelf DEF Texts

LEMMA SeparatorDecorates ==
  ASSUME NEW x \in Seq(Row), NEW a \in Nat, NEW mode
  PROVE  Decorates(x, Separator(x, a, mode), a)
BY LineDecorates, DecoratesSelf DEF Texts, Separator

(* A block's own line comes after what is above it and before what is below.*)
LEMMA ShowsBetween ==
  ASSUME NEW x \in Seq(Row), NEW y, NEW a \in Nat, Decorates(x, y, a),
         NEW z, Decorates(Line(y, a, "block"), z, a)
  PROVE  Shows(x, z, a)
<1> DEFINE w == Line(y, a, "block")
<1>1. y \in Seq(Row) /\ w \in Seq(Row) /\ z \in Seq(Row) /\ Extends(y, w) /\ Extends(w, z)
      /\ Len(w) = Len(y) + 1 /\ w[Len(y) + 1] = [address |-> a, text |-> "block"]
  BY LineResult DEF Decorates, Texts
<1> HIDE DEF w
<1>2. Extends(x, z)
  BY <1>1, Grow DEF Decorates
<1>3. Len(y) + 1 \in Len(x) + 1 .. Len(z)
  BY <1>1 DEF Decorates, Extends
<1>4. ASSUME NEW i \in Len(x) + 1 .. Len(z)
      PROVE  z[i].address = a /\ (z[i].text = "block" <=> i = Len(y) + 1)
  <2>1. CASE i <= Len(y)
    <3>1. z[i] = w[i] /\ w[i] = y[i]
      BY <1>1, <2>1 DEF Extends
    <3>2. y[i].address = a /\ y[i].text # "block"
      BY <1>1, <2>1 DEF Decorates
    <3> QED
      BY <1>1, <2>1, <3>1, <3>2
  <2>2. CASE i = Len(y) + 1
    <3>1. z[i] = w[i]
      BY <1>1, <2>2 DEF Extends
    <3> QED
      BY <1>1, <2>2, <3>1
  <2>3. CASE i > Len(y) + 1
    BY <1>1, <2>3 DEF Decorates, w
  <2> QED
    BY <1>1, <2>1, <2>2, <2>3
<1> QED
  BY <1>1, <1>2, <1>3, <1>4 DEF Shows

LEMMA BlockLinesShow ==
  ASSUME NEW x \in Seq(Row), NEW s, NEW b, b.at \in Nat, NEW mode
  PROVE  Shows(x, BlockLines(x, s, b, mode), b.at)
<1> DEFINE a == b.at
<1>1. ASSUME NEW y, Decorates(x, y, a) PROVE Shows(x, Line(y, a, "block"), a)
  <2>1. Line(y, a, "block") \in Seq(Row)
    BY <1>1, LineResult DEF Decorates, Texts
  <2> QED
    BY <1>1, <2>1, DecoratesSelf, ShowsBetween
<1>2. ASSUME NEW t \in Texts \ {"block"}, NEW y, Decorates(x, y, a)
      PROVE  Decorates(x, Line(y, a, t), a)
  <2>1. y \in Seq(Row)
    BY <1>2 DEF Decorates
  <2>2. Decorates(y, Line(y, a, t), a)
    BY <2>1, LineDecorates
  <2> QED
    BY <1>2, <2>2, DecoratesMore
<1>3. Shows(x, CodeLines(x, s, b, mode), a)
  <2> DEFINE parted == IF a # s.first THEN EmptyLine(x, a, mode, TRUE) ELSE x
             above == IF "Function" \in b.flags
                      THEN IF "NoFunctionLine" \in mode THEN parted ELSE Line(parted, a, "function")
                      ELSE IF "Location" \in b.flags
                      THEN Line(EmptyLine(x, a, mode, FALSE), a, "location")
                      ELSE x
             code == Line(above, a, "block")
  <2>1. Decorates(x, parted, a)
    BY EmptyLineDecorates, DecoratesSelf
  <2>2. Decorates(x, above, a)
    <3> HIDE DEF parted
    <3> QED
      BY <1>2, <2>1, EmptyLineDecorates, DecoratesSelf DEF Texts
  <2> HIDE DEF above
  <2>3. code \in Seq(Row)
    BY <2>2, LineResult DEF Decorates, Texts
  <2>4. Decorates(code, code, a) /\ Decorates(code, Separator(code, a, mode), a)
    BY <2>3, DecoratesSelf, SeparatorDecorates
  <2>5. CodeLines(x, s, b, mode) \in {code, Separator(code, a, mode)}
    BY Zenon DEF CodeLines, above
  <2> QED
    BY <2>2, <2>4, <2>5, ShowsBetween
<1>4. Shows(x, DataLines(x, b, mode), a)
  <2> DEFINE above == IF "Type" \in b.flags
                      THEN Line(EmptyLine(x, a, mode, FALSE), a, "type") ELSE x
             data == Line(above, a, "block")
  <2>2. Decorates(x, above, a)
    BY <1>2, EmptyLineDecorates, DecoratesSelf DEF Texts
  <2> HIDE DEF above
  <2>3. data \in Seq(Row)
    BY <2>2, LineResult DEF Decorates, Texts
  <2>4. Decorates(data, data, a) /\ Decorates(data, EmptyLine(data, a, mode, FALSE), a)
    BY <2>3, DecoratesSelf, EmptyLineDecorates
  <2>5. DataLines(x, b, mode) \in {data, EmptyLine(data, a, mode, FALSE)}
    BY Zenon DEF DataLines, above
  <2> QED
    BY <2>2, <2>4, <2>5, ShowsBetween
<1>5. Shows(x, Line(x, a, "block"), a)
  BY <1>1, DecoratesSelf
<1> QED
  BY <1>3, <1>4, <1>5, Zenon DEF BlockLines

LEMMA SegmentLinesDecorate ==
  ASSUME NEW x \in Seq(Row), NEW i, NEW s, s.first \in Nat, NEW mode
  PROVE  /\ Decorates(x, SegmentLines(x, i, s, mode), s.first)
         /\ LET y == SegmentLines(x, i, s, mode)
            IN  Len(x) < Len(y) => ~Virtual(y[Len(y)])
<1> DEFINE a == s.first
           y == IF i > 1 THEN EmptyLine(x, a, mode, FALSE) ELSE x
<1>1. Decorates(x, y, a)
  BY EmptyLineDecorates, DecoratesSelf
<1> HIDE DEF y
<1> DEFINE z == Line(y, a, "segment")
<1>0. y \in Seq(Row) /\ "segment" \in Texts \ {"block"}
  BY <1>1 DEF Decorates, Texts
<1>2. Decorates(x, z, a)
  <2>1. Decorates(y, z, a)
    BY <1>0, LineDecorates
  <2> QED
    BY <1>1, <2>1, DecoratesMore
<1>3. ~Virtual(z[Len(z)])
  <2>1. Len(z) = Len(y) + 1 /\ z[Len(y) + 1] = [address |-> a, text |-> "segment"]
    BY <1>0, LineResult
  <2> QED
    BY <2>1 DEF Virtual
<1>4. CASE "NoSegmentLine" \in mode
  BY <1>4, DecoratesSelf DEF SegmentLines
<1>5. CASE "NoSegmentLine" \notin mode
  BY <1>2, <1>3, <1>5 DEF SegmentLines, y
<1> QED
  BY <1>4, <1>5
-----------------------------------------------------------------------------
LEMMA LeastIn ==
  ASSUME NEW S \in SUBSET Nat, S # {}
  PROVE  Least(S) \in S /\ \A x \in S : Least(S) <= x
BY General!LeastElement DEF Least

LEMMA GreatestIn ==
  ASSUME NEW n \in Nat, NEW S \in SUBSET (0 .. n), S # {}
  PROVE  Greatest(S) \in S /\ \A x \in S : x <= Greatest(S)
<1> DEFINE T == {n - x : x \in S}
<1>1. T \in SUBSET Nat /\ T # {}
  <2>1. \A x \in S : n - x \in Nat
    OBVIOUS
  <2>2. PICK x \in S : TRUE
    OBVIOUS
  <2> QED
    BY <2>1, <2>2
<1>2. PICK m \in T : \A y \in T : m <= y
  <2> HIDE DEF T
  <2> QED
    BY <1>1, General!LeastElement
<1>3. PICK x \in S : m = n - x
  BY <1>2
<1>4. \A y \in S : n - y \in T
  OBVIOUS
<1>5. \A y \in S : y <= x
  BY <1>2, <1>3, <1>4
<1> QED
  BY <1>5 DEF Greatest

(* A document's segments and blocks, with their types.                      *)
LEMMA SegmentFacts ==
  ASSUME NEW d, IsDocument(d)
  PROVE  /\ Len(d.segments) \in Nat \ {0} /\ DOMAIN d.segments = 1 .. Len(d.segments)
         /\ \A i \in DOMAIN d.segments :
              /\ d.segments[i].first \in Nat \ {0} /\ d.segments[i].last \in Nat
              /\ Len(d.segments[i].blocks) \in Nat \ {0}
              /\ DOMAIN d.segments[i].blocks = 1 .. Len(d.segments[i].blocks)
              /\ \A k \in DOMAIN d.segments[i].blocks : d.segments[i].blocks[k].at \in Nat
<1>1. d.segments \in Seq(Segments) /\ d.segments # <<>>
  BY DEF IsDocument
<1>2. Len(d.segments) \in Nat \ {0} /\ DOMAIN d.segments = 1 .. Len(d.segments)
  BY <1>1
<1>3. ASSUME NEW i \in DOMAIN d.segments
      PROVE  /\ d.segments[i].first \in Nat \ {0} /\ d.segments[i].last \in Nat
             /\ d.segments[i].blocks \in Seq(Blocks) \ {<<>>}
  <2>1. d.segments[i] \in Segments
    BY <1>1
  <2> QED
    BY <2>1 DEF Segments, None
<1>4. ASSUME NEW B \in Seq(Blocks) \ {<<>>}
      PROVE  /\ Len(B) \in Nat \ {0} /\ DOMAIN B = 1 .. Len(B)
             /\ \A k \in DOMAIN B : B[k].at \in Nat
  <2>1. Len(B) \in Nat \ {0} /\ DOMAIN B = 1 .. Len(B) /\ \A k \in DOMAIN B : B[k] \in Blocks
    OBVIOUS
  <2>2. \A b \in Blocks : b.at \in Nat
    BY DEF Blocks
  <2> QED
    BY <2>1, <2>2
<1> QED
  BY <1>2, <1>3, <1>4

LEMMA SegmentOrder ==
  ASSUME NEW d, IsDocument(d)
  PROVE  /\ \A i, j \in DOMAIN d.segments : i < j => d.segments[i].last <= d.segments[j].first
         /\ \A i \in DOMAIN d.segments :
              /\ d.segments[i].blocks[1].at = d.segments[i].first
              /\ d.segments[i].first < d.segments[i].last
              /\ \A k \in DOMAIN d.segments[i].blocks :
                   /\ d.segments[i].first <= d.segments[i].blocks[k].at
                   /\ d.segments[i].blocks[k].at < d.segments[i].last
              /\ \A k, l \in DOMAIN d.segments[i].blocks :
                   k < l => d.segments[i].blocks[k].at < d.segments[i].blocks[l].at
<1>1. /\ \A i, j \in DOMAIN d.segments : i < j => d.segments[i].last <= d.segments[j].first
      /\ \A i \in DOMAIN d.segments :
           /\ d.segments[i].blocks[1].at = d.segments[i].first
           /\ \A k \in DOMAIN d.segments[i].blocks : d.segments[i].blocks[k].at < d.segments[i].last
           /\ \A k, l \in DOMAIN d.segments[i].blocks :
                k < l => d.segments[i].blocks[k].at < d.segments[i].blocks[l].at
  BY DEF IsDocument
<1>2. ASSUME NEW i \in DOMAIN d.segments
      PROVE  /\ d.segments[i].first < d.segments[i].last
             /\ \A k \in DOMAIN d.segments[i].blocks : d.segments[i].first <= d.segments[i].blocks[k].at
  <2>1. 1 \in DOMAIN d.segments[i].blocks
    BY SegmentFacts
  <2>2. ASSUME NEW k \in DOMAIN d.segments[i].blocks
        PROVE  d.segments[i].first <= d.segments[i].blocks[k].at
    <3>1. k = 1 \/ 1 < k
      BY SegmentFacts
    <3> QED
      BY <1>1, <2>1, <3>1, SegmentFacts
  <2> QED
    BY <1>1, <2>1, <2>2
<1> QED
  BY <1>1, <1>2

(* An address is in one segment or in none.                                 *)
LEMMA SegmentOfIn ==
  ASSUME NEW d, IsDocument(d), NEW a
  PROVE  SegmentOf(d, a) # None =>
           SegmentOf(d, a) \in DOMAIN d.segments /\ InSegment(d.segments[SegmentOf(d, a)], a)
<1> DEFINE S == {i \in DOMAIN d.segments : InSegment(d.segments[i], a)}
<1>1. S \in SUBSET Nat
  BY SegmentFacts
<1>2. S # {} => Least(S) \in S
  <2> HIDE DEF S
  <2> QED
    BY <1>1, LeastIn
<1>3. SegmentOf(d, a) = IF S = {} THEN None ELSE Least(S)
  BY DEF SegmentOf
<1> QED
  BY <1>2, <1>3

LEMMA SegmentOfThat ==
  ASSUME NEW d, IsDocument(d), NEW a \in Nat, NEW i \in DOMAIN d.segments,
         InSegment(d.segments[i], a)
  PROVE  SegmentOf(d, a) = i /\ SegmentOf(d, a) # None
<1> DEFINE S == {j \in DOMAIN d.segments : InSegment(d.segments[j], a)}
<1>1. S \in SUBSET Nat /\ i \in S
  BY SegmentFacts
<1>2. Least(S) \in S /\ Least(S) <= i
  <2> HIDE DEF S
  <2> QED
    BY <1>1, LeastIn
<1>3. SegmentOf(d, a) = Least(S)
  BY <1>1 DEF SegmentOf
<1> DEFINE j == Least(S)
<1>4. j \in DOMAIN d.segments /\ InSegment(d.segments[j], a) /\ j \in Nat
  BY <1>1, <1>2
<1> HIDE DEF j, S
<1>5. ~(j < i)
  <2> SUFFICES ASSUME j < i PROVE FALSE
    OBVIOUS
  <2>1. d.segments[j].last <= d.segments[i].first
    BY <1>4, SegmentOrder
  <2>2. a < d.segments[j].last /\ d.segments[i].first <= a
    BY <1>4 DEF InSegment
  <2> QED
    BY <1>4, <2>1, <2>2, SegmentFacts
<1>6. i \in Nat \ {0}
  BY SegmentFacts, SMTT(30)
<1> QED
  BY <1>2, <1>3, <1>4, <1>5, <1>6 DEF None, j

(* The block that holds an address of a segment.                            *)
LEMMA BlockIndexIn ==
  ASSUME NEW d, IsDocument(d), NEW i \in DOMAIN d.segments, NEW a \in Nat,
         d.segments[i].first <= a
  PROVE  LET B == d.segments[i].blocks
             k == BlockIndex(d.segments[i], a)
         IN  k \in DOMAIN B /\ B[k].at <= a /\ \A l \in DOMAIN B : B[l].at <= a => l <= k
<1> DEFINE s == d.segments[i]
           S == {k \in DOMAIN s.blocks : s.blocks[k].at <= a}
<1>1. 1 \in S /\ S \in SUBSET (0 .. Len(s.blocks)) /\ Len(s.blocks) \in Nat
  BY SegmentFacts, SegmentOrder
<1>2. Greatest(S) \in S /\ \A x \in S : x <= Greatest(S)
  <2> HIDE DEF S
  <2> QED
    BY <1>1, GreatestIn
<1>3. BlockIndex(s, a) = Greatest(S)
  BY DEF BlockIndex
<1> QED
  BY <1>2, <1>3

LEMMA BlockIndexThat ==
  ASSUME NEW d, IsDocument(d), NEW i \in DOMAIN d.segments, NEW k \in DOMAIN d.segments[i].blocks
  PROVE  BlockIndex(d.segments[i], d.segments[i].blocks[k].at) = k
<1> DEFINE B == d.segments[i].blocks
           m == BlockIndex(d.segments[i], B[k].at)
<1>1. B[k].at \in Nat /\ d.segments[i].first <= B[k].at /\ DOMAIN B = 1 .. Len(B) /\ Len(B) \in Nat
  BY SegmentFacts, SegmentOrder
<1>2. m \in DOMAIN B /\ B[m].at <= B[k].at /\ k <= m
  BY <1>1, BlockIndexIn
<1>3. ~(k < m)
  <2> SUFFICES ASSUME k < m PROVE FALSE
    OBVIOUS
  <2>1. B[k].at < B[m].at
    BY <1>2, SegmentOrder
  <2>2. B[m].at \in Nat
    BY <1>2, SegmentFacts
  <2> QED
    BY <1>1, <1>2, <2>1, <2>2
<1> HIDE DEF m
<1> QED
  BY <1>1, <1>2, <1>3 DEF m

LEMMA BlockAtIn ==
  ASSUME NEW d, IsDocument(d), NEW a \in Nat, SegmentOf(d, a) # None
  PROVE  LET s == d.segments[SegmentOf(d, a)]
         IN  /\ SegmentOf(d, a) \in DOMAIN d.segments /\ InSegment(s, a)
             /\ BlockIndex(s, a) \in DOMAIN s.blocks
             /\ BlockAt(d, a) = s.blocks[BlockIndex(s, a)]
             /\ BlockAt(d, a).at \in Nat /\ BlockAt(d, a).at <= a
<1> DEFINE i == SegmentOf(d, a)
<1>1. i \in DOMAIN d.segments /\ InSegment(d.segments[i], a)
  BY SegmentOfIn
<1>2. d.segments[i].first <= a
  BY <1>1 DEF InSegment
<1> HIDE DEF i
<1>3. BlockIndex(d.segments[i], a) \in DOMAIN d.segments[i].blocks
      /\ d.segments[i].blocks[BlockIndex(d.segments[i], a)].at <= a
  BY <1>1, <1>2, BlockIndexIn
<1>4. BlockAt(d, a) = d.segments[i].blocks[BlockIndex(d.segments[i], a)]
  BY DEF BlockAt, i
<1>5. BlockAt(d, a).at \in Nat
  BY <1>1, <1>3, <1>4, SegmentFacts
<1> QED
  BY <1>1, <1>3, <1>4, <1>5 DEF i

(* A block starts in the segment that has it, and is the one at its start.  *)
IsStart(d, a) == \E i \in DOMAIN d.segments : \E k \in DOMAIN d.segments[i].blocks :
                   a = d.segments[i].blocks[k].at

LEMMA BlockStart ==
  ASSUME NEW d, IsDocument(d), NEW i \in DOMAIN d.segments, NEW k \in DOMAIN d.segments[i].blocks
  PROVE  LET a == d.segments[i].blocks[k].at
         IN  /\ a \in Nat \ {0} /\ SegmentOf(d, a) = i /\ i # None
             /\ BlockIndex(d.segments[i], a) = k /\ BlockAt(d, a) = d.segments[i].blocks[k]
             /\ IsStart(d, a)
<1> DEFINE a == d.segments[i].blocks[k].at
<1>1. a \in Nat \ {0} /\ InSegment(d.segments[i], a)
  BY SegmentFacts, SegmentOrder DEF InSegment
<1>2. SegmentOf(d, a) = i /\ i # None
  BY <1>1, SegmentOfThat
<1>3. BlockIndex(d.segments[i], a) = k
  BY BlockIndexThat
<1> QED
  BY <1>1, <1>2, <1>3 DEF BlockAt, IsStart

LEMMA StartAt ==
  ASSUME NEW d, IsDocument(d), NEW a, IsStart(d, a)
  PROVE  a \in Nat \ {0} /\ SegmentOf(d, a) # None /\ BlockAt(d, a).at = a
<1> PICK i \in DOMAIN d.segments : \E k \in DOMAIN d.segments[i].blocks : a = d.segments[i].blocks[k].at
  BY DEF IsStart
<1> PICK k \in DOMAIN d.segments[i].blocks : a = d.segments[i].blocks[k].at
  OBVIOUS
<1> QED
  BY BlockStart

LEMMA AtStarts ==
  ASSUME NEW d, IsDocument(d), NEW a \in Nat, SegmentOf(d, a) # None
  PROVE  IsStart(d, BlockAt(d, a).at)
BY BlockAtIn DEF IsStart

LEMMA StepStarts ==
  ASSUME NEW d, IsDocument(d), NEW a, IsStart(d, a), NEW dir \in {1, -1}
  PROVE  IsStart(d, Step(d, a, dir))
<1> PICK i \in DOMAIN d.segments : \E k \in DOMAIN d.segments[i].blocks : a = d.segments[i].blocks[k].at
  BY DEF IsStart
<1> PICK k \in DOMAIN d.segments[i].blocks : a = d.segments[i].blocks[k].at
  OBVIOUS
<1>1. SegmentOf(d, a) = i /\ BlockIndex(d.segments[i], a) = k
  BY BlockStart
<1>2. Step(d, a, dir) =
        IF k + dir \in DOMAIN d.segments[i].blocks THEN d.segments[i].blocks[k + dir].at
        ELSE IF i + dir \notin DOMAIN d.segments THEN a
        ELSE LET B == d.segments[i + dir].blocks IN IF dir > 0 THEN B[1].at ELSE Last(B).at
  BY <1>1 DEF Step
<1>3. CASE k + dir \in DOMAIN d.segments[i].blocks
  BY <1>2, <1>3 DEF IsStart
<1>4. CASE k + dir \notin DOMAIN d.segments[i].blocks /\ i + dir \notin DOMAIN d.segments
  BY <1>2, <1>4
<1>5. CASE k + dir \notin DOMAIN d.segments[i].blocks /\ i + dir \in DOMAIN d.segments
  <2> DEFINE B == d.segments[i + dir].blocks
  <2>1. 1 \in DOMAIN B /\ Len(B) \in DOMAIN B
    BY <1>5, SegmentFacts
  <2>2. Step(d, a, dir) \in {B[1].at, B[Len(B)].at}
    BY <1>2, <1>5 DEF Last
  <2> QED
    BY <1>5, <2>1, <2>2 DEF IsStart
<1> QED
  BY <1>3, <1>4, <1>5

(* Scrolling goes from block to block and never out of the segments; from   *)
(* outside them, to an end of the document or nowhere.                      *)
LEMMA ScrolledNat ==
  ASSUME NEW d, IsDocument(d), NEW a \in Nat, SegmentOf(d, a) = None, NEW n \in Int
  PROVE  Scrolled(d, a, n) \in Nat
<1>1. FirstAddress(d) \in Nat /\ LastAddress(d) \in Nat
  BY SegmentFacts DEF FirstAddress, LastAddress
<1>2. Scrolled(d, a, n) \in {FirstAddress(d), LastAddress(d), a}
  BY DEF Scrolled
<1> QED
  BY <1>1, <1>2

LEMMA ScrolledWithin ==
  ASSUME NEW d, IsDocument(d), NEW a \in Nat, SegmentOf(d, a) # None, NEW n \in Int
  PROVE  Scrolled(d, a, n) \in Nat /\ SegmentOf(d, Scrolled(d, a, n)) # None
<1> DEFINE blocks == IF n > 0 THEN n ELSE -n
           dir == IF n > 0 THEN 1 ELSE -1
           go[i \in 0 .. blocks] ==
             IF i = 0 THEN BlockAt(d, a).at ELSE Step(d, go[i - 1], IF n > 0 THEN 1 ELSE -1)
           S == {x \in Nat : IsStart(d, x)}
           step == [k \in (0 .. blocks) \ {0} |-> [x \in S |-> Step(d, x, dir)]]
           base == BlockAt(d, a).at
<1>1. base \in S
  BY AtStarts, StartAt
<1>2. \A x \in S : Step(d, x, dir) \in S
  BY StepStarts, StartAt
<1>3. blocks \in Nat /\ 0 \in Int /\ blocks \in Int /\ 0 <= blocks
  OBVIOUS
<1>4. PICK f \in [0 .. blocks -> S] :
        f[0] = base /\ \A k \in (0 .. blocks) \ {0} : f[k] = step[k][f[k - 1]]
  <2>1. General!Steps(step, 0, blocks, S)
    BY <1>2 DEF General!Steps
  <2> HIDE DEF base, step, S, blocks
  <2>2. PICK f : General!Follows(f, 0, blocks, S, base, step)
    BY <1>1, <1>3, <2>1, General!Recursion
  <2> QED
    BY <2>2 DEF General!Follows
<1> HIDE DEF S, blocks
<1>5. ASSUME NEW k \in 0 .. blocks
      PROVE  f[k] = IF k = 0 THEN BlockAt(d, a).at ELSE Step(d, f[k - 1], IF n > 0 THEN 1 ELSE -1)
  <2>1. CASE k = 0
    BY <1>4, <2>1
  <2>2. CASE k # 0
    <3>1. k \in 1 .. blocks /\ k - 1 \in 0 .. blocks
      BY <1>3, <2>2
    <3>2. f[k - 1] \in S
      BY <1>4, <3>1
    <3> QED
      BY <1>4, <2>2, <3>1, <3>2
  <2> QED
    BY <2>1, <2>2
<1>6. f = [i \in 0 .. blocks |->
             IF i = 0 THEN BlockAt(d, a).at ELSE Step(d, f[i - 1], IF n > 0 THEN 1 ELSE -1)]
  BY <1>4, <1>5
<1>7. go = [i \in 0 .. blocks |->
             IF i = 0 THEN BlockAt(d, a).at ELSE Step(d, go[i - 1], IF n > 0 THEN 1 ELSE -1)]
  BY <1>6, Zenon
<1> HIDE DEF go
<1> DEFINE T == {i \in 0 .. blocks : go[i] \in S}
<1>8. 0 .. blocks \subseteq T
  <2>1. 0 \in T
    BY <1>1, <1>3, <1>7
  <2>2. ASSUME NEW k \in 0 .. blocks, k # 0, k - 1 \in T PROVE k \in T
    <3>1. go[k] = Step(d, go[k - 1], dir)
      BY <1>7, <2>2
    <3> QED
      BY <1>2, <2>2, <3>1
  <2> HIDE DEF T
  <2> QED
    BY <1>3, <2>1, <2>2, General!IntervalInduction
<1>9. go[blocks] \in Nat /\ IsStart(d, go[blocks])
  BY <1>3, <1>8 DEF S
<1>10. Scrolled(d, a, n) = IF a < FirstAddress(d) THEN FirstAddress(d)
                           ELSE IF a > LastAddress(d) THEN LastAddress(d)
                           ELSE IF SegmentOf(d, a) = None THEN a
                           ELSE IF go[blocks] = BlockAt(d, a).at THEN a ELSE go[blocks]
  BY DEF Scrolled, go, blocks
<1>11. ~(a < FirstAddress(d)) /\ ~(a > LastAddress(d))
  <2> DEFINE i == SegmentOf(d, a)
             L == Len(d.segments)
  <2>1. i \in DOMAIN d.segments /\ d.segments[i].first <= a /\ a < d.segments[i].last
    BY SegmentOfIn DEF InSegment
  <2> HIDE DEF i
  <2>2. 1 \in DOMAIN d.segments /\ L \in DOMAIN d.segments /\ (i = 1 \/ 1 < i) /\ (i = L \/ i < L)
        /\ L \in Nat /\ i \in Nat
    BY <2>1, SegmentFacts
  <2>3. d.segments[1].first <= d.segments[i].first
    <3>1. 1 < i => d.segments[1].last <= d.segments[i].first /\ d.segments[1].first < d.segments[1].last
      BY <2>1, <2>2, SegmentOrder
    <3> QED
      BY <2>1, <2>2, <3>1, SegmentFacts
  <2>4. d.segments[i].last <= d.segments[L].last
    <3>1. i < L => d.segments[i].last <= d.segments[L].first /\ d.segments[L].first < d.segments[L].last
      BY <2>1, <2>2, SegmentOrder
    <3> QED
      BY <2>1, <2>2, <3>1, SegmentFacts
  <2>5. \A j \in {1, i, L} : d.segments[j].first \in Nat /\ d.segments[j].last \in Nat
    BY <2>1, <2>2, SegmentFacts
  <2> HIDE DEF L
  <2> QED
    BY <2>1, <2>2, <2>3, <2>4, <2>5, SMTT(30) DEF FirstAddress, LastAddress, L
<1> HIDE DEF go
<1> QED
  BY <1>9, <1>10, <1>11, StartAt
-----------------------------------------------------------------------------
(* The rows of a segment, as they grow block by block.                      *)
SegmentGrows(to, x, i, s, from, mode, room) ==
  /\ to \in [from - 1 .. Len(s.blocks) -> Seq(Row)]
  /\ to[from - 1] = IF s.blocks[from].at = s.first THEN SegmentLines(x, i, s, mode) ELSE x
  /\ \A k \in from .. Len(s.blocks) :
       to[k] = IF CanUpdate(to[k - 1], s.blocks[k].at, room)
               THEN BlockLines(to[k - 1], s, s.blocks[k], mode) ELSE to[k - 1]

SegmentListed(rows, x, i, s, from, mode, room) ==
  \E to : SegmentGrows(to, x, i, s, from, mode, room) /\ rows = to[Len(s.blocks)]

LEMMA SegmentUnrolls ==
  ASSUME NEW d, IsDocument(d), NEW i \in DOMAIN d.segments, NEW x \in Seq(Row),
         NEW start \in Nat, d.segments[i].first <= start, NEW mode, NEW room
  PROVE  SegmentListed(UpdateSegment(x, i, d.segments[i], start, mode, room), x, i, d.segments[i],
                       BlockIndex(d.segments[i], start), mode, room)
<1> DEFINE s == d.segments[i]
           from == BlockIndex(s, start)
           L == Len(s.blocks)
           base == IF s.blocks[from].at = s.first THEN SegmentLines(x, i, s, mode) ELSE x
           Grown(y, k) == IF CanUpdate(y, s.blocks[k].at, room)
                          THEN BlockLines(y, s, s.blocks[k], mode) ELSE y
           step == [k \in (from - 1 .. L) \ {from - 1} |-> [y \in Seq(Row) |-> Grown(y, k)]]
           to[k \in from - 1 .. L] ==
             IF k = from - 1
             THEN IF s.blocks[from].at = s.first THEN SegmentLines(x, i, s, mode) ELSE x
             ELSE IF CanUpdate(to[k - 1], s.blocks[k].at, room)
             THEN BlockLines(to[k - 1], s, s.blocks[k], mode) ELSE to[k - 1]
<1>1. from \in 1 .. L /\ L \in Nat
  BY BlockIndexIn, SegmentFacts
<1>2. base \in Seq(Row)
  BY SegmentLinesDecorate, SegmentFacts DEF Decorates
<1>3. ASSUME NEW y \in Seq(Row), NEW k \in from .. L PROVE Grown(y, k) \in Seq(Row)
  <2>1. s.blocks[k].at \in Nat
    BY <1>1, SegmentFacts
  <2> QED
    BY <2>1, BlockLinesShow DEF Shows
<1>4. PICK f : General!Follows(f, from - 1, L, Seq(Row), base, step)
  <2>1. General!Steps(step, from - 1, L, Seq(Row))
    <3>1. \A k \in (from - 1 .. L) \ {from - 1} : k \in from .. L
      BY <1>1
    <3> HIDE DEF from, L, Grown
    <3> QED
      BY <1>3, <3>1 DEF General!Steps
  <2>2. from - 1 \in Int /\ L \in Int /\ from - 1 <= L
    BY <1>1
  <2> HIDE DEF base, step, from, L
  <2> QED
    BY <1>2, <2>1, <2>2, General!Recursion
<1> HIDE DEF from, L
<1>5. f \in [from - 1 .. L -> Seq(Row)] /\ f[from - 1] = base
  BY <1>4 DEF General!Follows
<1>6. ASSUME NEW k \in from .. L PROVE f[k] = Grown(f[k - 1], k)
  <2>1. k \in (from - 1 .. L) \ {from - 1} /\ k - 1 \in from - 1 .. L
    BY <1>1
  <2>2. f[k] = step[k][f[k - 1]]
    <3> HIDE DEF step
    <3> QED
      BY <1>4, <2>1 DEF General!Follows
  <2>3. f[k - 1] \in Seq(Row)
    BY <1>5, <2>1
  <2> HIDE DEF Grown
  <2> QED
    BY <2>1, <2>2, <2>3
<1>8. ASSUME NEW k \in from - 1 .. L
      PROVE  f[k] = IF k = from - 1
                    THEN IF s.blocks[from].at = s.first THEN SegmentLines(x, i, s, mode) ELSE x
                    ELSE IF CanUpdate(f[k - 1], s.blocks[k].at, room)
                    THEN BlockLines(f[k - 1], s, s.blocks[k], mode) ELSE f[k - 1]
  <2>1. k = from - 1 \/ (k # from - 1 /\ k \in from .. L)
    BY <1>1
  <2> HIDE DEF s
  <2> QED
    BY <1>5, <1>6, <2>1
<1>9. f = [k \in from - 1 .. L |->
             IF k = from - 1
             THEN IF s.blocks[from].at = s.first THEN SegmentLines(x, i, s, mode) ELSE x
             ELSE IF CanUpdate(f[k - 1], s.blocks[k].at, room)
             THEN BlockLines(f[k - 1], s, s.blocks[k], mode) ELSE f[k - 1]]
  BY <1>5, <1>8
<1>10. to = [k \in from - 1 .. L |->
             IF k = from - 1
             THEN IF s.blocks[from].at = s.first THEN SegmentLines(x, i, s, mode) ELSE x
             ELSE IF CanUpdate(to[k - 1], s.blocks[k].at, room)
             THEN BlockLines(to[k - 1], s, s.blocks[k], mode) ELSE to[k - 1]]
  BY <1>9, Zenon
<1>11. UpdateSegment(x, i, s, start, mode, room) = to[L]
  BY DEF UpdateSegment, to, from, L
<1> HIDE DEF to
<1>12. to[from - 1] = base /\ \A k \in from .. L : to[k] = Grown(to[k - 1], k)
  <2>1. from - 1 \in from - 1 .. L /\ \A k \in from .. L : k \in from - 1 .. L /\ k # from - 1
    BY <1>1
  <2> HIDE DEF s
  <2> QED
    BY <1>10, <2>1
<1>13. from - 1 .. L \subseteq {k \in from - 1 .. L : to[k] \in Seq(Row)}
  <2> DEFINE T == {k \in from - 1 .. L : to[k] \in Seq(Row)}
  <2>1. from - 1 \in T
    BY <1>1, <1>2, <1>12
  <2>2. ASSUME NEW k \in from - 1 .. L, k # from - 1, k - 1 \in T PROVE k \in T
    <3>1. k \in from .. L
      BY <1>1, <2>2
    <3>2. to[k] = Grown(to[k - 1], k) /\ to[k - 1] \in Seq(Row)
      BY <1>12, <2>2, <3>1
    <3> HIDE DEF Grown
    <3> QED
      BY <1>3, <2>2, <3>1, <3>2
  <2>3. from - 1 \in Int /\ L \in Int
    BY <1>1
  <2> HIDE DEF T
  <2>4. from - 1 .. L \subseteq T
    BY <2>1, <2>2, <2>3, General!IntervalInduction
  <2> QED
    BY <2>4 DEF T
<1>14. to \in [from - 1 .. L -> Seq(Row)]
  <2>1. to = [k \in from - 1 .. L |-> to[k]]
    BY <1>10
  <2> QED
    BY <1>13, <2>1
<1>15. SegmentGrows(to, x, i, s, from, mode, room)
  BY <1>12, <1>14 DEF SegmentGrows, L
<1> QED
  BY <1>11, <1>15 DEF SegmentListed, from, L

LEMMA SegmentRows ==
  ASSUME NEW d, IsDocument(d), NEW i \in DOMAIN d.segments, NEW x \in Seq(Row),
         NEW start \in Nat, d.segments[i].first <= start, NEW mode, NEW room
  PROVE  /\ UpdateSegment(x, i, d.segments[i], start, mode, room) \in Seq(Row)
         /\ Extends(x, UpdateSegment(x, i, d.segments[i], start, mode, room))
<1> DEFINE s == d.segments[i]
           from == BlockIndex(s, start)
           L == Len(s.blocks)
<1>0. SegmentListed(UpdateSegment(x, i, s, start, mode, room), x, i, s, from, mode, room)
  BY SegmentUnrolls
<1>1. PICK to : /\ SegmentGrows(to, x, i, s, from, mode, room)
                /\ UpdateSegment(x, i, s, start, mode, room) = to[L]
  BY <1>0 DEF SegmentListed
<1>2. from \in 1 .. L /\ L \in Nat /\ \A k \in 1 .. L : s.blocks[k].at \in Nat
  BY BlockIndexIn, SegmentFacts
<1>3. Decorates(x, SegmentLines(x, i, s, mode), s.first) /\ Decorates(x, x, s.first)
  BY SegmentFacts, SegmentLinesDecorate, DecoratesSelf
<1> HIDE DEF from, L, s
<1>4. from - 1 \in Int /\ L \in Int /\ from - 1 \in from - 1 .. L /\ L \in from - 1 .. L
      /\ \A k \in from - 1 .. L : k # from - 1 =>
           k \in from .. L /\ k \in 1 .. L /\ k - 1 \in from - 1 .. L
  BY <1>2
<1>5. to \in [from - 1 .. L -> Seq(Row)]
  BY <1>1 DEF SegmentGrows, L
<1> DEFINE T == {k \in from - 1 .. L : Extends(x, to[k])}
<1>6. from - 1 \in T
  BY <1>1, <1>3, <1>4 DEF SegmentGrows, Decorates
<1>7. ASSUME NEW k \in from - 1 .. L, k # from - 1, k - 1 \in T PROVE k \in T
  <2>1. to[k - 1] \in Seq(Row) /\ to[k] \in Seq(Row) /\ Extends(x, to[k - 1]) /\ k \in from .. L /\ k \in 1 .. L
    BY <1>4, <1>5, <1>7
  <2>2. to[k] = IF CanUpdate(to[k - 1], s.blocks[k].at, room)
                THEN BlockLines(to[k - 1], s, s.blocks[k], mode) ELSE to[k - 1]
    BY <1>1, <2>1 DEF SegmentGrows, L
  <2>3. Extends(to[k - 1], BlockLines(to[k - 1], s, s.blocks[k], mode))
    BY <1>2, <2>1, BlockLinesShow DEF Shows
  <2>4. Extends(x, to[k])
    BY <2>1, <2>2, <2>3, Grow
  <2> QED
    BY <2>4
<1>8. from - 1 .. L \subseteq T
  <2> HIDE DEF T
  <2> QED
    BY <1>4, <1>6, <1>7, General!IntervalInduction
<1>9. Extends(x, to[L]) /\ to[L] \in Seq(Row)
  BY <1>4, <1>5, <1>8
<1> QED
  BY <1>1, <1>9 DEF s

LEMMA StartInSegment ==
  ASSUME NEW d, IsDocument(d), NEW i \in DOMAIN d.segments, NEW first \in Nat
  PROVE  /\ StartIn(d.segments[i], first) \in Nat
         /\ InSegment(d.segments[i], StartIn(d.segments[i], first))
         /\ d.segments[i].first <= StartIn(d.segments[i], first)
BY SegmentFacts, SegmentOrder DEF StartIn, InSegment

(* The rows of the document, as they grow segment by segment.               *)
ListGrows(to, d, i0, first, mode, room) ==
  /\ to \in [i0 - 1 .. Len(d.segments) -> Seq(Row)]
  /\ to[i0 - 1] = <<>>
  /\ \A i \in i0 .. Len(d.segments) :
       to[i] = IF CanUpdate(to[i - 1], d.segments[IF i = i0 THEN i ELSE i - 1].first, room)
               THEN UpdateSegment(to[i - 1], i, d.segments[i], StartIn(d.segments[i], first), mode, room)
               ELSE to[i - 1]

Listed(rows, d, i0, first, mode, room) ==
  \E to : ListGrows(to, d, i0, first, mode, room) /\ rows = to[Len(d.segments)]

LEMMA ListUnrolls ==
  ASSUME NEW d, IsDocument(d), NEW first \in Nat, SegmentOf(d, first) # None, NEW mode, NEW room
  PROVE  Listed(UpdateSegments(d, first, mode, room), d, SegmentOf(d, first), first, mode, room)
<1> DEFINE i0 == SegmentOf(d, first)
           L == Len(d.segments)
           Grown(y, i) == IF CanUpdate(y, d.segments[IF i = i0 THEN i ELSE i - 1].first, room)
                          THEN UpdateSegment(y, i, d.segments[i], StartIn(d.segments[i], first), mode, room)
                          ELSE y
           step == [i \in (i0 - 1 .. L) \ {i0 - 1} |-> [y \in Seq(Row) |-> Grown(y, i)]]
           to[i \in i0 - 1 .. Len(d.segments)] ==
             IF i = i0 - 1 THEN <<>>
             ELSE IF CanUpdate(to[i - 1], d.segments[IF i = i0 THEN i ELSE i - 1].first, room)
             THEN UpdateSegment(to[i - 1], i, d.segments[i], StartIn(d.segments[i], first), mode, room)
             ELSE to[i - 1]
<1>0. UpdateSegments(d, first, mode, room) = to[L]
  BY DEF UpdateSegments, to, L
<1> HIDE DEF to
<1>1. i0 \in 1 .. L /\ L \in Nat /\ i0 - 1 \in Int /\ L \in Int /\ i0 - 1 <= L
      /\ \A i \in (i0 - 1 .. L) \ {i0 - 1} : i \in i0 .. L /\ i - 1 \in i0 - 1 .. L
      /\ \A k \in i0 .. L : k \in (i0 - 1 .. L) \ {i0 - 1} /\ k - 1 \in i0 - 1 .. L
  BY SegmentOfIn, SegmentFacts
<1>2. <<>> \in Seq(Row)
  OBVIOUS
<1>3. ASSUME NEW y \in Seq(Row), NEW i \in i0 .. L PROVE Grown(y, i) \in Seq(Row)
  <2>1. i \in DOMAIN d.segments
    BY <1>1, SegmentFacts
  <2> QED
    BY <2>1, StartInSegment, SegmentRows
<1>4. PICK f : General!Follows(f, i0 - 1, L, Seq(Row), <<>>, step)
  <2>1. General!Steps(step, i0 - 1, L, Seq(Row))
    <3> HIDE DEF i0, L, Grown
    <3> QED
      BY <1>1, <1>3 DEF General!Steps
  <2> HIDE DEF step, i0, L
  <2> QED
    BY <1>1, <1>2, <2>1, General!Recursion
<1> HIDE DEF i0, L
<1>5. f \in [i0 - 1 .. L -> Seq(Row)] /\ f[i0 - 1] = <<>>
  BY <1>4 DEF General!Follows
<1>6. ASSUME NEW i \in i0 .. L PROVE f[i] = Grown(f[i - 1], i)
  <2>1. f[i] = step[i][f[i - 1]]
    <3> HIDE DEF step
    <3> QED
      BY <1>1, <1>4 DEF General!Follows
  <2>2. f[i - 1] \in Seq(Row)
    BY <1>1, <1>5
  <2> HIDE DEF Grown
  <2> QED
    BY <1>1, <2>1, <2>2
<1>8. ASSUME NEW i \in i0 - 1 .. L
      PROVE  f[i] = IF i = i0 - 1 THEN <<>>
                    ELSE IF CanUpdate(f[i - 1], d.segments[IF i = i0 THEN i ELSE i - 1].first, room)
                    THEN UpdateSegment(f[i - 1], i, d.segments[i], StartIn(d.segments[i], first), mode, room)
                    ELSE f[i - 1]
  <2>1. i = i0 - 1 \/ (i # i0 - 1 /\ i \in i0 .. L)
    BY <1>1
  <2> QED
    BY <1>5, <1>6, <2>1
<1>9. f = [i \in i0 - 1 .. Len(d.segments) |->
             IF i = i0 - 1 THEN <<>>
             ELSE IF CanUpdate(f[i - 1], d.segments[IF i = i0 THEN i ELSE i - 1].first, room)
             THEN UpdateSegment(f[i - 1], i, d.segments[i], StartIn(d.segments[i], first), mode, room)
             ELSE f[i - 1]]
  BY <1>5, <1>8 DEF L
<1>10. to = [i \in i0 - 1 .. Len(d.segments) |->
              IF i = i0 - 1 THEN <<>>
              ELSE IF CanUpdate(to[i - 1], d.segments[IF i = i0 THEN i ELSE i - 1].first, room)
              THEN UpdateSegment(to[i - 1], i, d.segments[i], StartIn(d.segments[i], first), mode, room)
              ELSE to[i - 1]]
  BY <1>9, Zenon DEF to
<1>11. to[i0 - 1] = <<>> /\ \A i \in i0 .. L : to[i] = Grown(to[i - 1], i)
  <2>1. i0 - 1 \in i0 - 1 .. Len(d.segments)
        /\ \A i \in i0 .. L : i \in i0 - 1 .. Len(d.segments) /\ i # i0 - 1
    BY <1>1 DEF L
  <2> QED
    BY <1>10, <2>1
<1>12. i0 - 1 .. L \subseteq {i \in i0 - 1 .. L : to[i] \in Seq(Row)}
  <2> DEFINE T == {i \in i0 - 1 .. L : to[i] \in Seq(Row)}
  <2>1. i0 - 1 \in T
    <3>1. i0 - 1 \in i0 - 1 .. L
      BY <1>1
    <3> QED
      BY <1>2, <1>11, <3>1
  <2>2. ASSUME NEW k \in i0 - 1 .. L, k # i0 - 1, k - 1 \in T PROVE k \in T
    <3>1. k \in i0 .. L
      BY <1>1, <2>2
    <3>2. to[k] = Grown(to[k - 1], k) /\ to[k - 1] \in Seq(Row)
      BY <1>11, <2>2, <3>1
    <3> HIDE DEF Grown
    <3> QED
      BY <1>3, <2>2, <3>1, <3>2
  <2> HIDE DEF T
  <2>4. i0 - 1 .. L \subseteq T
    BY <1>1, <2>1, <2>2, General!IntervalInduction
  <2> QED
    BY <2>4 DEF T
<1>13. to \in [i0 - 1 .. L -> Seq(Row)]
  <2>1. to = [i \in i0 - 1 .. L |-> to[i]]
    BY <1>10 DEF L
  <2> QED
    BY <1>12, <2>1
<1>14. ListGrows(to, d, i0, first, mode, room)
  BY <1>11, <1>13 DEF ListGrows, L
<1> QED
  BY <1>0, <1>14 DEF Listed, i0, L
-----------------------------------------------------------------------------
(* What rows show that were made of the blocks from lo up to hi: one row of *)
(* each block, in order, but for blocks there was no room for; all of those *)
(* come after the ones shown.  Every row belongs to one that is not virtual.*)
Rooms == [counts : {"rows", "addresses"}, limit : Nat]

Shown(x) == {i \in 1 .. Len(x) : x[i].text = "block"}

Left(x, a, room) == ~CanUpdate(x, a, room) /\ \A i \in Shown(x) : x[i].address < a

Anchored(x) == \A i \in 1 .. Len(x) : \E j \in 1 .. Len(x) :
                 x[j].address = x[i].address /\ ~Virtual(x[j])

Ordered(x) ==
  /\ \A i, j \in 1 .. Len(x) : i < j => x[i].address <= x[j].address
  /\ \A i, j \in Shown(x) : i < j => x[i].address < x[j].address

Within(x, d, lo, hi) ==
  /\ \A i \in 1 .. Len(x) : IsStart(d, x[i].address) /\ lo <= x[i].address /\ x[i].address <= hi
  /\ \A i \in Shown(x) : x[i].address < hi

Covers(x, d, lo, hi, room) ==
  \A a : IsStart(d, a) /\ lo <= a /\ a < hi =>
    (\E i \in Shown(x) : x[i].address = a) \/ Left(x, a, room)

Listing(x, d, lo, hi, room) ==
  /\ x \in Seq(Row) /\ lo \in Nat /\ hi \in Nat /\ lo <= hi
  /\ Anchored(x) /\ Ordered(x) /\ Within(x, d, lo, hi) /\ Covers(x, d, lo, hi, room)

LEMMA RowTypes ==
  ASSUME NEW x \in Seq(Row)
  PROVE  Len(x) \in Nat /\ DOMAIN x = 1 .. Len(x)
         /\ \A i \in 1 .. Len(x) : x[i].address \in Nat /\ x[i].text \in Texts
<1>1. \A i \in 1 .. Len(x) : x[i] \in Row
  OBVIOUS
<1> QED
  BY <1>1 DEF Row

LEMMA ListingOn ==
  ASSUME NEW d, IsDocument(d), NEW lo, NEW hi, NEW on \in Nat, NEW room, NEW x,
         Listing(x, d, lo, hi, room), hi <= on,
         \A a : IsStart(d, a) /\ hi <= a => on <= a
  PROVE  Listing(x, d, lo, on, room)
<1>1. x \in Seq(Row) /\ lo \in Nat /\ hi \in Nat /\ lo <= on
  BY DEF Listing
<1>2. Within(x, d, lo, on)
  BY <1>1, RowTypes DEF Listing, Within, Shown
<1>3. Covers(x, d, lo, on, room)
  <2> SUFFICES ASSUME NEW a, IsStart(d, a), lo <= a, a < on
               PROVE  (\E i \in Shown(x) : x[i].address = a) \/ Left(x, a, room)
    BY DEF Covers
  <2>1. a \in Nat
    BY StartAt
  <2>2. a < hi
    BY <1>1, <2>1
  <2> QED
    BY <2>2 DEF Listing, Covers
<1> QED
  BY <1>1, <1>2, <1>3 DEF Listing

LEMMA LeftMore ==
  ASSUME NEW x \in Seq(Row), NEW y \in Seq(Row), Extends(x, y), NEW room \in Rooms,
         NEW a \in Nat, NEW b \in Nat, a <= b, ~CanUpdate(x, a, room)
  PROVE  ~CanUpdate(y, b, room)
<1>1. room.limit \in Nat /\ Len(x) \in Nat /\ Len(y) \in Nat
  BY DEF Rooms
<1> QED
  BY <1>1 DEF CanUpdate, Extends

LEMMA ListingDecorated ==
  ASSUME NEW d, NEW lo, NEW hi, NEW room \in Rooms, NEW x, NEW y, IsDocument(d),
         Listing(x, d, lo, hi, room), IsStart(d, hi), Decorates(x, y, hi),
         Len(x) < Len(y) => ~Virtual(y[Len(y)])
  PROVE  Listing(y, d, lo, hi, room)
<1>1. x \in Seq(Row) /\ y \in Seq(Row) /\ lo \in Nat /\ hi \in Nat /\ lo <= hi
      /\ Len(x) \in Nat /\ Len(y) \in Nat /\ Len(x) <= Len(y)
      /\ \A i \in 1 .. Len(x) : x[i].address \in Nat /\ x[i].address <= hi /\ lo <= x[i].address
                                 /\ IsStart(d, x[i].address)
  BY RowTypes DEF Listing, Decorates, Extends, Within
<1>2. ASSUME NEW i \in 1 .. Len(y)
      PROVE  \/ i \in 1 .. Len(x) /\ y[i] = x[i]
             \/ i \notin 1 .. Len(x) /\ Len(x) < i /\ y[i].address = hi /\ y[i].text # "block" /\ Len(x) < Len(y)
  BY <1>1 DEF Decorates, Extends
<1>3. Shown(y) = Shown(x) /\ \A i \in Shown(x) : y[i] = x[i]
  BY <1>1, <1>2 DEF Shown
<1>4. Anchored(y)
  <2> SUFFICES ASSUME NEW i \in 1 .. Len(y)
               PROVE  \E j \in 1 .. Len(y) : y[j].address = y[i].address /\ ~Virtual(y[j])
    BY DEF Anchored
  <2>1. CASE i \in 1 .. Len(x)
    <3>1. PICK j \in 1 .. Len(x) : x[j].address = x[i].address /\ ~Virtual(x[j])
      BY <2>1 DEF Listing, Anchored
    <3>2. y[i] = x[i] /\ y[j] = x[j] /\ j \in 1 .. Len(y)
      BY <1>1, <2>1 DEF Decorates, Extends
    <3> QED
      BY <3>1, <3>2
  <2>2. CASE i \notin 1 .. Len(x)
    <3>1. y[i].address = hi /\ Len(y) \in 1 .. Len(y) /\ Len(x) < Len(y)
      BY <1>1, <1>2, <2>2
    <3>2. y[Len(y)].address = hi
      BY <1>1, <3>1 DEF Decorates
    <3> QED
      BY <3>1, <3>2
  <2> QED
    BY <2>1, <2>2
<1>5. Ordered(y)
  <2>1. \A i, j \in Shown(y) : i < j => y[i].address < y[j].address
    BY <1>3 DEF Listing, Ordered
  <2>2. ASSUME NEW i \in 1 .. Len(y), NEW j \in 1 .. Len(y), i < j PROVE y[i].address <= y[j].address
    <3>1. CASE j \in 1 .. Len(x)
      <4>1. i \in 1 .. Len(x)
        BY <1>1, <2>2, <3>1
      <4> QED
        BY <1>2, <2>2, <3>1, <4>1 DEF Listing, Ordered
    <3>2. CASE j \notin 1 .. Len(x)
      <4>1. y[j].address = hi
        BY <1>2, <3>2
      <4>2. y[i].address <= hi
        <5>1. CASE i \in 1 .. Len(x)
          BY <1>1, <1>2, <5>1
        <5>2. CASE i \notin 1 .. Len(x)
          BY <1>1, <1>2, <5>2
        <5> QED
          BY <5>1, <5>2
      <4> QED
        BY <4>1, <4>2
    <3> QED
      BY <3>1, <3>2
  <2> QED
    BY <2>1, <2>2 DEF Ordered
<1>6. Within(y, d, lo, hi)
  <2>1. \A i \in 1 .. Len(y) : IsStart(d, y[i].address) /\ lo <= y[i].address /\ y[i].address <= hi
    BY <1>1, <1>2
  <2>2. \A i \in Shown(y) : y[i].address < hi
    BY <1>3 DEF Listing, Within
  <2> QED
    BY <2>1, <2>2 DEF Within
<1>7. Covers(y, d, lo, hi, room)
  <2> SUFFICES ASSUME NEW a, IsStart(d, a), lo <= a, a < hi
               PROVE  (\E i \in Shown(y) : y[i].address = a) \/ Left(y, a, room)
    BY DEF Covers
  <2>1. CASE \E i \in Shown(x) : x[i].address = a
    BY <1>3, <2>1
  <2>2. CASE Left(x, a, room)
    <3>1. a \in Nat
      BY StartAt
    <3>2. ~CanUpdate(y, a, room)
      BY <1>1, <2>2, <3>1, LeftMore DEF Left, Decorates
    <3> QED
      BY <1>3, <2>2, <3>2 DEF Left
  <2> QED
    BY <2>1, <2>2 DEF Listing, Covers
<1> QED
  BY <1>1, <1>4, <1>5, <1>6, <1>7 DEF Listing

LEMMA ListingShown ==
  ASSUME NEW d, NEW lo, NEW a, NEW room \in Rooms, NEW x, NEW y, IsDocument(d),
         Listing(x, d, lo, a, room), IsStart(d, a), CanUpdate(x, a, room), Shows(x, y, a)
  PROVE  Listing(y, d, lo, a + 1, room)
<1>1. x \in Seq(Row) /\ y \in Seq(Row) /\ lo \in Nat /\ a \in Nat /\ lo <= a
      /\ Len(x) \in Nat /\ Len(y) \in Nat /\ Len(x) <= Len(y)
      /\ \A i \in 1 .. Len(x) : x[i].address \in Nat /\ x[i].address <= a /\ lo <= x[i].address
                                 /\ IsStart(d, x[i].address)
  BY RowTypes DEF Listing, Shows, Extends, Within
<1>0. PICK k \in Len(x) + 1 .. Len(y) : \A i \in Len(x) + 1 .. Len(y) :
        y[i].address = a /\ (y[i].text = "block" <=> i = k)
  BY DEF Shows
<1>k. k \in 1 .. Len(y) /\ Len(x) < k /\ k \in Shown(y) /\ y[k].address = a /\ y[k].text = "block"
  BY <1>0, <1>1 DEF Shown
<1>2. ASSUME NEW i \in 1 .. Len(y)
      PROVE  \/ i \in 1 .. Len(x) /\ y[i] = x[i]
             \/ i \notin 1 .. Len(x) /\ Len(x) < i /\ y[i].address = a /\ (y[i].text = "block" <=> i = k)
  <2>1. i \in 1 .. Len(x) \/ (i \notin 1 .. Len(x) /\ i \in Len(x) + 1 .. Len(y))
    BY <1>1
  <2> QED
    BY <1>0, <1>1, <2>1 DEF Shows, Extends
<1>3. Shown(y) = Shown(x) \cup {k} /\ k \notin Shown(x) /\ \A i \in Shown(x) : y[i] = x[i]
  BY <1>1, <1>2, <1>k DEF Shown
<1>4. Anchored(y)
  <2> SUFFICES ASSUME NEW i \in 1 .. Len(y)
               PROVE  \E j \in 1 .. Len(y) : y[j].address = y[i].address /\ ~Virtual(y[j])
    BY DEF Anchored
  <2>1. CASE i \in 1 .. Len(x)
    <3>1. PICK j \in 1 .. Len(x) : x[j].address = x[i].address /\ ~Virtual(x[j])
      BY <2>1 DEF Listing, Anchored
    <3>2. y[i] = x[i] /\ y[j] = x[j] /\ j \in 1 .. Len(y)
      BY <1>1, <2>1 DEF Shows, Extends
    <3> QED
      BY <3>1, <3>2
  <2>2. CASE i \notin 1 .. Len(x)
    BY <1>2, <1>k, <2>2 DEF Virtual
  <2> QED
    BY <2>1, <2>2
<1>5. Ordered(y)
  <2>1. ASSUME NEW i \in Shown(y), NEW j \in Shown(y), i < j PROVE y[i].address < y[j].address
    <3>1. CASE j \in Shown(x)
      <4>1. i \in Shown(x)
        <5>1. j \in 1 .. Len(x)
          BY <3>1 DEF Shown
        <5>2. i # k
          BY <1>1, <1>k, <2>1, <5>1
        <5> QED
          BY <1>3, <2>1, <5>2
      <4> QED
        BY <1>3, <2>1, <3>1, <4>1 DEF Listing, Ordered
    <3>2. CASE j = k
      <4>1. i \in Shown(x) /\ y[i] = x[i]
        BY <1>3, <1>k, <2>1, <3>2 DEF Shown
      <4> QED
        BY <1>k, <3>2, <4>1 DEF Listing, Within
    <3> QED
      BY <1>3, <3>1, <3>2
  <2>2. ASSUME NEW i \in 1 .. Len(y), NEW j \in 1 .. Len(y), i < j PROVE y[i].address <= y[j].address
    <3>1. CASE j \in 1 .. Len(x)
      <4>1. i \in 1 .. Len(x)
        BY <1>1, <2>2, <3>1
      <4> QED
        BY <1>2, <2>2, <3>1, <4>1 DEF Listing, Ordered
    <3>2. CASE j \notin 1 .. Len(x)
      BY <1>1, <1>2, <2>2, <3>2, SMTT(30)
    <3> QED
      BY <3>1, <3>2
  <2> QED
    BY <2>1, <2>2 DEF Ordered
<1>6. Within(y, d, lo, a + 1)
  <2>1. \A i \in 1 .. Len(y) : IsStart(d, y[i].address) /\ lo <= y[i].address /\ y[i].address <= a + 1
    BY <1>1, <1>2
  <2>2. \A i \in Shown(y) : y[i].address < a + 1
    <3>1. \A i \in Shown(x) : i \in 1 .. Len(x)
      BY DEF Shown
    <3> QED
      BY <1>1, <1>3, <1>k, <3>1
  <2> QED
    BY <2>1, <2>2 DEF Within
<1>7. Covers(y, d, lo, a + 1, room)
  <2> SUFFICES ASSUME NEW b, IsStart(d, b), lo <= b, b < a + 1
               PROVE  \E i \in Shown(y) : y[i].address = b
    BY DEF Covers
  <2>1. b \in Nat
    BY StartAt
  <2>2. CASE b = a
    BY <1>k, <2>2
  <2>3. CASE b < a
    <3>1. ~Left(x, b, room)
      <4> SUFFICES ASSUME ~CanUpdate(x, b, room) PROVE FALSE
        BY DEF Left
      <4>1. Extends(x, x)
        BY DEF Extends
      <4> QED
        BY <1>1, <2>1, <2>3, <4>1, LeftMore
    <3>2. \E i \in Shown(x) : x[i].address = b
      BY <2>3, <3>1 DEF Listing, Covers
    <3> QED
      BY <1>3, <3>2
  <2> QED
    BY <1>1, <2>1, <2>2, <2>3
<1> QED
  BY <1>1, <1>4, <1>5, <1>6, <1>7 DEF Listing

(* Where there is no room for a block, there is none for those after it.    *)
LEMMA ListingSkips ==
  ASSUME NEW d, IsDocument(d), NEW lo, NEW hi, NEW on \in Nat, NEW c \in Nat, NEW room \in Rooms,
         NEW x, Listing(x, d, lo, hi, room), c <= hi, hi <= on, ~CanUpdate(x, c, room)
  PROVE  Listing(x, d, lo, on, room)
<1>1. x \in Seq(Row) /\ lo \in Nat /\ hi \in Nat /\ lo <= on
      /\ \A i \in Shown(x) : x[i].address < hi /\ x[i].address \in Nat
  BY RowTypes DEF Listing, Within, Shown
<1>2. Within(x, d, lo, on)
  BY <1>1, RowTypes DEF Listing, Within, Shown
<1>3. Covers(x, d, lo, on, room)
  <2> SUFFICES ASSUME NEW b, IsStart(d, b), lo <= b, b < on
               PROVE  (\E i \in Shown(x) : x[i].address = b) \/ Left(x, b, room)
    BY DEF Covers
  <2>1. b \in Nat
    BY StartAt
  <2>2. CASE hi <= b
    <3>1. Extends(x, x) /\ c <= b
      BY <1>1, <2>1, <2>2 DEF Extends
    <3>2. ~CanUpdate(x, b, room)
      BY <1>1, <2>1, <3>1, LeftMore
    <3> QED
      BY <1>1, <2>1, <2>2, <3>2 DEF Left
  <2>3. CASE b < hi
    BY <2>3 DEF Listing, Covers
  <2> QED
    BY <1>1, <2>1, <2>2, <2>3
<1> QED
  BY <1>1, <1>2, <1>3 DEF Listing

(* Where the next block starts. *)
LEMMA NextStart ==
  ASSUME NEW d, IsDocument(d), NEW i \in DOMAIN d.segments, NEW k \in DOMAIN d.segments[i].blocks,
         NEW a, IsStart(d, a), d.segments[i].blocks[k].at < a
  PROVE  IF k = Len(d.segments[i].blocks) THEN d.segments[i].last <= a
         ELSE k + 1 \in DOMAIN d.segments[i].blocks /\ d.segments[i].blocks[k + 1].at <= a
<1>1. PICK j \in DOMAIN d.segments : \E l \in DOMAIN d.segments[j].blocks : a = d.segments[j].blocks[l].at
  BY DEF IsStart
<1>2. PICK l \in DOMAIN d.segments[j].blocks : a = d.segments[j].blocks[l].at
  BY <1>1
<1> DEFINE s == d.segments[i]
           t == d.segments[j]
<1>3. /\ a \in Nat /\ t.first <= a /\ a < t.last /\ s.blocks[k].at \in Nat
      /\ s.first <= s.blocks[k].at /\ s.blocks[k].at < s.last
      /\ s.first \in Nat /\ s.last \in Nat /\ t.first \in Nat /\ t.last \in Nat
  BY <1>2, SegmentFacts, SegmentOrder
<1>4. i \in Nat /\ j \in Nat /\ (i < j => s.last <= t.first) /\ (j < i => t.last <= s.first)
  BY SegmentFacts, SegmentOrder
<1>5. k \in Nat /\ k <= Len(s.blocks) /\ Len(s.blocks) \in Nat /\ DOMAIN s.blocks = 1 .. Len(s.blocks)
      /\ (k # Len(s.blocks) => k + 1 \in DOMAIN s.blocks)
  BY SegmentFacts
<1>6. CASE i = j
  <2>1. l \in DOMAIN s.blocks /\ l \in Nat /\ a = s.blocks[l].at
    BY <1>2, <1>5, <1>6
  <2>2. ~(l <= k)
    <3>1. l < k => s.blocks[l].at < s.blocks[k].at
      BY <2>1, SegmentOrder
    <3> QED
      BY <1>3, <1>5, <2>1, <3>1
  <2>3. k # Len(s.blocks) /\ (l = k + 1 \/ k + 1 < l)
    BY <1>5, <2>1, <2>2
  <2>4. k + 1 < l => s.blocks[k + 1].at < s.blocks[l].at
    BY <1>5, <2>1, <2>3, SegmentOrder
  <2>5. s.blocks[k + 1].at \in Nat
    BY <1>5, <2>3, SegmentFacts
  <2> QED
    BY <1>3, <1>5, <2>1, <2>3, <2>4, <2>5, SMTT(30)
<1>7. CASE i # j
  <2>1. i < j
    BY <1>3, <1>4, <1>7
  <2>2. s.last <= a
    BY <1>3, <1>4, <2>1
  <2>3. k # Len(s.blocks) => s.blocks[k + 1].at < s.last /\ s.blocks[k + 1].at \in Nat
    BY <1>5, SegmentFacts, SegmentOrder
  <2> QED
    BY <1>3, <1>5, <2>2, <2>3
<1> QED
  BY <1>6, <1>7

LEMMA NextSegment ==
  ASSUME NEW d, IsDocument(d), NEW i \in DOMAIN d.segments, i + 1 \in DOMAIN d.segments,
         NEW a, IsStart(d, a), d.segments[i].last <= a
  PROVE  d.segments[i + 1].first <= a
<1>1. PICK j \in DOMAIN d.segments : \E l \in DOMAIN d.segments[j].blocks : a = d.segments[j].blocks[l].at
  BY DEF IsStart
<1>2. PICK l \in DOMAIN d.segments[j].blocks : a = d.segments[j].blocks[l].at
  BY <1>1
<1>3. a \in Nat /\ d.segments[j].first <= a /\ a < d.segments[j].last
  BY <1>2, SegmentFacts, SegmentOrder
<1>4. i \in Nat /\ j \in Nat
  BY SegmentFacts
<1>5. ~(j <= i)
  <2>1. j < i => d.segments[j].last <= d.segments[i].first /\ d.segments[i].first < d.segments[i].last
    BY SegmentOrder
  <2> QED
    BY <1>3, <1>4, <2>1, SegmentFacts
<1>6. j = i + 1 \/ i + 1 < j
  BY <1>4, <1>5
<1>7. i + 1 < j => d.segments[i + 1].last <= d.segments[j].first /\ d.segments[i + 1].first < d.segments[i + 1].last
  BY SegmentOrder
<1> QED
  BY <1>3, <1>4, <1>6, <1>7, SegmentFacts

LEMMA SegmentListing ==
  ASSUME NEW d, IsDocument(d), NEW i \in DOMAIN d.segments, NEW start \in Nat,
         d.segments[i].first <= start, NEW mode, NEW room \in Rooms, NEW lo, NEW x,
         Listing(x, d, lo, d.segments[i].blocks[BlockIndex(d.segments[i], start)].at, room)
  PROVE  Listing(UpdateSegment(x, i, d.segments[i], start, mode, room), d, lo, d.segments[i].last, room)
<1> DEFINE s == d.segments[i]
           from == BlockIndex(s, start)
           L == Len(s.blocks)
           Edge(k) == IF k = from - 1 THEN s.blocks[from].at ELSE s.blocks[k].at + 1
<1>0. x \in Seq(Row)
  BY DEF Listing
<1>1. SegmentListed(UpdateSegment(x, i, s, start, mode, room), x, i, s, from, mode, room)
  BY <1>0, SegmentUnrolls
<1>2. PICK to : SegmentGrows(to, x, i, s, from, mode, room)
                /\ UpdateSegment(x, i, s, start, mode, room) = to[L]
  BY <1>1 DEF SegmentListed
<1>3. from \in 1 .. L /\ L \in Nat /\ DOMAIN s.blocks = 1 .. L /\ s.first \in Nat /\ s.last \in Nat
      /\ \A k \in 1 .. L : s.blocks[k].at \in Nat /\ s.blocks[k].at < s.last /\ IsStart(d, s.blocks[k].at)
  BY BlockIndexIn, SegmentFacts, SegmentOrder, SMTT(30) DEF IsStart
<1> DEFINE T == {k \in from - 1 .. L : Listing(to[k], d, lo, Edge(k), room)}
<1>4. from - 1 \in T
  <2>1. to[from - 1] = IF s.blocks[from].at = s.first THEN SegmentLines(x, i, s, mode) ELSE x
    BY <1>2 DEF SegmentGrows
  <2>2. Edge(from - 1) = s.blocks[from].at /\ from - 1 \in from - 1 .. L
    BY <1>3
  <2>3. CASE s.blocks[from].at = s.first
    <3> DEFINE y == SegmentLines(x, i, s, mode)
    <3>1. Decorates(x, y, s.first) /\ (Len(x) < Len(y) => ~Virtual(y[Len(y)]))
      BY <1>0, <1>3, SegmentLinesDecorate
    <3> HIDE DEF y
    <3>2. Listing(y, d, lo, s.first, room)
      BY <1>3, <2>3, <3>1, ListingDecorated
    <3> QED
      BY <2>1, <2>2, <2>3, <3>1, <3>2 DEF Decorates, y
  <2>4. CASE s.blocks[from].at # s.first
    BY <2>1, <2>2, <2>4
  <2> QED
    BY <2>3, <2>4
<1>5. ASSUME NEW k \in from - 1 .. L, k # from - 1, k - 1 \in T PROVE k \in T
  <2> DEFINE y == to[k - 1]
             a == s.blocks[k].at
  <2>1. k \in from .. L /\ k \in 1 .. L /\ a \in Nat /\ IsStart(d, a)
    BY <1>3, <1>5, SMTT(30)
  <2>2. Listing(y, d, lo, Edge(k - 1), room) /\ y \in Seq(Row)
    BY <1>5 DEF Listing
  <2>3. Listing(y, d, lo, a, room)
    <3>1. CASE k = from
      BY <2>2, <3>1
    <3>2. CASE k # from
      <4>1. k - 1 \in 1 .. L /\ k - 1 # from - 1 /\ k - 1 # L /\ (k - 1) + 1 = k /\ k - 1 < k
        BY <1>3, <2>1, <3>2, SMTT(30)
      <4>2. Edge(k - 1) = s.blocks[k - 1].at + 1 /\ s.blocks[k - 1].at \in Nat
        BY <1>3, <4>1
      <4>3. Edge(k - 1) <= a
        <5>1. s.blocks[k - 1].at < a
          BY <1>3, <2>1, <4>1, SegmentOrder
        <5> QED
          BY <2>1, <4>2, <5>1, SMTT(30)
      <4>4. ASSUME NEW b, IsStart(d, b), Edge(k - 1) <= b PROVE a <= b
        <5>1. b \in Nat /\ s.blocks[k - 1].at < b
          BY <4>2, <4>4, StartAt, SMTT(30)
        <5> QED
          BY <1>3, <4>1, <5>1, <4>4, NextStart
      <4> HIDE DEF Edge, y, a
      <4> QED
        BY <2>1, <2>2, <4>3, <4>4, ListingOn
    <3> QED
      BY <3>1, <3>2
  <2>4. to[k] = IF CanUpdate(y, a, room) THEN BlockLines(y, s, s.blocks[k], mode) ELSE y
    BY <1>2, <2>1 DEF SegmentGrows
  <2>5. Edge(k) = a + 1
    BY <1>5
  <2>6. CASE CanUpdate(y, a, room)
    <3>1. Shows(y, to[k], a)
      BY <2>1, <2>2, <2>4, <2>6, BlockLinesShow, SMTT(30)
    <3>2. Listing(to[k], d, lo, a + 1, room)
      BY <2>1, <2>3, <2>6, <3>1, ListingShown, SMTT(30)
    <3> QED
      BY <2>5, <3>2, SMTT(30)
  <2>7. CASE ~CanUpdate(y, a, room)
    <3>1. Listing(y, d, lo, a + 1, room)
      <4>1. a <= a /\ a <= a + 1 /\ a + 1 \in Nat
        BY <2>1, SMTT(30)
      <4> HIDE DEF a, y
      <4> QED
        BY <2>1, <2>3, <2>7, <4>1, ListingSkips
    <3> QED
      BY <2>2, <2>4, <2>5, <2>7, <3>1
  <2> QED
    BY <2>6, <2>7, SMTT(30)
<1>6. from - 1 .. L \subseteq T
  <2>1. from - 1 \in Int /\ L \in Int
    BY <1>3
  <2> HIDE DEF T, from, L
  <2> QED
    BY <1>4, <1>5, <2>1, General!IntervalInduction
<1>7. Listing(to[L], d, lo, s.blocks[L].at + 1, room)
  <2>1. L \in from - 1 .. L /\ L # from - 1
    <3> HIDE DEF from, L
    <3> QED
      BY <1>3
  <2>2. L \in T
    <3> HIDE DEF T, from, L
    <3> QED
      BY <1>6, <2>1
  <2> QED
    BY <2>1, <2>2
<1>8. Listing(to[L], d, lo, s.last, room)
  <2>1. L \in DOMAIN s.blocks /\ s.blocks[L].at + 1 <= s.last /\ s.blocks[L].at \in Nat
    <3> HIDE DEF from, L, s
    <3> QED
      BY <1>3
  <2>2. ASSUME NEW b, IsStart(d, b), s.blocks[L].at + 1 <= b PROVE s.last <= b
    <3>1. b \in Nat
      BY <2>2, StartAt
    <3>2. s.blocks[L].at < b
      BY <2>1, <2>2, <3>1
    <3> QED
      BY <2>1, <2>2, <3>2, NextStart
  <2> HIDE DEF s, L
  <2> QED
    BY <1>3, <1>7, <2>1, <2>2, ListingOn
<1> QED
  BY <1>2, <1>8

(* What a listing shows, from the block of the address it begins with to    *)
(* the end of the document.                                                 *)
LEMMA DocumentListing ==
  ASSUME NEW d, IsDocument(d), NEW first \in Nat, SegmentOf(d, first) # None, NEW mode,
         NEW room \in Rooms
  PROVE  Listing(UpdateSegments(d, first, mode, room), d, BlockAt(d, first).at, LastAddress(d), room)
<1> DEFINE i0 == SegmentOf(d, first)
           L == Len(d.segments)
           lo == BlockAt(d, first).at
           Edge(i) == IF i = i0 - 1 THEN lo ELSE d.segments[i].last
<1>1. Listed(UpdateSegments(d, first, mode, room), d, i0, first, mode, room)
  BY ListUnrolls
<1>2. PICK to : ListGrows(to, d, i0, first, mode, room) /\ UpdateSegments(d, first, mode, room) = to[L]
  BY <1>1 DEF Listed
<1>3. /\ i0 \in 1 .. L /\ L \in Nat /\ DOMAIN d.segments = 1 .. L /\ i0 - 1 \in Int /\ L \in Int
      /\ InSegment(d.segments[i0], first)
  BY SegmentOfIn, SegmentFacts
<1>4. /\ lo \in Nat /\ lo = d.segments[i0].blocks[BlockIndex(d.segments[i0], first)].at
      /\ d.segments[i0].first <= lo /\ lo < d.segments[i0].last
  BY BlockAtIn, SegmentOrder
<1>5. \A i \in 1 .. L : d.segments[i].first \in Nat /\ d.segments[i].last \in Nat
  BY <1>3, SegmentFacts
<1> HIDE DEF i0, L, lo
<1> DEFINE T == {i \in i0 - 1 .. L : Listing(to[i], d, lo, Edge(i), room)}
<1>6. i0 - 1 \in T
  <2>1. to[i0 - 1] = <<>> /\ i0 - 1 \in i0 - 1 .. L /\ Edge(i0 - 1) = lo
    BY <1>2, <1>3 DEF ListGrows
  <2>2. Listing(<<>>, d, lo, lo, room)
    <3>1. <<>> \in Seq(Row) /\ Len(<<>>) = 0 /\ 1 .. 0 = {}
      OBVIOUS
    <3>2. Shown(<<>>) = {}
      BY <3>1 DEF Shown
    <3>3. \A a : ~(IsStart(d, a) /\ lo <= a /\ a < lo)
      BY <1>4, StartAt
    <3> QED
      BY <1>4, <3>1, <3>2, <3>3 DEF Listing, Anchored, Ordered, Within, Covers
  <2> QED
    BY <2>1, <2>2
<1>7. ASSUME NEW i \in i0 - 1 .. L, i # i0 - 1, i - 1 \in T PROVE i \in T
  <2> DEFINE y == to[i - 1]
             s == d.segments[i]
             c == d.segments[IF i = i0 THEN i ELSE i - 1].first
             start == StartIn(s, first)
             b == s.blocks[BlockIndex(s, start)].at
  <2>1. i \in i0 .. L /\ i \in 1 .. L /\ i \in DOMAIN d.segments /\ s.first \in Nat /\ s.last \in Nat
        /\ (i # i0 => i - 1 \in 1 .. L /\ i - 1 \in i0 - 1 .. L /\ i - 1 # i0 - 1 /\ i - 1 < i /\ (i - 1) + 1 = i)
    BY <1>3, <1>5, <1>7
  <2>2. Listing(y, d, lo, Edge(i - 1), room)
    BY <1>7
  <2>3. Edge(i) = s.last
    BY <1>7
  <2>4. start \in Nat /\ s.first <= start /\ b \in Nat /\ b < s.last
    <3>1. start \in Nat /\ s.first <= start
      BY <2>1, StartInSegment
    <3>2. BlockIndex(s, start) \in DOMAIN s.blocks
      BY <2>1, <3>1, BlockIndexIn
    <3> QED
      BY <2>1, <3>1, <3>2, SegmentFacts, SegmentOrder
  <2>5. Listing(y, d, lo, b, room) /\ c \in Nat /\ c <= b
    <3>1. CASE i = i0
      <4>1. start = first
        BY <1>3, <3>1 DEF StartIn
      <4>2. b = lo
        BY <1>4, <3>1, <4>1
      <4> QED
        BY <1>4, <2>1, <2>2, <3>1, <4>2
    <3>2. CASE i # i0
      <4>1. d.segments[i0].last <= d.segments[i - 1].last /\ d.segments[i - 1].last <= s.first
            /\ d.segments[i - 1].first <= s.first
        <5>1. i0 = i - 1 \/ i0 < i - 1
          BY <1>3, <2>1, <3>2
        <5>2. i0 < i - 1 => d.segments[i0].last <= d.segments[i - 1].first
          BY <1>3, <2>1, <3>2, SegmentOrder
        <5>3. d.segments[i - 1].first < d.segments[i - 1].last /\ d.segments[i - 1].last <= s.first
          BY <1>3, <2>1, <3>2, SegmentOrder
        <5>4. /\ d.segments[i - 1].first \in Nat /\ d.segments[i - 1].last \in Nat
              /\ d.segments[i0].last \in Nat
          BY <1>3, <1>5, <2>1, <3>2
        <5>5. d.segments[i0].last <= d.segments[i - 1].last
          <6>1. CASE i0 = i - 1
            BY <5>4, <6>1
          <6>2. CASE i0 < i - 1
            BY <5>2, <5>3, <5>4, <6>2
          <6> QED
            BY <5>1, <6>1, <6>2
        <5> QED
          BY <2>1, <5>3, <5>4, <5>5
      <4>2. start = s.first
        <5>1. ~InSegment(s, first)
          BY <1>3, <1>5, <2>1, <3>2, <4>1, SMTT(30) DEF InSegment
        <5> QED
          BY <5>1 DEF StartIn
      <4>3. b = s.first
        <5>1. s.blocks[1].at = s.first /\ 1 \in DOMAIN s.blocks
          BY <2>1, SegmentOrder, SegmentFacts
        <5>2. BlockIndex(s, s.first) = 1
          BY <2>1, <5>1, BlockIndexThat
        <5> QED
          BY <4>2, <5>1, <5>2
      <4>4. Edge(i - 1) = d.segments[i - 1].last
        BY <2>1, <3>2
      <4>5. ASSUME NEW a, IsStart(d, a), Edge(i - 1) <= a PROVE s.first <= a
        BY <1>3, <2>1, <3>2, <4>4, <4>5, NextSegment
      <4>6. Listing(y, d, lo, s.first, room)
        <5> HIDE DEF y, Edge, s
        <5> QED
          BY <2>1, <2>2, <4>1, <4>4, <4>5, ListingOn
      <4>7. c = d.segments[i - 1].first
        BY <3>2
      <4> QED
        BY <1>5, <2>1, <3>2, <4>1, <4>3, <4>6, <4>7
    <3> QED
      BY <3>1, <3>2, SMTT(30)
  <2>6. to[i] = IF CanUpdate(y, c, room) THEN UpdateSegment(y, i, s, start, mode, room) ELSE y
    BY <1>2, <2>1 DEF ListGrows, L
  <2>7. CASE CanUpdate(y, c, room)
    <3>1. Listing(UpdateSegment(y, i, s, start, mode, room), d, lo, s.last, room)
      BY <2>1, <2>4, <2>5, SegmentListing
    <3> QED
      BY <2>3, <2>6, <2>7, <3>1
  <2>8. CASE ~CanUpdate(y, c, room)
    <3>1. b <= s.last
      BY <2>1, <2>4
    <3>2. Listing(y, d, lo, s.last, room)
      <4> HIDE DEF y, c, b
      <4> QED
        BY <2>1, <2>4, <2>5, <2>8, <3>1, ListingSkips
    <3> QED
      BY <2>3, <2>6, <2>8, <3>2
  <2> QED
    BY <2>7, <2>8
<1>8. i0 - 1 .. L \subseteq T
  <2> HIDE DEF T
  <2> QED
    BY <1>3, <1>6, <1>7, General!IntervalInduction
<1>9. L \in i0 - 1 .. L /\ L # i0 - 1
  BY <1>3
<1>10. Listing(to[L], d, lo, d.segments[L].last, room)
  BY <1>8, <1>9
<1> QED
  BY <1>2, <1>10 DEF LastAddress, lo, L

(* More room only makes more rows.                                          *)
Begins(x, y, n) ==
  x \in Seq(Row) /\ y \in Seq(Row) /\ Extends(x, y) /\ (Len(x) < n => x = y)

Room(n) == [counts |-> "rows", limit |-> n]

LEMMA RoomFor ==
  ASSUME NEW n \in Nat, NEW x \in Seq(Row), NEW a
  PROVE  Room(n) \in Rooms /\ (CanUpdate(x, a, Room(n)) <=> Len(x) < n)
BY DEF Room, Rooms, CanUpdate

LEMMA SegmentBegins ==
  ASSUME NEW d, IsDocument(d), NEW i \in DOMAIN d.segments, NEW x \in Seq(Row),
         NEW start \in Nat, d.segments[i].first <= start, NEW mode,
         NEW n \in Nat, NEW m \in Nat, n <= m
  PROVE  Begins(UpdateSegment(x, i, d.segments[i], start, mode, Room(n)),
                UpdateSegment(x, i, d.segments[i], start, mode, Room(m)), n)
<1> DEFINE s == d.segments[i]
           from == BlockIndex(s, start)
           L == Len(s.blocks)
<1>0. /\ SegmentListed(UpdateSegment(x, i, s, start, mode, Room(n)), x, i, s, from, mode, Room(n))
      /\ SegmentListed(UpdateSegment(x, i, s, start, mode, Room(m)), x, i, s, from, mode, Room(m))
  BY SegmentUnrolls
<1>1. PICK f : /\ SegmentGrows(f, x, i, s, from, mode, Room(n))
               /\ UpdateSegment(x, i, s, start, mode, Room(n)) = f[L]
  BY <1>0 DEF SegmentListed
<1>2. PICK g : /\ SegmentGrows(g, x, i, s, from, mode, Room(m))
               /\ UpdateSegment(x, i, s, start, mode, Room(m)) = g[L]
  BY <1>0 DEF SegmentListed
<1>3. from \in 1 .. L /\ L \in Nat /\ \A k \in 1 .. L : s.blocks[k].at \in Nat
  BY BlockIndexIn, SegmentFacts
<1> HIDE DEF from, L, s
<1>4. from - 1 \in Int /\ L \in Int /\ from - 1 \in from - 1 .. L /\ L \in from - 1 .. L
      /\ \A k \in from - 1 .. L : k # from - 1 =>
           k \in from .. L /\ k \in 1 .. L /\ k - 1 \in from - 1 .. L
  BY <1>3
<1>5. f \in [from - 1 .. L -> Seq(Row)] /\ g \in [from - 1 .. L -> Seq(Row)]
  BY <1>1, <1>2 DEF SegmentGrows, L
<1> DEFINE T == {k \in from - 1 .. L : Begins(f[k], g[k], n)}
<1>6. from - 1 \in T
  <2>1. f[from - 1] = g[from - 1]
    BY <1>1, <1>2 DEF SegmentGrows
  <2>2. f[from - 1] \in Seq(Row)
    BY <1>4, <1>5
  <2> QED
    BY <1>4, <2>1, <2>2 DEF Begins, Extends
<1>7. ASSUME NEW k \in from - 1 .. L, k # from - 1, k - 1 \in T PROVE k \in T
  <2> DEFINE y == f[k - 1]
             z == g[k - 1]
             More(r) == BlockLines(r, s, s.blocks[k], mode)
  <2>1. y \in Seq(Row) /\ z \in Seq(Row) /\ Begins(y, z, n) /\ k \in from .. L /\ k \in 1 .. L
    BY <1>4, <1>5, <1>7
  <2>2. ASSUME NEW r \in Seq(Row) PROVE More(r) \in Seq(Row) /\ Extends(r, More(r))
    BY <1>3, <2>1, <2>2, BlockLinesShow DEF Shows
  <2>3. /\ f[k] = IF Len(y) < n THEN More(y) ELSE y
        /\ g[k] = IF Len(z) < m THEN More(z) ELSE z
    BY <1>1, <1>2, <2>1, RoomFor DEF SegmentGrows, L
  <2>4. Len(y) \in Nat /\ Len(z) \in Nat
    BY <2>1
  <2>5. CASE Len(y) < n
    <3>1. y = z /\ Len(z) < m
      BY <2>1, <2>4, <2>5 DEF Begins
    <3>2. f[k] = g[k] /\ f[k] \in Seq(Row)
      BY <2>1, <2>2, <2>3, <2>5, <3>1
    <3> QED
      BY <3>2 DEF Begins, Extends
  <2>6. CASE ~(Len(y) < n)
    <3>1. Extends(z, g[k]) /\ g[k] \in Seq(Row)
      <4>1. Extends(z, z)
        BY <2>4 DEF Extends
      <4> HIDE DEF z, More
      <4> QED
        BY <2>1, <2>2, <2>3, <4>1
    <3>2. f[k] = y /\ Extends(y, z)
      BY <2>1, <2>3, <2>6 DEF Begins
    <3>3. Extends(f[k], g[k])
      BY <2>1, <3>1, <3>2, Grow
    <3> QED
      BY <2>1, <2>6, <3>1, <3>2, <3>3 DEF Begins
  <2> QED
    BY <2>5, <2>6
<1>8. from - 1 .. L \subseteq T
  <2> HIDE DEF T
  <2> QED
    BY <1>4, <1>6, <1>7, General!IntervalInduction
<1>9. Begins(f[L], g[L], n)
  BY <1>4, <1>8
<1> QED
  BY <1>1, <1>2, <1>9 DEF s

LEMMA RowsBegin ==
  ASSUME NEW d, IsDocument(d), NEW first \in Nat, SegmentOf(d, first) # None, NEW mode,
         NEW n \in Nat, NEW m \in Nat, n <= m
  PROVE  Begins(RowsOfSize(d, first, n, mode), RowsOfSize(d, first, m, mode), n)
<1> DEFINE i0 == SegmentOf(d, first)
           L == Len(d.segments)
           R(k) == UpdateSegments(d, first, mode, Room(k))
<1>0. \A k \in Nat : RowsOfSize(d, first, k, mode) = R(k)
  BY DEF RowsOfSize, Room
<1>1. Listed(R(n), d, i0, first, mode, Room(n)) /\ Listed(R(m), d, i0, first, mode, Room(m))
  BY ListUnrolls
<1>2. PICK f : ListGrows(f, d, i0, first, mode, Room(n)) /\ R(n) = f[L]
  BY <1>1 DEF Listed
<1>3. PICK g : ListGrows(g, d, i0, first, mode, Room(m)) /\ R(m) = g[L]
  BY <1>1 DEF Listed
<1>4. i0 \in 1 .. L /\ L \in Nat /\ DOMAIN d.segments = 1 .. L
  BY SegmentOfIn, SegmentFacts
<1> HIDE DEF i0, L, R
<1>5. i0 - 1 \in Int /\ L \in Int /\ i0 - 1 \in i0 - 1 .. L /\ L \in i0 - 1 .. L
      /\ \A k \in i0 - 1 .. L : k # i0 - 1 =>
           k \in i0 .. L /\ k \in DOMAIN d.segments /\ k - 1 \in i0 - 1 .. L
  BY <1>4
<1>6. f \in [i0 - 1 .. L -> Seq(Row)] /\ g \in [i0 - 1 .. L -> Seq(Row)]
  BY <1>2, <1>3 DEF ListGrows, L
<1> DEFINE T == {k \in i0 - 1 .. L : Begins(f[k], g[k], n)}
<1>7. i0 - 1 \in T
  <2>1. f[i0 - 1] = g[i0 - 1] /\ f[i0 - 1] \in Seq(Row)
    BY <1>2, <1>3, <1>5, <1>6 DEF ListGrows
  <2> QED
    BY <1>5, <2>1 DEF Begins, Extends
<1>8. ASSUME NEW k \in i0 - 1 .. L, k # i0 - 1, k - 1 \in T PROVE k \in T
  <2> DEFINE y == f[k - 1]
             z == g[k - 1]
             start == StartIn(d.segments[k], first)
             More(r, l) == UpdateSegment(r, k, d.segments[k], start, mode, Room(l))
  <2>1. y \in Seq(Row) /\ z \in Seq(Row) /\ Begins(y, z, n) /\ k \in i0 .. L /\ k \in DOMAIN d.segments
    BY <1>5, <1>6, <1>8
  <2>2. start \in Nat /\ d.segments[k].first <= start
    BY <2>1, StartInSegment
  <2>3. ASSUME NEW r \in Seq(Row), NEW l PROVE More(r, l) \in Seq(Row) /\ Extends(r, More(r, l))
    BY <2>1, <2>2, <2>3, SegmentRows
  <2>4. ASSUME NEW r \in Seq(Row) PROVE Begins(More(r, n), More(r, m), n)
    BY <2>1, <2>2, <2>4, SegmentBegins
  <2>5. /\ f[k] = IF Len(y) < n THEN More(y, n) ELSE y
        /\ g[k] = IF Len(z) < m THEN More(z, m) ELSE z
    BY <1>2, <1>3, <2>1, RoomFor DEF ListGrows, L
  <2>6. Len(y) \in Nat /\ Len(z) \in Nat
    BY <2>1
  <2>7. CASE Len(y) < n
    <3>1. y = z /\ Len(z) < m
      BY <2>1, <2>6, <2>7 DEF Begins
    <3> HIDE DEF More
    <3>2. f[k] = More(y, n) /\ g[k] = More(y, m)
      BY <2>5, <2>7, <3>1
    <3>3. Begins(f[k], g[k], n)
      BY <2>1, <2>4, <3>2
    <3> QED
      BY <3>3
  <2>8. CASE ~(Len(y) < n)
    <3>1. Extends(z, g[k]) /\ g[k] \in Seq(Row)
      <4>1. Extends(z, z)
        BY <2>6 DEF Extends
      <4> HIDE DEF z, More
      <4> QED
        BY <2>1, <2>3, <2>5, <4>1
    <3>2. f[k] = y /\ Extends(y, z)
      BY <2>1, <2>5, <2>8 DEF Begins
    <3>3. Extends(f[k], g[k])
      BY <2>1, <3>1, <3>2, Grow
    <3> QED
      BY <2>1, <2>8, <3>1, <3>2, <3>3 DEF Begins
  <2> QED
    BY <2>7, <2>8
<1>9. i0 - 1 .. L \subseteq T
  <2> HIDE DEF T
  <2> QED
    BY <1>5, <1>7, <1>8, General!IntervalInduction
<1>10. Begins(f[L], g[L], n)
  BY <1>5, <1>9
<1> QED
  BY <1>0, <1>2, <1>3, <1>10
-----------------------------------------------------------------------------
(* What the rows of a surface are: of a size, or of a range.                *)
MadeBy(x, d, first, size, mode) == x = RowsOfSize(d, first, size, mode)

MadeOfRange(x, d, first, mode) == \E second \in Nat : x = RowsOfRange(d, first, second, mode)

(* Outside the segments there is nothing to show. *)
LEMMA NothingShown ==
  ASSUME NEW d, NEW first, SegmentOf(d, first) = None, NEW mode, NEW n, NEW second
  PROVE  RowsOfSize(d, first, n, mode) = <<>> /\ RowsOfRange(d, first, second, mode) = <<>>
BY DEF RowsOfSize, RowsOfRange, UpdateSegments

(* The block at the top is shown, if there is room for it. *)
LEMMA TopShown ==
  ASSUME NEW d, IsDocument(d), NEW first \in Nat, SegmentOf(d, first) # None, NEW room, NEW x,
         Listing(x, d, BlockAt(d, first).at, LastAddress(d), room),
         CanUpdate(<<>>, BlockAt(d, first).at, room)
  PROVE  x # <<>>
<1> DEFINE lo == BlockAt(d, first).at
<1>1. IsStart(d, lo) /\ lo < LastAddress(d)
  <2>1. lo = BlockAt(d, first).at /\ IsStart(d, lo)
    BY AtStarts
  <2> DEFINE i == SegmentOf(d, first)
             L == Len(d.segments)
  <2>2. i \in DOMAIN d.segments /\ L \in DOMAIN d.segments /\ i \in Nat /\ L \in Nat /\ i <= L
    BY SegmentOfIn, SegmentFacts
  <2>3. lo < d.segments[i].last /\ lo \in Nat
    BY BlockAtIn, SegmentOrder
  <2>4. i < L => d.segments[i].last <= d.segments[L].first /\ d.segments[L].first < d.segments[L].last
    BY <2>2, SegmentOrder
  <2>5. d.segments[i].last \in Nat /\ d.segments[L].first \in Nat /\ d.segments[L].last \in Nat
    BY <2>2, SegmentFacts
  <2> HIDE DEF i, L, lo
  <2>6. lo < d.segments[L].last
    BY <2>2, <2>3, <2>4, <2>5
  <2> QED
    BY <2>1, <2>6 DEF LastAddress, L
<1> SUFFICES ASSUME x = <<>> PROVE FALSE
  OBVIOUS
<1>2. Shown(x) = {}
  BY DEF Shown
<1>3. lo <= lo /\ lo \in Nat
  BY DEF Listing
<1> HIDE DEF lo
<1>4. Left(x, lo, room)
  BY <1>1, <1>2, <1>3 DEF Listing, Covers, lo
<1> QED
  BY <1>4 DEF Left, lo

LEMMA SizeListing ==
  ASSUME NEW d, IsDocument(d), NEW first \in Nat, SegmentOf(d, first) # None, NEW mode,
         NEW n \in Nat
  PROVE  /\ Listing(RowsOfSize(d, first, n, mode), d, BlockAt(d, first).at, LastAddress(d), Room(n))
         /\ n # 0 => RowsOfSize(d, first, n, mode) # <<>>
<1> DEFINE x == RowsOfSize(d, first, n, mode)
           lo == BlockAt(d, first).at
<1>1. Listing(x, d, lo, LastAddress(d), Room(n))
  <2>1. Room(n) \in Rooms
    BY DEF Room, Rooms
  <2> QED
    BY <2>1, DocumentListing DEF RowsOfSize, Room
<1>2. n # 0 => x # <<>>
  <2>1. n # 0 => CanUpdate(<<>>, lo, Room(n))
    BY DEF CanUpdate, Room
  <2> HIDE DEF x
  <2> QED
    BY <1>1, <2>1, TopShown
<1> QED
  BY <1>1, <1>2

LEMMA RangeListing ==
  ASSUME NEW d, IsDocument(d), NEW first \in Nat, SegmentOf(d, first) # None, NEW mode,
         NEW second \in Nat
  PROVE  /\ \E room \in Rooms :
              Listing(RowsOfRange(d, first, second, mode), d, BlockAt(d, first).at, LastAddress(d), room)
         /\ BlockAt(d, first).at <= second => RowsOfRange(d, first, second, mode) # <<>>
<1> DEFINE room == [counts |-> "addresses", limit |-> second]
<1>1. room \in Rooms
  BY DEF Rooms
<1>2. Listing(RowsOfRange(d, first, second, mode), d, BlockAt(d, first).at, LastAddress(d), room)
  BY <1>1, DocumentListing DEF RowsOfRange
<1>3. CanUpdate(<<>>, BlockAt(d, first).at, room) <=> BlockAt(d, first).at <= second
  BY DEF CanUpdate
<1> HIDE DEF room
<1> QED
  BY <1>1, <1>2, <1>3, TopShown

(* Every start is one of those before the end. *)
LEMMA StartsAre ==
  ASSUME NEW d, IsDocument(d), NEW a
  PROVE  a \in StartsOf(d) <=> IsStart(d, a)
<1>1. Range(d.segments) = {d.segments[i] : i \in DOMAIN d.segments}
  BY DEF Range
<1>2. ASSUME NEW i \in DOMAIN d.segments
      PROVE  Range(d.segments[i].blocks) = {d.segments[i].blocks[k] : k \in DOMAIN d.segments[i].blocks}
  BY DEF Range
<1>3. ASSUME a \in StartsOf(d) PROVE IsStart(d, a)
  <2>1. PICK b \in UNION {Range(s.blocks) : s \in Range(d.segments)} : a = b.at
    BY <1>3 DEF StartsOf
  <2>2. PICK s \in Range(d.segments) : b \in Range(s.blocks)
    BY <2>1
  <2>3. PICK i \in DOMAIN d.segments : s = d.segments[i]
    BY <1>1, <2>2
  <2>4. PICK k \in DOMAIN d.segments[i].blocks : b = d.segments[i].blocks[k]
    BY <1>2, <2>2, <2>3
  <2> QED
    BY <2>1, <2>4 DEF IsStart
<1>4. ASSUME IsStart(d, a) PROVE a \in StartsOf(d)
  <2>1. PICK i \in DOMAIN d.segments : \E k \in DOMAIN d.segments[i].blocks : a = d.segments[i].blocks[k].at
    BY <1>4 DEF IsStart
  <2>2. PICK k \in DOMAIN d.segments[i].blocks : a = d.segments[i].blocks[k].at
    BY <2>1
  <2>3. d.segments[i] \in Range(d.segments) /\ d.segments[i].blocks[k] \in Range(d.segments[i].blocks)
    BY <1>1, <1>2
  <2>4. d.segments[i].blocks[k] \in UNION {Range(s.blocks) : s \in Range(d.segments)}
    BY <2>3
  <2> QED
    BY <2>2, <2>4 DEF StartsOf
<1> QED
  BY <1>3, <1>4

LEMMA StartBelowEnd ==
  ASSUME NEW d, IsDocument(d), NEW a, IsStart(d, a)
  PROVE  a < LastAddress(d) /\ LastAddress(d) \in Nat
<1>1. PICK i \in DOMAIN d.segments : \E k \in DOMAIN d.segments[i].blocks : a = d.segments[i].blocks[k].at
  BY DEF IsStart
<1>2. PICK k \in DOMAIN d.segments[i].blocks : a = d.segments[i].blocks[k].at
  BY <1>1
<1> DEFINE L == Len(d.segments)
<1>3. L \in DOMAIN d.segments /\ i \in Nat /\ L \in Nat /\ i <= L
  BY SegmentFacts
<1>4. a \in Nat /\ a < d.segments[i].last
  BY <1>2, SegmentFacts, SegmentOrder
<1>5. i < L => d.segments[i].last <= d.segments[L].first /\ d.segments[L].first < d.segments[L].last
  BY <1>3, SegmentOrder
<1>6. d.segments[i].last \in Nat /\ d.segments[L].first \in Nat /\ d.segments[L].last \in Nat
  BY <1>3, SegmentFacts
<1> HIDE DEF L
<1>7. a < d.segments[L].last
  BY <1>3, <1>4, <1>5, <1>6
<1> QED
  BY <1>6, <1>7 DEF LastAddress, L

(* The rows of a listing follow the document. *)
LEMMA ListingFollows ==
  ASSUME NEW d, IsDocument(d), NEW lo, NEW room, NEW size, NEW x,
         Listing(x, d, lo, LastAddress(d), room),
         \/ Len(x) >= size
         \/ size \in Nat /\ room = Room(size)
  PROVE  LET shown == {i \in DOMAIN x : x[i].text = "block"}
             rest == {a \in StartsOf(d) : a >= lo}
         IN  /\ {x[i].address : i \in shown} \subseteq rest
             /\ \A i \in shown : \A a \in rest : a <= x[i].address =>
                  \E j \in shown : x[j].address = a
             /\ \A i, j \in shown : i < j => x[i].address < x[j].address
             /\ Len(x) >= size \/ \A a \in rest : \E j \in shown : x[j].address = a
             /\ \A i, j \in DOMAIN x : i < j => x[i].address <= x[j].address
<1> DEFINE shown == {i \in DOMAIN x : x[i].text = "block"}
           rest == {a \in StartsOf(d) : a >= lo}
<1>1. x \in Seq(Row) /\ DOMAIN x = 1 .. Len(x) /\ shown = Shown(x) /\ lo \in Nat /\ Len(x) \in Nat
      /\ \A i \in 1 .. Len(x) : x[i].address \in Nat
  BY RowTypes DEF Listing, Shown
<1>2. \A a : a \in rest <=> IsStart(d, a) /\ lo <= a /\ a < LastAddress(d)
  <2>1. \A a : IsStart(d, a) => a \in Nat
    BY StartAt
  <2> QED
    BY <1>1, <2>1, StartsAre, StartBelowEnd
<1>3. \A i \in Shown(x) : i \in 1 .. Len(x) /\ x[i].address \in rest
  <2>1. \A i \in Shown(x) : i \in 1 .. Len(x)
    BY DEF Shown
  <2> QED
    BY <1>2, <2>1 DEF Listing, Within
<1> HIDE DEF rest
<1>4. ASSUME NEW a \in rest PROVE (\E j \in Shown(x) : x[j].address = a) \/ Left(x, a, room)
  BY <1>2 DEF Listing, Covers
<1>5. ASSUME NEW i \in Shown(x), NEW a \in rest, a <= x[i].address
      PROVE  \E j \in Shown(x) : x[j].address = a
  <2>1. a \in Nat /\ x[i].address \in Nat
    BY <1>1, <1>2, <1>3, StartAt
  <2>2. ~Left(x, a, room)
    BY <1>5, <2>1 DEF Left
  <2> QED
    BY <1>4, <2>2
<1>6. Len(x) >= size \/ \A a \in rest : \E j \in Shown(x) : x[j].address = a
  <2> SUFFICES ASSUME size \in Nat, room = Room(size), ~(Len(x) >= size), NEW a \in rest
               PROVE  ~Left(x, a, room)
    BY <1>4
  <2> QED
    BY <1>1, RoomFor DEF Left
<1>7. /\ \A i, j \in 1 .. Len(x) : i < j => x[i].address <= x[j].address
      /\ \A i, j \in Shown(x) : i < j => x[i].address < x[j].address
  BY DEF Listing, Ordered
<1>8. {x[i].address : i \in Shown(x)} \subseteq rest
  BY <1>3
<1> HIDE DEF shown
<1>9. /\ {x[i].address : i \in shown} \subseteq rest
      /\ \A i \in shown : \A a \in rest : a <= x[i].address => \E j \in shown : x[j].address = a
      /\ \A i, j \in shown : i < j => x[i].address < x[j].address
      /\ Len(x) >= size \/ \A a \in rest : \E j \in shown : x[j].address = a
      /\ \A i, j \in DOMAIN x : i < j => x[i].address <= x[j].address
  BY <1>1, <1>5, <1>6, <1>7, <1>8
<1> QED
  BY <1>9 DEF shown, rest
-----------------------------------------------------------------------------
LEMMA LastIndexIn ==
  ASSUME NEW x \in Seq(Row), NEW a
  PROVE  /\ LastIndexOf(x, a) \in 0 .. Len(x)
         /\ Anchored(x) /\ (\E i \in 1 .. Len(x) : x[i].address = a) => LastIndexOf(x, a) # 0
<1> DEFINE S == {i \in DOMAIN x : x[i].address = a /\ ~Virtual(x[i])}
<1>1. S \in SUBSET (0 .. Len(x)) /\ 0 \notin S /\ Len(x) \in Nat
  OBVIOUS
<1>2. S # {} => Greatest(S) \in S
  <2> HIDE DEF S
  <2> QED
    BY <1>1, GreatestIn
<1>3. LastIndexOf(x, a) = IF S = {} THEN 0 ELSE Greatest(S)
  BY DEF LastIndexOf
<1>4. ASSUME Anchored(x), NEW i \in 1 .. Len(x), x[i].address = a PROVE S # {}
  <2>1. PICK j \in 1 .. Len(x) : x[j].address = x[i].address /\ ~Virtual(x[j])
    BY <1>4 DEF Anchored
  <2>2. j \in S
    BY <1>4, <2>1
  <2> QED
    BY <2>2
<1> HIDE DEF S
<1>5. LastIndexOf(x, a) \in 0 .. Len(x)
  <2>1. 0 \in 0 .. Len(x)
    BY <1>1
  <2> QED
    BY <1>1, <1>2, <1>3, <2>1, Zenon
<1>6. ASSUME Anchored(x), \E i \in 1 .. Len(x) : x[i].address = a PROVE LastIndexOf(x, a) # 0
  <2>1. S # {}
    BY <1>4, <1>6
  <2> QED
    BY <1>1, <1>2, <1>3, <2>1
<1> QED
  BY <1>5, <1>6

PathTypes == [from : Nat, to : Nat]

LEMMA PathsTyped ==
  ASSUME NEW d, NEW x \in Seq(Row), NEW n \in Nat
  PROVE  Paths(d, x, n) \in SUBSET PathTypes
<1>1. ASSUME NEW a, NEW b PROVE Path(x, n, a, b) \in PathTypes
  <2>1. LastIndexOf(x, a) \in Nat /\ LastIndexOf(x, b) \in Nat /\ n + 2 \in Nat
    BY LastIndexIn
  <2> QED
    BY <2>1 DEF Path, PathTypes
<1> QED
  BY <1>1 DEF Paths

(* The paths between rows are the branches between them. *)
LEMMA PathsAre ==
  ASSUME NEW d, IsDocument(d), NEW x \in Seq(Row), Anchored(x), NEW n \in Nat
  PROVE  LET seen == {x[i].address : i \in 1 .. Smaller(n, Len(x))}
             drawn(l) == [from |-> LastIndexOf(x, l[1]), to |-> LastIndexOf(x, l[2])]
         IN  /\ \A l \in d.jumps :
                  /\ l[1] # l[2] /\ {l[1], l[2]} \subseteq seen
                  /\ "Location" \in FlagsOf(d, l[2]) \/ "Location" \notin FlagsOf(d, l[1])
                  /\ "Imported" \notin FlagsOf(d, l[1]) \cup FlagsOf(d, l[2])
                  => drawn(l) \in Paths(d, x, n)
             /\ \A p \in Paths(d, x, n) : {p.from, p.to} \subseteq 1 .. Smaller(n, Len(x)) =>
                  \E l \in d.jumps \cup d.calls : drawn(l) = p
<1> DEFINE size == Smaller(n, Len(x))
           seen == {x[i].address : i \in 1 .. size}
           drawn(l) == [from |-> LastIndexOf(x, l[1]), to |-> LastIndexOf(x, l[2])]
<1>1. size \in Nat /\ size <= n /\ size <= Len(x) /\ Len(x) \in Nat
  BY DEF Smaller
<1>2. ASSUME NEW l, l[2] \in seen PROVE Path(x, n, l[1], l[2]) = drawn(l)
  <2>1. PICK i \in 1 .. size : x[i].address = l[2]
    BY <1>2
  <2>2. LastIndexOf(x, l[2]) # 0
    BY <1>1, <2>1, LastIndexIn
  <2> QED
    BY <2>2 DEF Path
<1>3. ASSUME NEW l \in d.jumps,
             l[1] # l[2], l[1] \in seen, l[2] \in seen,
             "Location" \in FlagsOf(d, l[2]) \/ "Location" \notin FlagsOf(d, l[1]),
             "Imported" \notin FlagsOf(d, l[1]) \cup FlagsOf(d, l[2])
      PROVE  drawn(l) \in Paths(d, x, n)
  <2>1. PICK a \in {l[1], l[2]} : l \in PathsOf(d, a)
    <3>1. CASE "Location" \in FlagsOf(d, l[2])
      BY <1>3, <3>1 DEF PathsOf
    <3>2. CASE "Location" \notin FlagsOf(d, l[1])
      BY <1>3, <3>2 DEF PathsOf
    <3> QED
      BY <1>3, <3>1, <3>2
  <2>2. PICK i \in 1 .. size : x[i].address = a
    BY <1>3, <2>1
  <2>3. Path(x, n, l[1], l[2]) \in {Path(x, n, k[1], k[2]) : k \in PathsOf(d, x[i].address)}
    BY <2>1, <2>2
  <2>4. Path(x, n, l[1], l[2]) \in Paths(d, x, n)
    BY <2>2, <2>3 DEF Paths
  <2> QED
    BY <1>2, <1>3, <2>4
<1>4. ASSUME NEW p \in Paths(d, x, n), p.from \in 1 .. size, p.to \in 1 .. size
      PROVE  \E l \in d.jumps \cup d.calls : drawn(l) = p
  <2>1. PICK i \in 1 .. size : p \in {Path(x, n, k[1], k[2]) : k \in PathsOf(d, x[i].address)}
    BY DEF Paths
  <2>2. PICK l \in PathsOf(d, x[i].address) : p = Path(x, n, l[1], l[2])
    BY <2>1
  <2>3. l \in d.jumps \cup d.calls
    BY DEF PathsOf
  <2>4. LastIndexOf(x, l[2]) # 0
    <3>1. p.to = IF LastIndexOf(x, l[2]) # 0 THEN LastIndexOf(x, l[2]) ELSE IF l[2] < l[1] THEN 0 ELSE n + 2
      BY <2>2 DEF Path
    <3> QED
      BY <1>1, <1>4, <3>1
  <2>5. p = drawn(l)
    BY <2>2, <2>4 DEF Path
  <2> QED
    BY <2>3, <2>5
<1> QED
  BY <1>3, <1>4
-----------------------------------------------------------------------------
(* A view, and what the operators that update it make of it.                *)
Names == DOMAIN Documents
View == [first : Nat, second : Nat, size : Nat, rows : Seq(Row), row : Nat \ {0},
         anchor : Nat \ {0}, cursor : {"stays", "follows"}, paths : SUBSET PathTypes,
         drawn : Names, sized : Names \cup {NoDocument}, placed : Names \cup {NoDocument}]

Completes(w, v, a, d, b) ==
  /\ w.cursor = "stays" /\ w.drawn = d
  /\ w.paths = IF b THEN v.paths ELSE Paths(Documents[d], v.rows, v.size)
  /\ v.row = v.anchor => w.row = w.anchor
  /\ w.placed \in {d, NoDocument}
  /\ w.placed = d =>
       \/ w.anchor \in DOMAIN v.rows /\ v.rows[w.anchor].address = a
       \/ v.cursor = "stays" /\ v.placed = d /\ w.anchor = v.anchor

LEMMA CompletedIs ==
  ASSUME NEW v \in View, NEW a, NEW d \in Names, NEW b \in BOOLEAN, d # NoDocument
  PROVE  /\ Completed(v, a, d, b) \in View /\ Completes(Completed(v, a, d, b), v, a, d, b)
         /\ Completed(v, a, d, b).first = v.first /\ Completed(v, a, d, b).second = v.second
         /\ Completed(v, a, d, b).size = v.size /\ Completed(v, a, d, b).rows = v.rows
<1> DEFINE hits == {i \in DOMAIN v.rows : v.rows[i].address = a}
           at == IF v.cursor = "follows" /\ hits # {} THEN Greatest(hits) ELSE 0
           row == IF at # 0 THEN at ELSE v.row
           anchor == IF at # 0 THEN at ELSE v.anchor
           placed == IF at # 0 \/ (v.cursor = "stays" /\ v.placed = d) THEN d ELSE NoDocument
           paths == IF b THEN v.paths ELSE Paths(Documents[d], v.rows, v.size)
           w == [v EXCEPT !.cursor = "stays", !.drawn = d, !.row = row, !.anchor = anchor,
                          !.placed = placed, !.paths = paths]
<1>1. Completed(v, a, d, b) = w
  BY DEF Completed
<1>2. v.rows \in Seq(Row) /\ v.size \in Nat /\ v.row \in Nat \ {0} /\ v.anchor \in Nat \ {0}
      /\ v.paths \in SUBSET PathTypes /\ Len(v.rows) \in Nat
  BY DEF View
<1>3. at # 0 => at \in DOMAIN v.rows /\ at \in Nat \ {0} /\ v.rows[at].address = a
  <2>1. hits \in SUBSET (0 .. Len(v.rows)) /\ 0 \notin hits
    BY <1>2
  <2>2. hits # {} => Greatest(hits) \in hits
    <3> HIDE DEF hits
    <3> QED
      BY <1>2, <2>1, GreatestIn
  <2> QED
    BY <2>1, <2>2
<1> HIDE DEF at
<1>4. row \in Nat \ {0} /\ anchor \in Nat \ {0} /\ placed \in {d, NoDocument}
  BY <1>2, <1>3
<1>5. paths \in SUBSET PathTypes
  BY <1>2, PathsTyped
<1>6. (v.row = v.anchor => row = anchor)
      /\ (placed = d => \/ anchor \in DOMAIN v.rows /\ v.rows[anchor].address = a
                        \/ v.cursor = "stays" /\ v.placed = d /\ anchor = v.anchor)
  BY <1>3
<1> HIDE DEF row, anchor, placed, paths
<1>7. /\ w.cursor = "stays" /\ w.drawn = d /\ w.row = row /\ w.anchor = anchor
      /\ w.placed = placed /\ w.paths = paths
      /\ w.first = v.first /\ w.second = v.second /\ w.size = v.size /\ w.rows = v.rows
  BY DEF View
<1>8. w \in View
  BY <1>4, <1>5 DEF View
<1> HIDE DEF w
<1>9. Completes(w, v, a, d, b)
  BY <1>4, <1>6, <1>7 DEF Completes, paths
<1> QED
  BY <1>1, <1>7, <1>8, <1>9

LEMMA Mapped ==
  ASSUME NEW d \in Names
  PROVE  d # NoDocument /\ IsDocument(Documents[d])
BY ViewerAssumption DEF Names

(* Segments are the same in all documents, and so is what lies in one.      *)
LEMMA SegmentsStay ==
  ASSUME NEW d \in Names, NEW e \in Names, NEW a
  PROVE  SegmentOf(Documents[d], a) = SegmentOf(Documents[e], a)
<1> DEFINE D == Documents[d]
           E == Documents[e]
<1>1. DOMAIN D.segments = DOMAIN E.segments
      /\ \A i \in DOMAIN D.segments : /\ D.segments[i].first = E.segments[i].first
                                      /\ D.segments[i].last = E.segments[i].last
  BY ViewerAssumption DEF Names, SameSegments
<1> HIDE DEF D, E
<1>2. {i \in DOMAIN D.segments : InSegment(D.segments[i], a)}
      = {i \in DOMAIN E.segments : InSegment(E.segments[i], a)}
  BY <1>1 DEF InSegment
<1>3. SegmentOf(D, a) = SegmentOf(E, a)
  BY <1>2 DEF SegmentOf
<1> QED
  BY <1>3 DEF D, E

(* Rows of a size were made anew, and of a range.                           *)
Redrawn(w, v, a, d, b, f) ==
  /\ w \in View /\ w.cursor = "stays" /\ w.drawn = d /\ w.sized = d /\ w.first = v.first
  /\ w.size # 0 /\ (w.rows # <<>> <=> SegmentOf(Documents[d], w.first) # None)
  /\ MadeBy(w.rows, Documents[d], w.first, w.size, f)
  /\ ~b => w.paths = Paths(Documents[d], w.rows, w.size)
  /\ v.row = v.anchor => w.row = w.anchor
  /\ w.placed \in {d, NoDocument}
  /\ w.placed = d => \/ w.anchor \in DOMAIN w.rows /\ w.rows[w.anchor].address = a
                     \/ v.cursor = "stays" /\ v.placed = d /\ w.anchor = v.anchor

Relisted(w, v, first, d, f) ==
  /\ w \in View /\ w.cursor = "stays" /\ w.drawn = d /\ w.sized = NoDocument /\ w.placed = NoDocument
  /\ w.first = first /\ w.size = Len(w.rows) /\ MadeOfRange(w.rows, Documents[d], w.first, f)
  /\ w.rows # <<>> => SegmentOf(Documents[d], w.first) # None
  /\ v.row = v.anchor => w.row = w.anchor

LEMMA ResizedIs ==
  ASSUME NEW v \in View, NEW n \in Nat \ {0}, NEW a, NEW d \in Names, NEW b \in BOOLEAN
  PROVE  Redrawn(Resized(v, n, a, d, b), v, a, d, b, flags) /\ Resized(v, n, a, d, b).size = n
<1> DEFINE r == RowsOfSize(Documents[d], v.first, n, flags)
           u == [v EXCEPT !.size = n, !.rows = r]
           c == Completed(u, a, d, b)
           second == IF r = <<>> THEN v.first ELSE r[Smaller(n, Len(r))].address
           w == [c EXCEPT !.sized = d, !.second = second]
<1>0. d # NoDocument /\ IsDocument(Documents[d]) /\ v.first \in Nat
  BY Mapped DEF View
<1>1. r \in Seq(Row) /\ (r # <<>> <=> SegmentOf(Documents[d], v.first) # None)
  <2>1. CASE SegmentOf(Documents[d], v.first) # None
    BY <1>0, <2>1, SizeListing DEF Listing
  <2>2. CASE SegmentOf(Documents[d], v.first) = None
    <3>1. r = <<>>
      BY <2>2, NothingShown
    <3> QED
      BY <2>2, <3>1
  <2> QED
    BY <2>1, <2>2
<1>2. second \in Nat
  <2>1. r # <<>> => Smaller(n, Len(r)) \in 1 .. Len(r)
    <3> HIDE DEF r
    <3> QED
      BY <1>1 DEF Smaller
  <2> HIDE DEF r
  <2> QED
    BY <1>0, <1>1, <2>1, RowTypes
<1>3. Resized(v, n, a, d, b) = w
  BY DEF Resized
<1> HIDE DEF r, second
<1>4. u \in View /\ u.size = n /\ u.rows = r /\ u.first = v.first /\ u.row = v.row
      /\ u.anchor = v.anchor /\ u.cursor = v.cursor /\ u.placed = v.placed /\ u.paths = v.paths
  BY <1>1 DEF View
<1> HIDE DEF u
<1>5. c \in View /\ Completes(c, u, a, d, b) /\ c.first = u.first /\ c.size = u.size /\ c.rows = u.rows
  BY <1>0, <1>4, CompletedIs
<1> HIDE DEF c
<1>6. w \in View /\ w.sized = d /\ w.first = c.first /\ w.size = c.size /\ w.rows = c.rows
      /\ w.row = c.row /\ w.anchor = c.anchor /\ w.cursor = c.cursor /\ w.paths = c.paths
      /\ w.drawn = c.drawn /\ w.placed = c.placed
  BY <1>2, <1>5 DEF View
<1> HIDE DEF w
<1>7. Redrawn(w, v, a, d, b, flags)
  BY <1>1, <1>4, <1>5, <1>6 DEF Redrawn, Completes, MadeBy, r
<1> QED
  BY <1>3, <1>4, <1>5, <1>6, <1>7

LEMMA RangedIs ==
  ASSUME NEW v \in View, NEW first \in Nat, NEW second \in Nat, NEW a, NEW d \in Names,
         NEW b \in BOOLEAN
  PROVE  \/ Ranged(v, first, second, a, d, b) = v
         \/ Relisted(Ranged(v, first, second, a, d, b), v, first, d, flags)
<1> SUFFICES ASSUME None \notin {first, second}
             PROVE  Relisted(Ranged(v, first, second, a, d, b), v, first, d, flags)
  BY DEF Ranged
<1> DEFINE r == RowsOfRange(Documents[d], first, second, flags)
           u == [v EXCEPT !.first = first, !.second = second, !.rows = r]
           c == Completed(u, a, d, b)
           w == [c EXCEPT !.size = Len(r), !.sized = NoDocument, !.placed = NoDocument]
<1>0. d # NoDocument /\ IsDocument(Documents[d])
  BY Mapped
<1>1. r \in Seq(Row) /\ Len(r) \in Nat /\ (r # <<>> => SegmentOf(Documents[d], first) # None)
  <2>1. CASE SegmentOf(Documents[d], first) # None
    <3>1. r \in Seq(Row)
      BY <1>0, <2>1, RangeListing DEF Listing
    <3> QED
      BY <2>1, <3>1
  <2>2. CASE SegmentOf(Documents[d], first) = None
    <3>1. r = <<>>
      BY <2>2, NothingShown
    <3> QED
      BY <2>2, <3>1
  <2> QED
    BY <2>1, <2>2
<1>2. Ranged(v, first, second, a, d, b) = w
  BY DEF Ranged
<1>3. MadeOfRange(r, Documents[d], first, flags)
  BY DEF MadeOfRange
<1> HIDE DEF r
<1>4. u \in View /\ u.rows = r /\ u.first = first /\ u.row = v.row /\ u.anchor = v.anchor
  BY <1>1 DEF View
<1> HIDE DEF u
<1>5. c \in View /\ Completes(c, u, a, d, b) /\ c.first = u.first /\ c.rows = u.rows
  BY <1>0, <1>4, CompletedIs
<1> HIDE DEF c
<1>6. w \in View /\ w.sized = NoDocument /\ w.placed = NoDocument /\ w.first = c.first
      /\ w.size = Len(r) /\ w.rows = c.rows /\ w.row = c.row /\ w.anchor = c.anchor
      /\ w.cursor = c.cursor /\ w.drawn = c.drawn
  BY <1>1, <1>5 DEF View
<1> HIDE DEF w
<1>7. Relisted(w, v, first, d, flags)
  BY <1>1, <1>3, <1>4, <1>5, <1>6 DEF Relisted, Completes
<1> QED
  BY <1>2, <1>7

LEMMA RangedRows ==
  ASSUME NEW v \in View, NEW first \in Nat, NEW second \in Nat, NEW a, NEW d \in Names,
         NEW b \in BOOLEAN
  PROVE  \/ Ranged(v, first, second, a, d, b) = v
         \/ Ranged(v, first, second, a, d, b).rows = RowsOfRange(Documents[d], first, second, flags)
<1> DEFINE r == RowsOfRange(Documents[d], first, second, flags)
           u == [v EXCEPT !.first = first, !.second = second, !.rows = r]
           c == Completed(u, a, d, b)
<1>1. r \in Seq(Row)
  <2>1. CASE SegmentOf(Documents[d], first) # None
    BY <2>1, Mapped, RangeListing DEF Listing
  <2>2. CASE SegmentOf(Documents[d], first) = None
    <3>1. r = <<>>
      BY <2>2, NothingShown
    <3> QED
      BY <3>1
  <2> QED
    BY <2>1, <2>2
<1> HIDE DEF r
<1>2. u \in View /\ u.rows = r
  BY <1>1 DEF View
<1> HIDE DEF u
<1>3. c \in View /\ c.rows = r
  BY <1>2, Mapped, CompletedIs
<1> HIDE DEF c
<1>4. [c EXCEPT !.size = Len(r), !.sized = NoDocument, !.placed = NoDocument].rows = r
  BY <1>3 DEF View
<1> QED
  BY <1>4 DEF Ranged, c, u, r

LEMMA UpdatedIs ==
  ASSUME NEW v \in View, NEW a, NEW d \in Names, NEW b \in BOOLEAN
  PROVE  /\ v.size # 0 => Redrawn(Updated(v, a, d, b), v, a, d, b, flags)
         /\ v.size = 0 => \/ Updated(v, a, d, b) = v
                          \/ Relisted(Updated(v, a, d, b), v, v.first, d, flags)
<1>1. v.size \in Nat /\ v.first \in Nat /\ v.second \in Nat
  BY DEF View
<1>2. CASE v.size # 0
  BY <1>1, <1>2, ResizedIs DEF Updated
<1>3. CASE v.size = 0
  BY <1>1, <1>3, RangedIs DEF Updated
<1> QED
  BY <1>2, <1>3
-----------------------------------------------------------------------------
(* What is true of a view between two calls: its rows are those of the      *)
(* document it drew, of the size it has, and the cursor is on the current   *)
(* address in some listing from the same first address, of whatever size.   *)
Fit(v) ==
  /\ v \in View /\ (v.size = 0 => v.rows = <<>>)
  /\ v.sized \in {v.drawn, NoDocument} /\ v.placed \in {v.drawn, NoDocument}

Ready(v, d) ==
  Fit(v) /\ (v.rows # <<>> <=> v.size # 0 /\ SegmentOf(Documents[d], v.first) # None)

Sound(v, f) ==
  /\ Ready(v, v.drawn)
  /\ v.cursor = "follows" => v.rows = <<>>
  /\ v.rows # <<>> =>
       \/ v.sized = v.drawn /\ MadeBy(v.rows, Documents[v.drawn], v.first, v.size, f)
       \/ /\ v.sized = NoDocument /\ v.placed = NoDocument /\ v.size = Len(v.rows)
          /\ MadeOfRange(v.rows, Documents[v.drawn], v.first, f)

Held(v, n, a, f) ==
  LET r == RowsOfSize(Documents[v.drawn], v.first, n, f)
  IN  v.anchor \in DOMAIN r /\ r[v.anchor].address = a

Kept(v, a, f) == v.placed = v.drawn /\ v.cursor = "stays" => \E n \in Nat : Held(v, n, a, f)

PathsDrawn(v) ==
  v.sized = v.drawn /\ v.rows # <<>> => v.paths = Paths(Documents[v.drawn], v.rows, v.size)

LEMMA SoundReady ==
  ASSUME NEW v, NEW f, NEW d \in Names, Sound(v, f)
  PROVE  Ready(v, d) /\ v.drawn \in Names /\ v.drawn # NoDocument
<1>1. v.drawn \in Names
  BY DEF Sound, Ready, Fit, View
<1> QED
  BY <1>1, SegmentsStay, Mapped DEF Sound, Ready

LEMMA RedrawnSound ==
  ASSUME NEW v, NEW w, NEW a, NEW d \in Names, NEW b \in BOOLEAN, NEW f, Fit(v),
         Redrawn(w, v, a, d, b, f)
  PROVE  /\ Sound(w, f) /\ (~b => PathsDrawn(w))
         /\ Kept(v, a, f) => Kept(w, a, f)
<1>1. d # NoDocument
  BY Mapped
<1>2. Ready(w, w.drawn)
  BY <1>1 DEF Redrawn, Ready, Fit
<1>3. Sound(w, f) /\ (~b => PathsDrawn(w))
  BY <1>1, <1>2 DEF Redrawn, Sound, PathsDrawn
<1>4. ASSUME Kept(v, a, f), w.placed = d PROVE \E n \in Nat : Held(w, n, a, f)
  <2>1. CASE w.anchor \in DOMAIN w.rows /\ w.rows[w.anchor].address = a
    <3>1. Held(w, w.size, a, f) /\ w.size \in Nat
      BY <2>1 DEF Redrawn, MadeBy, Held, View
    <3> QED
      BY <3>1
  <2>2. CASE v.cursor = "stays" /\ v.placed = d /\ w.anchor = v.anchor
    <3>1. v.drawn = d
      BY <1>1, <2>2 DEF Fit
    <3>2. PICK n \in Nat : Held(v, n, a, f)
      BY <1>4, <2>2, <3>1 DEF Kept
    <3>3. Held(w, n, a, f)
      BY <2>2, <3>1, <3>2 DEF Held, Redrawn
    <3> QED
      BY <3>3
  <2> QED
    BY <1>4, <2>1, <2>2 DEF Redrawn
<1>5. Kept(v, a, f) => Kept(w, a, f)
  <2>1. w.drawn = d
    BY DEF Redrawn
  <2> QED
    BY <1>4, <2>1 DEF Kept
<1> QED
  BY <1>3, <1>5

LEMMA UpdatedSound ==
  ASSUME NEW v, NEW a, NEW d \in Names, NEW b \in BOOLEAN, Fit(v)
  PROVE  /\ Sound(Updated(v, a, d, b), flags)
         /\ ~b => PathsDrawn(Updated(v, a, d, b))
         /\ v.row = v.anchor => Updated(v, a, d, b).row = Updated(v, a, d, b).anchor
<1> DEFINE w == Updated(v, a, d, b)
<1>1. v \in View /\ d # NoDocument
  BY Mapped DEF Fit
<1>2. /\ v.size # 0 => Redrawn(w, v, a, d, b, flags)
      /\ v.size = 0 => w = v \/ Relisted(w, v, v.first, d, flags)
  BY <1>1, UpdatedIs
<1> HIDE DEF w
<1>3. CASE v.size # 0
  <2>1. Redrawn(w, v, a, d, b, flags)
    BY <1>2, <1>3
  <2> QED
    BY <2>1, RedrawnSound DEF Redrawn, w
<1>4. CASE v.size = 0 /\ w = v
  <2>1. v.rows = <<>> /\ v.drawn \in Names
    BY <1>4 DEF Fit, View
  <2>2. Ready(v, v.drawn)
    BY <1>4, <2>1 DEF Ready
  <2> QED
    BY <1>4, <2>1, <2>2 DEF Sound, PathsDrawn, w
<1>5. CASE Relisted(w, v, v.first, d, flags)
  <2>1. w.rows \in Seq(Row) /\ (Len(w.rows) # 0 <=> w.rows # <<>>)
    BY <1>5 DEF Relisted, View
  <2>2. Ready(w, w.drawn)
    BY <1>1, <1>5, <2>1 DEF Relisted, Ready, Fit
  <2> QED
    BY <1>1, <1>5, <2>2 DEF Relisted, Sound, PathsDrawn, w
<1> QED
  BY <1>2, <1>3, <1>4, <1>5

LEMMA UpdatedKeeps ==
  ASSUME NEW v, NEW a, NEW d \in Names, NEW b \in BOOLEAN, Fit(v), Kept(v, a, flags)
  PROVE  Kept(Updated(v, a, d, b), a, flags)
<1> DEFINE w == Updated(v, a, d, b)
<1>1. v \in View /\ d # NoDocument
  BY Mapped DEF Fit
<1>2. /\ v.size # 0 => Redrawn(w, v, a, d, b, flags)
      /\ v.size = 0 => w = v \/ Relisted(w, v, v.first, d, flags)
  BY <1>1, UpdatedIs
<1> HIDE DEF w
<1>3. CASE Redrawn(w, v, a, d, b, flags)
  BY <1>3, RedrawnSound DEF w
<1>4. CASE w = v
  BY <1>4 DEF w
<1>5. CASE Relisted(w, v, v.first, d, flags)
  BY <1>1, <1>5, SMTT(30) DEF Relisted, Kept, w
<1> QED
  BY <1>2, <1>3, <1>4, <1>5

(* Where a surface begins when the cursor was sent to an address.           *)
LEMMA CenteredStarts ==
  ASSUME NEW d \in Names, NEW a \in Nat, SegmentOf(Documents[d], a) # None, NEW n \in Nat
  PROVE  /\ IsStart(Documents[d], Start(d, a)) /\ IsStart(Documents[d], Centered(d, a, n))
<1> DEFINE D == Documents[d]
           i == SegmentOf(D, a)
           k == BlockIndex(D.segments[i], a)
           l == IF k > n \div 4 THEN k - n \div 4 ELSE 1
<1>1. IsDocument(D)
  BY Mapped
<1>2. IsStart(D, BlockAt(D, a).at)
  BY <1>1, AtStarts
<1>3. i \in DOMAIN D.segments /\ k \in DOMAIN D.segments[i].blocks
  BY <1>1, BlockAtIn
<1>4. l \in DOMAIN D.segments[i].blocks
  <2>1. Len(D.segments[i].blocks) \in Nat /\ DOMAIN D.segments[i].blocks = 1 .. Len(D.segments[i].blocks)
    BY <1>1, <1>3, SegmentFacts
  <2>2. n \div 4 \in Nat
    OBVIOUS
  <2> HIDE DEF D, i, k
  <2> QED
    BY <1>3, <2>1, <2>2
<1>5. Centered(d, a, n) = D.segments[i].blocks[l].at
  BY DEF Centered
<1> QED
  BY <1>2, <1>3, <1>4, <1>5 DEF IsStart, Start

LEMMA MovedSound ==
  ASSUME NEW v, NEW a \in Nat, NEW d \in Names, NEW b \in BOOLEAN, Fit(v),
         SegmentOf(Documents[d], a) # None
  PROVE  /\ Sound(Moved(v, a, d, b), flags) /\ Kept(Moved(v, a, d, b), Start(d, a), flags)
         /\ ~b => PathsDrawn(Moved(v, a, d, b))
<1> DEFINE top == IF "CenterOnCursor" \in flags THEN Centered(d, a, v.size) ELSE Start(d, a)
           u == [v EXCEPT !.first = top, !.cursor = "follows"]
<1>1. v \in View /\ v.size \in Nat
  BY DEF Fit, View
<1>2. IsStart(Documents[d], top)
  BY <1>1, CenteredStarts
<1>3. top \in Nat /\ SegmentOf(Documents[d], top) # None
  BY <1>2, Mapped, StartAt
<1>4. Moved(v, a, d, b) = Updated(u, Start(d, a), d, b)
  BY DEF Moved
<1> HIDE DEF top
<1>5. u \in View /\ u.first = top /\ u.cursor = "follows" /\ u.size = v.size /\ u.rows = v.rows
      /\ u.sized = v.sized /\ u.placed = v.placed /\ u.drawn = v.drawn
  BY <1>1, <1>3 DEF View
<1> HIDE DEF u
<1>6. Fit(u) /\ Kept(u, Start(d, a), flags)
  BY <1>3, <1>5 DEF Fit, Kept
<1> QED
  BY <1>4, <1>6, UpdatedSound, UpdatedKeeps
-----------------------------------------------------------------------------
(* The inductive invariant. *)
Typed ==
  /\ doc \in Names /\ busy \in BOOLEAN /\ flags \in FlagSets /\ current \in Nat
  /\ back \in Seq(Nat \ {None}) /\ forward \in Seq(Nat \ {None})

ViewerInv ==
  /\ Typed
  /\ Sound(view, flags) /\ Kept(view, current, flags)
  /\ ~busy => PathsDrawn(view)

LEMMA ViewerInvInit == Init => ViewerInv
<1> SUFFICES ASSUME Init PROVE ViewerInv
  OBVIOUS
<1> DEFINE D == Documents[doc]
           a == Opening(doc)
<1>1. doc \in Names /\ flags \in FlagSets /\ busy = FALSE /\ back = <<>> /\ forward = <<>>
      /\ view = Moved(NoView(doc), a, doc, FALSE) /\ current = Start(doc, a)
  BY DEF Init, Names
<1>2. IsDocument(D)
  BY <1>1, Mapped
<1>3. a \in Nat /\ SegmentOf(D, a) # None
  <2>1. CASE D.entry # None
    BY <1>2, <2>1 DEF Opening, IsDocument
  <2>2. CASE D.entry = None
    <3>1. 1 \in DOMAIN D.segments /\ a = D.segments[1].first /\ a \in Nat
      BY <1>2, <2>2, SegmentFacts DEF Opening, FirstAddress
    <3>2. InSegment(D.segments[1], a)
      BY <1>2, <3>1, SegmentOrder DEF InSegment
    <3> QED
      BY <1>2, <3>1, <3>2, SegmentOfThat
  <2> QED
    BY <2>1, <2>2
<1> HIDE DEF a
<1> DEFINE none == NoView(doc)
<1>4. Fit(none)
  <2>1. none = [first |-> 0, second |-> 0, size |-> 0, rows |-> <<>>, row |-> 1, anchor |-> 1,
                cursor |-> "stays", paths |-> {}, drawn |-> doc, sized |-> doc, placed |-> NoDocument]
    BY DEF NoView, None
  <2> HIDE DEF none
  <2>2. none \in View
    <3>1. <<>> \in Seq(Row) /\ {} \in SUBSET PathTypes /\ doc \in Names /\ 1 \in Nat \ {0} /\ 0 \in Nat
      BY <1>1
    <3> QED
      BY <2>1, <3>1 DEF View
  <2> QED
    BY <2>1, <2>2 DEF Fit
<1>7. /\ Sound(view, flags) /\ Kept(view, Start(doc, a), flags) /\ PathsDrawn(view)
  <2> HIDE DEF none
  <2> QED
    BY <1>1, <1>3, <1>4, MovedSound DEF none
<1>8. current \in Nat
  <2>1. IsStart(D, Start(doc, a))
    BY <1>1, <1>3, CenteredStarts
  <2> QED
    BY <1>1, <1>2, <2>1, StartAt
<1>9. Typed
  <2>1. <<>> \in Seq(Nat \ {None})
    OBVIOUS
  <2> QED
    BY <1>1, <1>8, <2>1 DEF Typed
<1> QED
  BY <1>1, <1>7, <1>9 DEF ViewerInv

(* A view that is made anew for the same current address, or another one.   *)
LEMMA RedrawnInv ==
  ASSUME ViewerInv, Typed', UNCHANGED <<flags, current>>, NEW v, Fit(v),
         Kept(v, current, flags), view' = Updated(v, current, doc, busy), busy' = busy
  PROVE  ViewerInv'
<1>1. doc \in Names /\ busy \in BOOLEAN
  BY DEF ViewerInv, Typed
<1>2. Sound(view', flags) /\ (~busy => PathsDrawn(view')) /\ Kept(view', current, flags)
  BY <1>1, UpdatedSound, UpdatedKeeps
<1> QED
  BY <1>2 DEF ViewerInv

LEMMA GoesInv ==
  ASSUME ViewerInv, NEW a \in Nat, GoesTo(a), UNCHANGED <<doc, busy, flags>>
  PROVE  /\ Sound(view', flags) /\ Kept(view', current', flags) /\ (~busy => PathsDrawn(view'))
         /\ current' \in Nat
<1>1. doc \in Names /\ busy \in BOOLEAN /\ Sound(view, flags) /\ current \in Nat
  BY DEF ViewerInv, Typed
<1>2. CASE SegmentOf(Documents[doc], a) = None
  BY <1>1, <1>2 DEF GoesTo, ViewerInv
<1>3. CASE SegmentOf(Documents[doc], a) # None
  <2>1. view' = Moved(view, a, doc, busy) /\ current' = Start(doc, a)
    BY <1>3 DEF GoesTo
  <2>2. Fit(view)
    BY <1>1 DEF Sound, Ready
  <2>3. IsStart(Documents[doc], Start(doc, a))
    BY <1>1, <1>3, CenteredStarts
  <2>4. Start(doc, a) \in Nat
    BY <1>1, <2>3, StartAt, Mapped
  <2> QED
    BY <1>1, <1>3, <2>1, <2>2, <2>4, MovedSound
<1> QED
  BY <1>2, <1>3

(* The addresses of rows are starts of blocks, of the segments all documents*)
(* have.                                                                    *)
LEMMA RowsListed ==
  ASSUME NEW v, NEW f, Sound(v, f), v.rows # <<>>
  PROVE  \E room \in Rooms :
           /\ Listing(v.rows, Documents[v.drawn], BlockAt(Documents[v.drawn], v.first).at,
                      LastAddress(Documents[v.drawn]), room)
           /\ \/ Len(v.rows) >= v.size
              \/ v.sized = v.drawn /\ room = Room(v.size)
<1> DEFINE D == Documents[v.drawn]
<1>1. v.drawn \in Names /\ v.drawn # NoDocument /\ IsDocument(D) /\ v.first \in Nat /\ v.size \in Nat
      /\ SegmentOf(D, v.first) # None
  BY SoundReady, Mapped DEF Sound, Ready, Fit, View
<1>2. CASE v.sized = v.drawn /\ MadeBy(v.rows, D, v.first, v.size, f)
  <2>1. Listing(v.rows, D, BlockAt(D, v.first).at, LastAddress(D), Room(v.size))
    BY <1>1, <1>2, SizeListing DEF MadeBy
  <2>2. Room(v.size) \in Rooms
    BY <1>1 DEF Room, Rooms
  <2> QED
    BY <1>2, <2>1, <2>2
<1>3. CASE v.size = Len(v.rows) /\ MadeOfRange(v.rows, D, v.first, f)
  <2>1. PICK second \in Nat : v.rows = RowsOfRange(D, v.first, second, f)
    BY <1>3 DEF MadeOfRange
  <2>2. \E room \in Rooms : Listing(v.rows, D, BlockAt(D, v.first).at, LastAddress(D), room)
    BY <1>1, <2>1, RangeListing
  <2>3. Len(v.rows) >= v.size
    BY <1>1, <1>3
  <2> QED
    BY <2>2, <2>3
<1> QED
  BY <1>2, <1>3 DEF Sound

LEMMA RowAddress ==
  ASSUME NEW v, NEW f, Sound(v, f), NEW i \in DOMAIN v.rows, NEW d \in Names
  PROVE  v.rows[i].address \in Nat /\ SegmentOf(Documents[d], v.rows[i].address) # None
<1>1. v.rows \in Seq(Row) /\ v.rows # <<>>
  BY DEF Sound, Ready, Fit, View
<1>2. PICK room \in Rooms : Listing(v.rows, Documents[v.drawn], BlockAt(Documents[v.drawn], v.first).at,
                                    LastAddress(Documents[v.drawn]), room)
  BY <1>1, RowsListed
<1>3. IsStart(Documents[v.drawn], v.rows[i].address)
  BY <1>1, <1>2 DEF Listing, Within
<1> QED
  BY <1>3, SoundReady, Mapped, SegmentsStay, StartAt

LEMMA ScrollsInv ==
  ASSUME ViewerInv, NEW n \in Int, Scrolls(n)
  PROVE  /\ Sound(view', flags) /\ Kept(view', current', flags) /\ (~busy => PathsDrawn(view'))
         /\ current' \in Nat
<1> DEFINE top == IF view.rows = <<>> THEN view.first ELSE view.rows[1].address
           first == IF n = 0 THEN view.first ELSE Scrolled(Documents[doc], top, n)
           u == Cleared([view EXCEPT !.first = first])
           v == Updated(u, current, doc, busy)
<1>1. doc \in Names /\ busy \in BOOLEAN /\ Sound(view, flags) /\ current \in Nat /\ view \in View
      /\ Fit(view) /\ IsDocument(Documents[doc])
  <2>1. doc \in Names /\ busy \in BOOLEAN /\ Sound(view, flags) /\ current \in Nat
    BY DEF ViewerInv, Typed
  <2> QED
    BY <2>1, SoundReady, Mapped DEF Sound, Ready, Fit
<1>2. top \in Nat
  <2>1. CASE view.rows = <<>>
    BY <1>1, <2>1 DEF View
  <2>2. CASE view.rows # <<>>
    <3>1. 1 \in DOMAIN view.rows
      BY <1>1, <2>2 DEF View
    <3> QED
      BY <1>1, <2>2, <3>1, RowAddress
  <2> QED
    BY <2>1, <2>2
<1>3. first \in Nat
  BY <1>1, <1>2, ScrolledWithin, ScrolledNat DEF View
<1>4. IF v.row \in DOMAIN v.rows
      THEN current' = v.rows[v.row].address /\ view' = [v EXCEPT !.placed = v.sized]
      ELSE view' = [v EXCEPT !.placed = NoDocument] /\ UNCHANGED current
  BY DEF Scrolls
<1> HIDE DEF first
<1>5. u \in View /\ Fit(u) /\ u.row = u.anchor
  BY <1>1, <1>3 DEF Cleared, View, Fit
<1> HIDE DEF u
<1>6. Sound(v, flags) /\ (~busy => PathsDrawn(v)) /\ v.row = v.anchor
  BY <1>1, <1>5, UpdatedSound
<1>7. v \in View /\ v.drawn \in Names /\ v.drawn # NoDocument
  BY <1>1, <1>6, SoundReady DEF Ready, Fit
<1> HIDE DEF v
<1>8. ASSUME NEW p \in {v.sized, NoDocument}
      PROVE  LET w == [v EXCEPT !.placed = p]
             IN  Sound(w, flags) /\ (~busy => PathsDrawn(w)) /\ w.placed = p /\ w.drawn = v.drawn
                 /\ w.anchor = v.row /\ w.rows = v.rows /\ w.first = v.first /\ w.size = v.size /\ w.sized = v.sized
  <2> DEFINE w == [v EXCEPT !.placed = p]
  <2>1. /\ w \in View /\ w.placed = p /\ w.drawn = v.drawn /\ w.anchor = v.anchor /\ w.rows = v.rows
        /\ w.first = v.first /\ w.size = v.size /\ w.sized = v.sized /\ w.cursor = v.cursor
        /\ w.paths = v.paths
    BY <1>7 DEF View
  <2> HIDE DEF w
  <2>2. Ready(w, w.drawn)
    BY <1>6, <2>1 DEF Sound, Ready, Fit
  <2>3. Sound(w, flags)
    BY <1>6, <2>1, <2>2 DEF Sound
  <2>4. ~busy => PathsDrawn(w)
    BY <1>6, <2>1 DEF PathsDrawn
  <2> QED
    BY <1>6, <2>1, <2>3, <2>4 DEF w
<1>9. CASE v.row \in DOMAIN v.rows
  <2> DEFINE w == [v EXCEPT !.placed = v.sized]
  <2>1. /\ Sound(w, flags) /\ (~busy => PathsDrawn(w)) /\ w.placed = v.sized /\ w.drawn = v.drawn
        /\ w.anchor = v.row /\ w.rows = v.rows /\ w.first = v.first /\ w.size = v.size /\ w.sized = v.sized
    BY <1>8
  <2>2. view' = w /\ current' = v.rows[v.row].address
    BY <1>4, <1>9
  <2> HIDE DEF w
  <2>3. current' \in Nat
    BY <1>1, <1>6, <1>9, <2>2, RowAddress
  <2>4. Kept(w, current', flags)
    <3> SUFFICES ASSUME w.placed = w.drawn PROVE \E m \in Nat : Held(w, m, current', flags)
      BY DEF Kept
    <3>1. w.rows # <<>> /\ w.sized = w.drawn /\ w.size \in Nat
      BY <1>7, <1>9, <2>1 DEF View
    <3>2. MadeBy(w.rows, Documents[w.drawn], w.first, w.size, flags)
      BY <1>7, <2>1, <3>1 DEF Sound
    <3>3. Held(w, w.size, current', flags)
      BY <1>9, <2>1, <2>2, <3>2 DEF Held, MadeBy
    <3> QED
      BY <3>1, <3>3
  <2> QED
    BY <2>1, <2>2, <2>3, <2>4
<1>10. CASE v.row \notin DOMAIN v.rows
  <2> DEFINE w == [v EXCEPT !.placed = NoDocument]
  <2>1. /\ Sound(w, flags) /\ (~busy => PathsDrawn(w)) /\ w.placed = NoDocument /\ w.drawn = v.drawn
    BY <1>8
  <2>2. view' = w /\ current' = current
    BY <1>4, <1>10
  <2> HIDE DEF w
  <2>3. Kept(w, current, flags)
    BY <1>7, <2>1 DEF Kept
  <2> QED
    BY <1>1, <2>1, <2>2, <2>3
<1> QED
  BY <1>9, <1>10

(* Pushing to a stack and popping from one. *)
LEMMA HistoryTyped ==
  ASSUME ViewerInv
  PROVE  /\ Remembered \in Seq(Nat \ {None})
         /\ back # <<>> => Front(back) \in Seq(Nat \ {None}) /\ Last(back) \in Nat
         /\ forward # <<>> => Tail(forward) \in Seq(Nat \ {None}) /\ Head(forward) \in Nat
         /\ current # None => /\ Append(back, current) \in Seq(Nat \ {None})
                              /\ <<current>> \o forward \in Seq(Nat \ {None})
<1> DEFINE S == Nat \ {None}
<1>1. back \in Seq(S) /\ forward \in Seq(S) /\ current \in Nat
  BY DEF ViewerInv, Typed
<1>2. current # None => Append(back, current) \in Seq(S) /\ <<current>> \o forward \in Seq(S)
  <2> SUFFICES ASSUME current # None PROVE Append(back, current) \in Seq(S) /\ <<current>> \o forward \in Seq(S)
    OBVIOUS
  <2>1. current \in S /\ S \cup {current} = S
    BY <1>1
  <2> HIDE DEF S
  <2> QED
    BY <1>1, <2>1, Push
<1>3. \A x \in S : x \in Nat
  OBVIOUS
<1> HIDE DEF S
<1>4. Remembered \in Seq(S)
  BY <1>1, <1>2 DEF Remembered
<1>5. /\ back # <<>> => Front(back) \in Seq(S) /\ Last(back) \in Nat
      /\ forward # <<>> => Tail(forward) \in Seq(S) /\ Head(forward) \in Nat
  BY <1>1, <1>3, Pop
<1> QED
  BY <1>2, <1>4, <1>5 DEF S

LEMMA ViewerInvNext == ViewerInv /\ [Next]_vars => ViewerInv'
<1> SUFFICES ASSUME ViewerInv, [Next]_vars PROVE ViewerInv'
  OBVIOUS
<1>1. /\ doc \in Names /\ busy \in BOOLEAN /\ flags \in FlagSets /\ current \in Nat
      /\ back \in Seq(Nat \ {None}) /\ forward \in Seq(Nat \ {None})
      /\ Sound(view, flags) /\ Kept(view, current, flags) /\ (~busy => PathsDrawn(view))
  BY DEF ViewerInv, Typed
<1>2. view \in View /\ Ready(view, doc) /\ NoDocument \notin Names /\ IsDocument(Documents[doc])
  BY <1>1, SoundReady, Mapped DEF Ready, Fit
<1>3. ASSUME NEW a \in Addresses, GoTo(a) PROVE ViewerInv'
  <2>1. a \in Nat /\ GoesTo(a) /\ UNCHANGED <<doc, busy, flags, forward>>
    BY <1>3, ViewerAssumption DEF GoTo
  <2>2. back' \in Seq(Nat \ {None})
    BY <1>1, <1>3, HistoryTyped DEF GoTo
  <2>3. /\ Sound(view', flags) /\ Kept(view', current', flags) /\ (~busy => PathsDrawn(view'))
        /\ current' \in Nat
    BY <2>1, GoesInv
  <2> QED
    BY <1>1, <2>1, <2>2, <2>3 DEF ViewerInv, Typed
<1>4. ASSUME NEW a \in Addresses, Seek(a) PROVE ViewerInv'
  <2>1. a \in Nat /\ GoesTo(a) /\ UNCHANGED <<doc, busy, flags, back, forward>>
    BY <1>4, ViewerAssumption DEF Seek, history
  <2>2. /\ Sound(view', flags) /\ Kept(view', current', flags) /\ (~busy => PathsDrawn(view'))
        /\ current' \in Nat
    BY <2>1, GoesInv
  <2> QED
    BY <1>1, <2>1, <2>2 DEF ViewerInv, Typed
<1>5. CASE GoBack
  <2>1. /\ Last(back) \in Nat /\ GoesTo(Last(back)) /\ UNCHANGED <<doc, busy, flags>>
        /\ back' \in Seq(Nat \ {None})
    BY <1>5, HistoryTyped DEF GoBack
  <2>2. forward' \in Seq(Nat \ {None})
    BY <1>1, <1>5, HistoryTyped DEF GoBack, Pushed
  <2>3. /\ Sound(view', flags) /\ Kept(view', current', flags) /\ (~busy => PathsDrawn(view'))
        /\ current' \in Nat
    BY <2>1, GoesInv
  <2> QED
    BY <1>1, <2>1, <2>2, <2>3 DEF ViewerInv, Typed
<1>6. CASE GoForward
  <2>1. /\ Head(forward) \in Nat /\ GoesTo(Head(forward)) /\ UNCHANGED <<doc, busy, flags>>
        /\ forward' \in Seq(Nat \ {None})
    BY <1>6, HistoryTyped DEF GoForward
  <2>2. back' \in Seq(Nat \ {None})
    BY <1>1, <1>6, HistoryTyped DEF GoForward, Pushed
  <2>3. /\ Sound(view', flags) /\ Kept(view', current', flags) /\ (~busy => PathsDrawn(view'))
        /\ current' \in Nat
    BY <2>1, GoesInv
  <2> QED
    BY <1>1, <2>1, <2>2, <2>3 DEF ViewerInv, Typed
<1>7. ASSUME NEW n \in Turns, Scroll(n) PROVE ViewerInv'
  <2>1. n \in Int /\ Scrolls(n) /\ UNCHANGED <<doc, busy, flags, back, forward>>
    BY <1>7, ViewerAssumption DEF Scroll, history
  <2>2. /\ Sound(view', flags) /\ Kept(view', current', flags) /\ (~busy => PathsDrawn(view'))
        /\ current' \in Nat
    BY <2>1, ScrollsInv
  <2> QED
    BY <1>1, <2>1, <2>2 DEF ViewerInv, Typed
<1>8. ASSUME NEW n \in Sizes, Resize(n) PROVE ViewerInv'
  <2> DEFINE w == Resized(view, n, current, doc, busy)
  <2>1. n \in Nat \ {0} /\ view' = w /\ UNCHANGED <<doc, busy, flags, back, forward, current>>
    BY <1>8, ViewerAssumption DEF Resize, history
  <2>2. Redrawn(w, view, current, doc, busy, flags)
    BY <1>1, <1>2, <2>1, ResizedIs
  <2> HIDE DEF w
  <2>3. Sound(w, flags) /\ Kept(w, current, flags) /\ (~busy => PathsDrawn(w))
    BY <1>1, <1>2, <2>2, RedrawnSound DEF Ready
  <2> QED
    BY <1>1, <2>1, <2>3 DEF ViewerInv, Typed
<1>9. ASSUME NEW row \in Rows, MoveTo(row) PROVE ViewerInv'
  <2>1. row \in Nat /\ view.rows # <<>> /\ UNCHANGED <<doc, busy, flags, back, forward>>
    BY <1>9, ViewerAssumption DEF MoveTo, history
  <2>2. CASE row \in 1 .. view.size
    <3>1. PICK a \in IF row \in DOMAIN view.rows THEN {view.rows[row].address}
                     ELSE Addresses \cup {None} :
            /\ current' = a
            /\ view' = Updated([view EXCEPT !.row = row, !.anchor = row,
                                   !.placed = IF row \in DOMAIN view.rows THEN view.sized
                                              ELSE NoDocument], a, doc, busy)
      BY <1>9, <2>2 DEF MoveTo
    <3> DEFINE p == IF row \in DOMAIN view.rows THEN view.sized ELSE NoDocument
               u == [view EXCEPT !.row = row, !.anchor = row, !.placed = p]
    <3>2. a \in Nat
      <4>1. CASE row \in DOMAIN view.rows
        BY <1>1, <3>1, <4>1, RowAddress
      <4>2. CASE row \notin DOMAIN view.rows
        BY <3>1, <4>2, ViewerAssumption DEF None
      <4> QED
        BY <4>1, <4>2
    <3>3. p \in {view.drawn, NoDocument} /\ row \in Nat \ {0} /\ p \in Names \cup {NoDocument}
      BY <1>1, <1>2, <2>1, <2>2, SoundReady DEF Ready, Fit
    <3>4. p = view.drawn => row \in DOMAIN view.rows /\ view.sized = view.drawn
      BY <1>1, SoundReady
    <3> HIDE DEF p
    <3>5. /\ u \in View /\ u.row = row /\ u.anchor = row /\ u.placed = p /\ u.drawn = view.drawn
          /\ u.sized = view.sized /\ u.rows = view.rows /\ u.size = view.size /\ u.first = view.first
          /\ u.cursor = view.cursor
      BY <1>2, <3>3 DEF View
    <3> HIDE DEF u
    <3>6. Fit(u)
      BY <1>2, <3>3, <3>5 DEF Ready, Fit
    <3>7. Kept(u, a, flags)
      <4> SUFFICES ASSUME p = view.drawn PROVE \E m \in Nat : Held(u, m, a, flags)
        BY <3>5 DEF Kept
      <4>1. a = view.rows[row].address /\ view.sized = view.drawn /\ row \in DOMAIN view.rows
        BY <3>1, <3>4
      <4>2. MadeBy(view.rows, Documents[view.drawn], view.first, view.size, flags)
        BY <1>1, <2>1, <4>1, SoundReady DEF Sound
      <4>3. Held(u, view.size, a, flags) /\ view.size \in Nat
        BY <1>2, <3>5, <4>1, <4>2 DEF Held, MadeBy, View
      <4> QED
        BY <4>3
    <3>8. view' = Updated(u, a, doc, busy) /\ current' = a
      BY <3>1 DEF u, p
    <3>9. Sound(view', flags) /\ Kept(view', current', flags) /\ (~busy => PathsDrawn(view'))
      BY <1>1, <3>6, <3>7, <3>8, UpdatedSound, UpdatedKeeps
    <3> QED
      BY <1>1, <2>1, <3>2, <3>8, <3>9 DEF ViewerInv, Typed
  <2>3. CASE row \notin 1 .. view.size
    <3>1. Scrolls(row - 1) /\ row - 1 \in Int
      BY <1>9, <2>1, <2>3 DEF MoveTo
    <3>2. /\ Sound(view', flags) /\ Kept(view', current', flags) /\ (~busy => PathsDrawn(view'))
          /\ current' \in Nat
      BY <3>1, ScrollsInv
    <3> QED
      BY <1>1, <2>1, <3>2 DEF ViewerInv, Typed
  <2> QED
    BY <2>2, <2>3
<1>10. ASSUME NEW row \in Rows, Select(row) PROVE ViewerInv'
  <2> DEFINE last == Smaller(view.size, Len(view.rows))
             r == Smaller(IF row = 0 THEN 1 ELSE row, last)
             u == [view EXCEPT !.row = r]
  <2>1. /\ row \in Nat /\ view.rows # <<>> /\ view' = Updated(u, current, doc, busy)
        /\ UNCHANGED <<doc, busy, flags, back, forward, current>>
    BY <1>10, ViewerAssumption DEF Select, history
  <2>2. r \in Nat \ {0}
    <3>1. view.size \in Nat \ {0} /\ Len(view.rows) \in Nat \ {0}
      BY <1>2, <2>1 DEF Ready, View
    <3> QED
      BY <2>1, <3>1 DEF Smaller
  <2> HIDE DEF r
  <2>3. /\ u \in View /\ u.placed = view.placed /\ u.drawn = view.drawn /\ u.anchor = view.anchor
        /\ u.sized = view.sized /\ u.rows = view.rows /\ u.size = view.size /\ u.first = view.first
        /\ u.cursor = view.cursor
    BY <1>2, <2>2 DEF View
  <2> HIDE DEF u
  <2>4. Fit(u) /\ Kept(u, current, flags)
    BY <1>1, <1>2, <2>3 DEF Ready, Fit, Kept, Held
  <2>5. Typed'
    BY <1>1, <2>1 DEF Typed
  <2> QED
    BY <2>1, <2>4, <2>5, RedrawnInv
<1>11. ASSUME NEW range \in Ranges, ResizeRange(range[1], range[2]) PROVE ViewerInv'
  <2> DEFINE w == Ranged(view, range[1], range[2], current, doc, busy)
  <2>1. /\ range[1] \in Nat /\ range[2] \in Nat
        /\ view' = w /\ UNCHANGED <<doc, busy, flags, back, forward, current>>
    BY <1>11, ViewerAssumption DEF ResizeRange, history
  <2>2. w = view \/ Relisted(w, view, range[1], doc, flags)
    BY <1>1, <1>2, <2>1, RangedIs
  <2> HIDE DEF w
  <2>3. CASE w = view
    BY <1>1, <2>1, <2>3 DEF ViewerInv, Typed
  <2>4. CASE Relisted(w, view, range[1], doc, flags)
    <3>1. w.rows \in Seq(Row) /\ (Len(w.rows) # 0 <=> w.rows # <<>>)
      BY <2>4 DEF Relisted, View
    <3>2. Ready(w, w.drawn)
      BY <2>1, <2>4, <3>1 DEF Relisted, Ready, Fit
    <3>3. Sound(w, flags) /\ Kept(w, current, flags) /\ PathsDrawn(w)
      BY <1>1, <1>2, <2>4, <3>2 DEF Relisted, Sound, Kept, PathsDrawn
    <3> QED
      BY <1>1, <2>1, <3>3 DEF ViewerInv, Typed
  <2> QED
    BY <2>2, <2>3, <2>4
<1>12. CASE Update
  <2>1. Typed' /\ UNCHANGED <<flags, current, busy>> /\ view' = Updated(view, current, doc, busy)
    BY <1>1, <1>12 DEF Update, history, Typed
  <2> QED
    BY <1>1, <1>2, <2>1, RedrawnInv DEF Ready
<1>13. CASE BusyBegin
  BY <1>1, <1>13 DEF BusyBegin, history, ViewerInv, Typed
<1>14. CASE Change
  BY <1>1, <1>14 DEF Change, history, ViewerInv, Typed, Names
<1>15. CASE BusyEnd
  <2>1. busy' = FALSE /\ UNCHANGED <<doc, flags, back, forward>>
    BY <1>15 DEF BusyEnd, history
  <2>2. CASE Documents[doc].entry # None
    <3> DEFINE entry == Start(doc, Documents[doc].entry)
               u == Moved(view, entry, doc, FALSE)
    <3>1. view' = Updated(u, entry, doc, FALSE) /\ current' = entry
      BY <1>15, <2>2 DEF BusyEnd, Handled
    <3>2. Documents[doc].entry \in Nat /\ SegmentOf(Documents[doc], Documents[doc].entry) # None
      BY <1>2, <2>2 DEF IsDocument
    <3>3. IsStart(Documents[doc], entry)
      BY <1>1, <3>2, CenteredStarts
    <3>4. entry \in Nat /\ SegmentOf(Documents[doc], entry) # None /\ Start(doc, entry) = entry
      BY <1>2, <3>3, StartAt DEF Start
    <3> HIDE DEF entry
    <3>5. Sound(u, flags) /\ Kept(u, entry, flags)
      BY <1>1, <1>2, <3>4, MovedSound DEF Ready
    <3>6. Fit(u)
      BY <3>5 DEF Sound, Ready
    <3> HIDE DEF u
    <3>7. Sound(view', flags) /\ Kept(view', current', flags) /\ PathsDrawn(view')
      BY <1>1, <3>1, <3>5, <3>6, UpdatedSound, UpdatedKeeps
    <3> QED
      BY <1>1, <2>1, <3>1, <3>4, <3>7 DEF ViewerInv, Typed
  <2>3. CASE Documents[doc].entry = None
    <3>1. view' = Updated(view, current, doc, FALSE) /\ current' = current
      BY <1>15, <2>3 DEF BusyEnd, Handled
    <3>2. Sound(view', flags) /\ Kept(view', current', flags) /\ PathsDrawn(view')
      BY <1>1, <1>2, <3>1, UpdatedSound, UpdatedKeeps DEF Ready
    <3> QED
      BY <1>1, <2>1, <3>1, <3>2 DEF ViewerInv, Typed
  <2> QED
    BY <2>2, <2>3
<1>16. CASE UNCHANGED vars
  BY <1>1, <1>16 DEF vars, history, ViewerInv, Typed
<1> QED
  BY <1>3, <1>4, <1>5, <1>6, <1>7, <1>8, <1>9, <1>10, <1>11, <1>12, <1>13, <1>14, <1>15, <1>16 DEF Next

LEMMA ViewerInvariant == Spec => []ViewerInv
BY ViewerInvInit, ViewerInvNext, PTL DEF Spec
-----------------------------------------------------------------------------
(* There are rows exactly if there is room for some and they begin in a     *)
(* segment, and the rows and stacks keep their types: of any documents and  *)
(* for any flags.                                                           *)
THEOREM ViewerTyped == Spec => []TypeOK
<1>1. ViewerInv => TypeOK
  <2> SUFFICES ASSUME ViewerInv PROVE TypeOK
    OBVIOUS
  <2>1. Typed /\ Sound(view, flags)
    BY DEF ViewerInv
  <2>2. Ready(view, doc) /\ view.drawn \in Names
    BY <2>1, SoundReady DEF Typed
  <2> QED
    BY <2>1, <2>2 DEF TypeOK, Typed, Ready, Fit, View, Names
<1> QED
  BY <1>1, ViewerInvariant, PTL

(* What shows rows shows some after a call that leaves it in a segment.     *)
LEMMA UpdatedShows ==
  ASSUME NEW v, NEW a, NEW d \in Names, NEW b \in BOOLEAN, Fit(v), v.size # 0,
         SegmentOf(Documents[d], v.first) # None
  PROVE  Updated(v, a, d, b).rows # <<>> /\ Updated(v, a, d, b).size # 0
<1>1. Redrawn(Updated(v, a, d, b), v, a, d, b, flags)
  BY UpdatedIs DEF Fit
<1> QED
  BY <1>1 DEF Redrawn

LEMMA MovedShows ==
  ASSUME NEW v, NEW a \in Nat, NEW d \in Names, NEW b \in BOOLEAN, Fit(v), v.size # 0,
         SegmentOf(Documents[d], a) # None
  PROVE  Moved(v, a, d, b).rows # <<>>
<1> DEFINE top == IF "CenterOnCursor" \in flags THEN Centered(d, a, v.size) ELSE Start(d, a)
           u == [v EXCEPT !.first = top, !.cursor = "follows"]
<1>1. v \in View /\ v.size \in Nat
  BY DEF Fit, View
<1>2. IsStart(Documents[d], top)
  BY <1>1, CenteredStarts
<1>3. top \in Nat /\ SegmentOf(Documents[d], top) # None
  BY <1>2, Mapped, StartAt
<1>4. Moved(v, a, d, b) = Updated(u, Start(d, a), d, b)
  BY DEF Moved
<1> HIDE DEF top
<1>5. Fit(u) /\ u.first = top /\ u.size = v.size
  BY <1>1, <1>3 DEF Fit, View
<1> HIDE DEF u
<1> QED
  BY <1>3, <1>4, <1>5, UpdatedShows

LEMMA GoesShows ==
  ASSUME ViewerInv, view.rows # <<>>, NEW a \in Nat, GoesTo(a)
  PROVE  view'.rows # <<>>
<1>1. doc \in Names /\ busy \in BOOLEAN /\ Fit(view) /\ view.size # 0
  BY DEF ViewerInv, Typed, Sound, Ready
<1>2. CASE SegmentOf(Documents[doc], a) = None
  BY <1>2 DEF GoesTo
<1>3. CASE SegmentOf(Documents[doc], a) # None
  BY <1>1, <1>3, MovedShows DEF GoesTo
<1> QED
  BY <1>2, <1>3

LEMMA ScrollsShow ==
  ASSUME ViewerInv, view.rows # <<>>, NEW n \in Int, Scrolls(n)
  PROVE  view'.rows # <<>>
<1> DEFINE top == view.rows[1].address
           first == IF n = 0 THEN view.first ELSE Scrolled(Documents[doc], top, n)
           u == Cleared([view EXCEPT !.first = first])
           v == Updated(u, current, doc, busy)
<1>1. doc \in Names /\ busy \in BOOLEAN /\ Sound(view, flags) /\ Fit(view) /\ view \in View
      /\ view.size # 0 /\ IsDocument(Documents[doc])
  BY Mapped DEF ViewerInv, Typed, Sound, Ready, Fit
<1>2. SegmentOf(Documents[doc], view.first) # None /\ view.first \in Nat
  BY <1>1, SoundReady DEF Ready, View
<1>3. 1 \in DOMAIN view.rows
  BY <1>1 DEF View
<1>4. top \in Nat /\ SegmentOf(Documents[doc], top) # None
  BY <1>1, <1>3, RowAddress
<1>5. first \in Nat /\ SegmentOf(Documents[doc], first) # None
  BY <1>1, <1>2, <1>4, ScrolledWithin
<1>6. view' = [v EXCEPT !.placed = v.sized] \/ view' = [v EXCEPT !.placed = NoDocument]
  BY DEF Scrolls
<1> HIDE DEF first
<1>7. Fit(u) /\ u.first = first /\ u.size # 0
  BY <1>1, <1>5 DEF Cleared, View, Fit
<1> HIDE DEF u
<1>8. v.rows # <<>> /\ v \in View
  <2>1. v.rows # <<>>
    BY <1>1, <1>5, <1>7, UpdatedShows
  <2> QED
    BY <1>1, <1>7, <2>1, UpdatedSound DEF Sound, Ready, Fit
<1> HIDE DEF v
<1> QED
  BY <1>6, <1>8 DEF View

LEMMA RowsAreKept ==
  ViewerInv /\ [Next]_vars =>
    [view.rows # <<>> /\ view'.rows = <<>> =>
       \E r \in Ranges :
         /\ ResizeRange(r[1], r[2])
         /\ SegmentOf(Documents[doc], r[1]) # None => r[2] < Start(doc, r[1])]_vars
<1> SUFFICES ASSUME ViewerInv, [Next]_vars, view.rows # <<>>, view'.rows = <<>>
             PROVE  \E r \in Ranges :
                      /\ ResizeRange(r[1], r[2])
                      /\ SegmentOf(Documents[doc], r[1]) # None => r[2] < Start(doc, r[1])
  OBVIOUS
<1>1. /\ doc \in Names /\ busy \in BOOLEAN /\ Sound(view, flags) /\ Fit(view) /\ view \in View
      /\ view.size # 0 /\ IsDocument(Documents[doc])
  BY Mapped DEF ViewerInv, Typed, Sound, Ready, Fit
<1>2. SegmentOf(Documents[doc], view.first) # None
  BY <1>1, SoundReady DEF Ready
<1>3. ASSUME NEW a \in Addresses, GoTo(a) \/ Seek(a) PROVE FALSE
  <2>1. a \in Nat /\ GoesTo(a)
    BY <1>3, ViewerAssumption DEF GoTo, Seek
  <2> QED
    BY <2>1, GoesShows
<1>4. ASSUME GoBack \/ GoForward PROVE FALSE
  <2>1. \E a \in Nat : GoesTo(a)
    BY <1>4, HistoryTyped DEF GoBack, GoForward
  <2> QED
    BY <2>1, GoesShows
<1>5. ASSUME NEW n \in Turns, Scroll(n) PROVE FALSE
  BY <1>5, ScrollsShow, ViewerAssumption DEF Scroll
<1>6. ASSUME NEW n \in Sizes, Resize(n) PROVE FALSE
  <2>1. n \in Nat \ {0} /\ view' = Resized(view, n, current, doc, busy)
    BY <1>6, ViewerAssumption DEF Resize
  <2>2. Redrawn(view', view, current, doc, busy, flags)
    BY <1>1, <2>1, ResizedIs
  <2> QED
    BY <1>2, <2>2 DEF Redrawn
<1>7. ASSUME NEW row \in Rows, MoveTo(row) PROVE FALSE
  <2>1. CASE row \in 1 .. view.size
    <3> DEFINE p == IF row \in DOMAIN view.rows THEN view.sized ELSE NoDocument
               u == [view EXCEPT !.row = row, !.anchor = row, !.placed = p]
    <3>1. \E a : view' = Updated(u, a, doc, busy)
      BY <1>7, <2>1 DEF MoveTo
    <3>2. p \in {view.drawn, NoDocument} /\ p \in Names \cup {NoDocument} /\ row \in Nat \ {0}
      BY <1>1, <2>1 DEF Fit, View
    <3> HIDE DEF p
    <3>3. Fit(u) /\ u.first = view.first /\ u.size = view.size
      BY <1>1, <3>2 DEF Fit, View
    <3> HIDE DEF u
    <3> QED
      BY <1>1, <1>2, <3>1, <3>3, UpdatedShows
  <2>2. CASE row \notin 1 .. view.size
    <3>1. Scrolls(row - 1) /\ row - 1 \in Int
      BY <1>7, <2>2, ViewerAssumption DEF MoveTo
    <3> QED
      BY <3>1, ScrollsShow
  <2> QED
    BY <2>1, <2>2
<1>8. ASSUME NEW row \in Rows, Select(row) PROVE FALSE
  <2> DEFINE last == Smaller(view.size, Len(view.rows))
             r == Smaller(IF row = 0 THEN 1 ELSE row, last)
             u == [view EXCEPT !.row = r]
  <2>1. row \in Nat /\ view' = Updated(u, current, doc, busy)
    BY <1>8, ViewerAssumption DEF Select
  <2>2. r \in Nat \ {0}
    <3>1. view.size \in Nat \ {0} /\ Len(view.rows) \in Nat \ {0}
      BY <1>1 DEF View
    <3> QED
      BY <2>1, <3>1 DEF Smaller
  <2> HIDE DEF r
  <2>3. Fit(u) /\ u.first = view.first /\ u.size = view.size
    BY <1>1, <2>2 DEF Fit, View
  <2> HIDE DEF u
  <2> QED
    BY <1>1, <1>2, <2>1, <2>3, UpdatedShows
<1>9. ASSUME NEW r \in Ranges, ResizeRange(r[1], r[2])
      PROVE  \E q \in Ranges :
               /\ ResizeRange(q[1], q[2])
               /\ SegmentOf(Documents[doc], q[1]) # None => q[2] < Start(doc, q[1])
  <2> DEFINE w == Ranged(view, r[1], r[2], current, doc, busy)
  <2>1. r[1] \in Nat /\ r[2] \in Nat /\ view' = w
    BY <1>9, ViewerAssumption DEF ResizeRange
  <2>2. w = view \/ w.rows = RowsOfRange(Documents[doc], r[1], r[2], flags)
    BY <1>1, <2>1, RangedRows
  <2> HIDE DEF w
  <2>3. RowsOfRange(Documents[doc], r[1], r[2], flags) = <<>>
    BY <2>1, <2>2
  <2>4. ASSUME SegmentOf(Documents[doc], r[1]) # None PROVE r[2] < Start(doc, r[1])
    <3>1. ~(BlockAt(Documents[doc], r[1]).at <= r[2])
      BY <1>1, <2>1, <2>3, <2>4, RangeListing
    <3>2. BlockAt(Documents[doc], r[1]).at \in Nat
      <4>1. IsStart(Documents[doc], BlockAt(Documents[doc], r[1]).at)
        BY <1>1, <2>1, <2>4, AtStarts
      <4> QED
        BY <1>1, <4>1, StartAt
    <3> QED
      BY <2>1, <3>1, <3>2 DEF Start
  <2> QED
    BY <1>9, <2>4
<1>10. ASSUME Update \/ BusyEnd PROVE FALSE
  <2>1. CASE Documents[doc].entry = None \/ Update
    <3>1. \E b \in BOOLEAN : view' = Updated(view, current, doc, b)
      BY <1>1, <1>10, <2>1 DEF Update, BusyEnd, Handled
    <3> QED
      BY <1>1, <1>2, <3>1, UpdatedShows
  <2>2. CASE BusyEnd /\ Documents[doc].entry # None
    <3> DEFINE entry == Start(doc, Documents[doc].entry)
               u == Moved(view, entry, doc, FALSE)
    <3>1. view' = Updated(u, entry, doc, FALSE)
      BY <2>2 DEF BusyEnd, Handled
    <3>2. IsStart(Documents[doc], entry)
      BY <1>1, <2>2, CenteredStarts DEF IsDocument
    <3>3. entry \in Nat /\ SegmentOf(Documents[doc], entry) # None
      BY <1>1, <3>2, StartAt
    <3> HIDE DEF entry
    <3>4. u.rows # <<>> /\ Sound(u, flags) /\ u.drawn \in Names
      <4>1. u.rows # <<>> /\ Sound(u, flags)
        BY <1>1, <3>3, MovedShows, MovedSound
      <4> QED
        BY <4>1 DEF Sound, Ready, Fit, View
    <3> HIDE DEF u
    <3>5. Fit(u) /\ u.size # 0
      BY <3>4 DEF Sound, Ready
    <3>6. SegmentOf(Documents[doc], u.first) # None
      BY <1>1, <3>4, SoundReady DEF Ready
    <3> QED
      BY <1>1, <3>1, <3>5, <3>6, UpdatedShows
  <2> QED
    BY <1>10, <2>1, <2>2
<1>11. ~BusyBegin /\ ~Change /\ ~UNCHANGED vars
  BY DEF BusyBegin, Change, vars
<1> QED
  BY <1>3, <1>4, <1>5, <1>6, <1>7, <1>8, <1>9, <1>10, <1>11 DEF Next

(* Rows never vanish but by a range that shows nothing: whatever is called  *)
(* and whenever the document changes, scroll, goTo, update and handleEvents *)
(* leave the surface in a segment, with the block of its top shown.         *)
THEOREM RowsRemain == Spec => RowsStay
<1>1. ViewerInv /\ [Next]_vars =>
        [view.rows # <<>> /\ view'.rows = <<>> =>
           \E r \in Ranges :
             /\ ResizeRange(r[1], r[2])
             /\ SegmentOf(Documents[doc], r[1]) # None => r[2] < Start(doc, r[1])]_vars
  BY RowsAreKept
<1> QED
  BY <1>1, ViewerInvariant, PTL DEF Spec, RowsStay

(* The rows are the blocks of the document in their order, none left out    *)
(* between two that are shown, and none missing while there is room: what   *)
(* updateSegments makes, whatever segments and blocks there are.            *)
THEOREM RowsAreTheDocument == Spec => []RowsFollowDocument
<1>1. ViewerInv => RowsFollowDocument
  <2> SUFFICES ASSUME ViewerInv, view.rows # <<>> PROVE RowsFollowDocument
    BY DEF RowsFollowDocument
  <2> DEFINE d == Documents[view.drawn]
             lo == BlockAt(d, view.first).at
  <2>1. Sound(view, flags) /\ doc \in Names /\ view.size \in Nat /\ Len(view.rows) \in Nat
    BY DEF ViewerInv, Typed, Sound, Ready, Fit, View
  <2>2. view.drawn \in Names /\ IsDocument(d)
    BY <2>1, SoundReady, Mapped
  <2>3. PICK room \in Rooms :
          /\ Listing(view.rows, d, lo, LastAddress(d), room)
          /\ Len(view.rows) >= view.size \/ (view.sized = view.drawn /\ room = Room(view.size))
    BY <2>1, RowsListed
  <2>4. Start(view.drawn, view.first) = lo
    BY DEF Start
  <2> HIDE DEF d, lo
  <2>5. LET shown == {i \in DOMAIN view.rows : view.rows[i].text = "block"}
            rest == {a \in StartsOf(d) : a >= lo}
        IN  /\ {view.rows[i].address : i \in shown} \subseteq rest
            /\ \A i \in shown : \A a \in rest : a <= view.rows[i].address =>
                 \E j \in shown : view.rows[j].address = a
            /\ \A i, j \in shown : i < j => view.rows[i].address < view.rows[j].address
            /\ Len(view.rows) >= view.size \/ \A a \in rest : \E j \in shown : view.rows[j].address = a
            /\ \A i, j \in DOMAIN view.rows : i < j => view.rows[i].address <= view.rows[j].address
    <3>1. Len(view.rows) >= view.size \/ (view.size \in Nat /\ room = Room(view.size))
      BY <2>1, <2>3
    <3> QED
      BY <2>2, <2>3, <3>1, ListingFollows
  <2> QED
    BY <2>4, <2>5 DEF RowsFollowDocument, d
<1> QED
  BY <1>1, ViewerInvariant, PTL

(* The cursor's row is one of the current address, if that came from rows   *)
(* of the document that is shown: moveTo, scroll and goTo put it there, and *)
(* selecting, resizing and drawing again leave it where it is.              *)
THEOREM CursorStays == Spec => []CursorOnCurrent
<1>1. ViewerInv => CursorOnCurrent
  <2> SUFFICES ASSUME ViewerInv, view.placed = view.drawn, view.anchor \in DOMAIN view.rows
               PROVE  view.rows[view.anchor].address = current
    BY DEF CursorOnCurrent
  <2> DEFINE d == Documents[view.drawn]
             R(n) == RowsOfSize(d, view.first, n, flags)
  <2>1. Sound(view, flags) /\ Kept(view, current, flags) /\ doc \in Names
    BY DEF ViewerInv, Typed
  <2>2. view \in View /\ view.drawn \in Names /\ view.drawn # NoDocument /\ IsDocument(d)
        /\ view.first \in Nat /\ view.size \in Nat
    BY <2>1, SoundReady, Mapped DEF Ready, Fit, Sound, View
  <2>3. view.rows # <<>> /\ SegmentOf(d, view.first) # None
    <3>1. view.rows # <<>>
      BY <2>2 DEF View
    <3> QED
      BY <2>1, <3>1 DEF Sound, Ready
  <2>4. view.cursor = "stays" /\ view.rows = R(view.size)
    BY <2>1, <2>2, <2>3 DEF Sound, MadeBy, View
  <2>5. PICK n \in Nat : view.anchor \in DOMAIN R(n) /\ R(n)[view.anchor].address = current
    BY <2>1, <2>4 DEF Kept, Held
  <2>6. \A k, l \in Nat : k <= l => Begins(R(k), R(l), k)
    BY <2>2, <2>3, RowsBegin
  <2> HIDE DEF R, d
  <2>7. ASSUME NEW k \in Nat, NEW l \in Nat, k <= l,
               view.anchor \in DOMAIN R(k), view.anchor \in DOMAIN R(l)
        PROVE  R(k)[view.anchor] = R(l)[view.anchor]
    <3>1. R(k) \in Seq(Row) /\ Extends(R(k), R(l))
      BY <2>6, <2>7 DEF Begins
    <3>2. view.anchor \in 1 .. Len(R(k))
      BY <2>7, <3>1
    <3> QED
      BY <3>1, <3>2 DEF Extends
  <2>8. R(n)[view.anchor] = R(view.size)[view.anchor]
    BY <2>2, <2>4, <2>5, <2>7
  <2> QED
    BY <2>4, <2>5, <2>8
<1> QED
  BY <1>1, ViewerInvariant, PTL

(* The paths drawn between rows are the branches between them, however the  *)
(* surface was moved while the context was busy.                            *)
THEOREM PathsAreBranches == Spec => []PathsCurrent
<1>1. ViewerInv => PathsCurrent
  <2> SUFFICES ASSUME ViewerInv, ~busy, view.drawn = doc, view.sized = doc PROVE PathsCurrent
    BY DEF PathsCurrent
  <2> DEFINE d == Documents[doc]
             rows == view.rows
             seen == {rows[i].address : i \in 1 .. Smaller(view.size, Len(rows))}
             drawn(l) == [from |-> LastIndexOf(rows, l[1]), to |-> LastIndexOf(rows, l[2])]
             Between(p) == {p.from, p.to} \subseteq 1 .. Smaller(view.size, Len(rows))
  <2>1. Sound(view, flags) /\ doc \in Names /\ PathsDrawn(view)
    BY DEF ViewerInv, Typed
  <2>2. IsDocument(d) /\ view.size \in Nat /\ rows \in Seq(Row)
    BY <2>1, Mapped DEF Sound, Ready, Fit, View
  <2>3. CASE rows = <<>>
    <3>1. Smaller(view.size, Len(rows)) = 0
      BY <2>2, <2>3 DEF Smaller
    <3>2. seen = {} /\ \A p : ~Between(p)
      BY <3>1
    <3> QED
      BY <3>2 DEF PathsCurrent
  <2>4. CASE rows # <<>>
    <3>1. view.paths = Paths(d, rows, view.size)
      BY <2>1, <2>4 DEF PathsDrawn
    <3>2. Anchored(rows)
      <4>1. PICK room \in Rooms : Listing(rows, Documents[view.drawn],
                BlockAt(Documents[view.drawn], view.first).at, LastAddress(Documents[view.drawn]), room)
        BY <2>1, <2>4, RowsListed
      <4> QED
        BY <4>1 DEF Listing
    <3> QED
      BY <2>2, <3>1, <3>2, PathsAre DEF PathsCurrent
  <2> QED
    BY <2>3, <2>4
<1> QED
  BY <1>1, ViewerInvariant, PTL
=============================================================================
