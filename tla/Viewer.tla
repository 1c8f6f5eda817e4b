------------------------------- MODULE Viewer -------------------------------
(***************************************************************************)
(* A Surface with its Cursor (rdcore/surface): a user interface asks it    *)
(* for a size and moves about in it, the engine becomes busy, changes the  *)
(* document and is done.  A call is an action, with everything it does up  *)
(* to the last notification.                                               *)
(*                                                                         *)
(* Two places read m_rows past its end: moveTo, where what it reads        *)
(* becomes the current address, and checkSelection, where it only paints.  *)
(*                                                                         *)
(* KeepsSelection, OnlyEntry and PushesLater are faulty variants of the    *)
(* operator that follows each of them; nothing uses them here.             *)
(***************************************************************************)
EXTENDS SurfaceRows

CONSTANTS
  Documents,  (* the surface may find, by their names                       *)
  Addresses,  (* that a user interface asks for                             *)
  Sizes,      (* numbers of rows                                            *)
  Ranges,     (* pairs of addresses a listing is asked for                  *)
  Rows,       (* rows the cursor is sent to                                 *)
  Turns,      (* numbers of blocks to scroll by                             *)
  FlagSets,   (* RDRendererFlags of a surface                               *)
  MaxCalls    (* bound on the calls and events                              *)

NoDocument == "none"

(* A surface of no rows is not resized; segments are mapped before there is *)
(* a surface.                                                               *)
ASSUME ViewerAssumption ==
  /\ NoDocument \notin DOMAIN Documents
  /\ \A n \in DOMAIN Documents : IsDocument(Documents[n])
  /\ \A n, m \in DOMAIN Documents : SameSegments(Documents[n], Documents[m])
  /\ Addresses \subseteq Nat /\ Sizes \subseteq Nat \ {0} /\ Ranges \subseteq Nat \X Nat
  /\ Rows \subseteq Nat /\ Turns \subseteq Int /\ MaxCalls \in Nat

VARIABLES
  doc,      (* the document                                                *)
  busy,     (* Context::busy                                               *)
  flags,    (* m_flags                                                     *)
  view,     (* the rows that are shown, and where the cursor is            *)
  current,  (* m_currentaddress                                            *)
  back,     (* m_hback, its top last                                       *)
  forward,  (* m_hforward, its top first                                   *)
  calls     (* how many there were                                         *)

history == <<back, forward>>
vars == <<doc, busy, flags, view, current, history, calls>>

(* m_range, m_nrows and m_rows; the rows of m_position and of m_selection;  *)
(* m_updatecursor; m_paths.  Histories: the document that the rows show,    *)
(* that of which resize made them, and that of the rows from which the      *)
(* current address was taken, as long as these are shown.                   *)
NoView(d) ==
  [first |-> None, second |-> None, size |-> 0, rows |-> <<>>, row |-> 1, anchor |-> 1,
   cursor |-> "stays", paths |-> {}, drawn |-> d, sized |-> d, placed |-> NoDocument]
-----------------------------------------------------------------------------
(* updateCompleted: the cursor goes to the last of the rows of the current  *)
(* address, if they must be followed; a busy context leaves the paths.      *)
Completed(v, address, d, b) ==
  LET hits == {i \in DOMAIN v.rows : v.rows[i].address = address}
      at == IF v.cursor = "follows" /\ hits # {} THEN Greatest(hits) ELSE 0
  IN  [v EXCEPT !.cursor = "stays", !.drawn = d,
                !.row = IF at # 0 THEN at ELSE @, !.anchor = IF at # 0 THEN at ELSE @,
                !.placed = IF at # 0 \/ (v.cursor = "stays" /\ @ = d) THEN d ELSE NoDocument,
                !.paths = IF b THEN @ ELSE Paths(Documents[d], v.rows, v.size)]

Resized(v, n, address, d, b) ==
  LET r == RowsOfSize(Documents[d], v.first, n, flags)
  IN  [Completed([v EXCEPT !.size = n, !.rows = r], address, d, b) EXCEPT
         !.sized = d, !.second = IF r = <<>> THEN v.first ELSE r[Smaller(n, Len(r))].address]

Ranged(v, first, second, address, d, b) ==
  LET r == RowsOfRange(Documents[d], first, second, flags)
  IN  IF None \in {first, second} THEN v
      ELSE [Completed([v EXCEPT !.first = first, !.second = second, !.rows = r], address, d, b)
              EXCEPT !.size = Len(r), !.sized = NoDocument, !.placed = NoDocument]

(* update() *)
Updated(v, address, d, b) ==
  IF v.size # 0 THEN Resized(v, v.size, address, d, b)
  ELSE IF v.first # v.second THEN Ranged(v, v.first, v.second, address, d, b)
  ELSE v

(* goTo of a block; ensureVisible goes back a quarter of the rows, counted  *)
(* in blocks.                                                               *)
Start(d, a) == BlockAt(Documents[d], a).at

Centered(d, a, n) ==
  LET s == Documents[d].segments[SegmentOf(Documents[d], a)]
      k == BlockIndex(s, a)
  IN  s.blocks[IF k > n \div 4 THEN k - n \div 4 ELSE 1].at

Moved(v, a, d, b) ==
  LET top == IF "CenterOnCursor" \in flags THEN Centered(d, a, v.size) ELSE Start(d, a)
  IN  Updated([v EXCEPT !.first = top, !.cursor = "follows"], Start(d, a), d, b)

(* updateHistory *)
Remembered ==
  IF current = None \/ (back # <<>> /\ Last(back) = current) THEN back ELSE Append(back, current)

GoesTo(a) ==
  IF SegmentOf(Documents[doc], a) = None THEN UNCHANGED <<view, current>>
  ELSE view' = Moved(view, a, doc, busy) /\ current' = Start(doc, a)

(* Surface(), with the document's entry or its first address *)
Opening(d) ==
  IF Documents[d].entry # None THEN Documents[d].entry ELSE FirstAddress(Documents[d])

Init ==
  /\ doc \in DOMAIN Documents /\ flags \in FlagSets /\ busy = FALSE
  /\ view = Moved(NoView(doc), Opening(doc), doc, FALSE)
  /\ current = Start(doc, Opening(doc)) /\ back = <<>> /\ forward = <<>>
  /\ calls = 0
-----------------------------------------------------------------------------
Called == calls < MaxCalls /\ calls' = calls + 1

GoTo(a) ==
  /\ Called
  /\ back' = IF SegmentOf(Documents[doc], a) = None THEN back ELSE Remembered
  /\ GoesTo(a)
  /\ UNCHANGED <<doc, busy, flags, forward>>

(* RDSurface_Seek *)
Seek(a) == Called /\ GoesTo(a) /\ UNCHANGED <<doc, busy, flags, history>>

PushesLater(a) == Start(doc, a)

Pushed(a) == current

GoBack ==
  /\ Called
  /\ back # <<>>
  /\ back' = Front(back)
  /\ forward' = IF current = None THEN forward ELSE <<Pushed(Last(back))>> \o forward
  /\ GoesTo(Last(back))
  /\ UNCHANGED <<doc, busy, flags>>

GoForward ==
  /\ Called
  /\ forward # <<>>
  /\ forward' = Tail(forward)
  /\ back' = IF current = None THEN back ELSE Append(back, Pushed(Head(forward)))
  /\ GoesTo(Head(forward))
  /\ UNCHANGED <<doc, busy, flags>>

(* By n blocks; by 0, it moves sideways. *)
KeepsSelection(v) == v

Cleared(v) == [v EXCEPT !.anchor = v.row]

Scrolls(n) ==
  LET top == IF view.rows = <<>> THEN view.first ELSE view.rows[1].address
      first == IF n = 0 THEN view.first ELSE Scrolled(Documents[doc], top, n)
      v == Updated(Cleared([view EXCEPT !.first = first]), current, doc, busy)
  IN  IF v.row \in DOMAIN v.rows
      THEN current' = v.rows[v.row].address /\ view' = [v EXCEPT !.placed = v.sized]
      ELSE view' = [v EXCEPT !.placed = NoDocument] /\ UNCHANGED current

Scroll(n) == Called /\ Scrolls(n) /\ UNCHANGED <<doc, busy, flags, history>>

(* moveTo and selectAt, with a row the user interface has room for. *)
MoveTo(row) ==
  /\ Called
  /\ view.rows # <<>>
  /\ IF row \in 1 .. view.size
     THEN \E a \in IF row \in DOMAIN view.rows THEN {view.rows[row].address}
                   ELSE Addresses \cup {None} :
            /\ current' = a
            /\ view' = Updated([view EXCEPT !.row = row, !.anchor = row,
                                   !.placed = IF row \in DOMAIN view.rows THEN view.sized
                                              ELSE NoDocument], a, doc, busy)
     ELSE Scrolls(row - 1)
  /\ UNCHANGED <<doc, busy, flags, history>>

(* Without rows, select makes row -1 the current one and paints it.         *)
Select(row) ==
  /\ Called
  /\ view.rows # <<>>
  /\ LET last == Smaller(view.size, Len(view.rows))
     IN  view' = Updated([view EXCEPT !.row = Smaller(IF row = 0 THEN 1 ELSE row, last)],
                         current, doc, busy)
  /\ UNCHANGED <<doc, busy, flags, current, history>>

Resize(n) ==
  /\ Called
  /\ view' = Resized(view, n, current, doc, busy)
  /\ UNCHANGED <<doc, busy, flags, current, history>>

ResizeRange(first, second) ==
  /\ Called
  /\ view' = Ranged(view, first, second, current, doc, busy)
  /\ UNCHANGED <<doc, busy, flags, current, history>>

(* update, activate, deactivate, and what the flags of the context being    *)
(* changed lead to.                                                         *)
Update ==
  /\ Called
  /\ view' = Updated(view, current, doc, busy)
  /\ UNCHANGED <<doc, busy, flags, current, history>>

BusyBegin == Called /\ ~busy /\ busy' = TRUE /\ UNCHANGED <<doc, flags, view, current, history>>

(* What decoding and the user's own changes make of the document.           *)
Change == Called /\ doc' \in DOMAIN Documents /\ UNCHANGED <<busy, flags, view, current, history>>

(* handleEvents, when the engine is done *)
OnlyEntry(v, address) == v

Handled(v, address) == Updated(v, address, doc, FALSE)

BusyEnd ==
  /\ Called
  /\ busy /\ busy' = FALSE
  /\ IF Documents[doc].entry # None
     THEN LET entry == Start(doc, Documents[doc].entry)
          IN  view' = Handled(Moved(view, entry, doc, FALSE), entry) /\ current' = entry
     ELSE view' = Handled(view, current) /\ UNCHANGED current
  /\ UNCHANGED <<doc, flags, history>>

Next ==
  \/ \E a \in Addresses : GoTo(a) \/ Seek(a)
  \/ GoBack \/ GoForward
  \/ \E n \in Turns : Scroll(n)
  \/ \E n \in Sizes : Resize(n)
  \/ \E row \in Rows : MoveTo(row) \/ Select(row)
  \/ \E r \in Ranges : ResizeRange(r[1], r[2])
  \/ Update \/ BusyBegin \/ Change \/ BusyEnd

Spec == Init /\ [][Next]_vars
-----------------------------------------------------------------------------
(* Type invariant.  There are rows exactly if there is room for some and    *)
(* they begin in a segment; the cursor's rows are not the code's -1.        *)
TypeOK ==
  /\ {doc, view.drawn} \subseteq DOMAIN Documents
  /\ busy \in BOOLEAN /\ flags \in FlagSets
  /\ view.size \in Nat /\ view.first \in Nat
  /\ view.rows # <<>> <=> view.size # 0 /\ SegmentOf(Documents[doc], view.first) # None
  /\ view.row \in Nat \ {0} /\ view.anchor \in Nat \ {0}
  /\ current \in Nat /\ back \in Seq(Nat \ {None}) /\ forward \in Seq(Nat \ {None})

(* What is shown never vanishes while a user goes about in it, not at the   *)
(* ends of segments, in the gaps between them or when the document changes: *)
(* only resizeRange shows nothing, and only for a range that begins in no   *)
(* segment or ends before the block it begins in.                           *)
RowsStay ==
  [][view.rows # <<>> /\ view'.rows = <<>> =>
       \E r \in Ranges :
         /\ ResizeRange(r[1], r[2])
         /\ SegmentOf(Documents[doc], r[1]) # None => r[2] < Start(doc, r[1])]_vars

StartsOf(d) == {b.at : b \in UNION {Range(s.blocks) : s \in Range(d.segments)}}

(* The rows show the blocks of the document one after the other, from the   *)
(* one at the top until they fill the surface or the document ends, across  *)
(* the ends of segments; getRangeColumn searches them by address as sorted  *)
(* (surfacerenderer.cpp:58).                                                *)
RowsFollowDocument ==
  view.rows # <<>> =>
    LET shown == {i \in DOMAIN view.rows : view.rows[i].text = "block"}
        rest == {a \in StartsOf(Documents[view.drawn]) : a >= Start(view.drawn, view.first)}
    IN  /\ {view.rows[i].address : i \in shown} \subseteq rest
        /\ \A i \in shown : \A a \in rest : a <= view.rows[i].address =>
             \E j \in shown : view.rows[j].address = a
        /\ \A i, j \in shown : i < j => view.rows[i].address < view.rows[j].address
        /\ Len(view.rows) >= view.size \/ \A a \in rest : \E j \in shown : view.rows[j].address = a
        /\ \A i, j \in DOMAIN view.rows : i < j => view.rows[i].address <= view.rows[j].address

(* The cursor, where a selection begins, is on a row of the current         *)
(* address, whatever was scrolled, selected and resized since, if that      *)
(* address came from rows of the document that is shown.                    *)
CursorOnCurrent ==
  view.placed = view.drawn /\ view.anchor \in DOMAIN view.rows =>
    view.rows[view.anchor].address = current

(* Unless the context is busy, every branch between two rows, to a label or *)
(* from an address without one, is drawn between them, and nothing else is: *)
(* also after it was busy while the surface was scrolled.                   *)
(* resizeRange goes by the number of rows there were before.                *)
PathsCurrent ==
  ~busy /\ view.drawn = doc /\ view.sized = doc =>
    LET d == Documents[doc]
        rows == view.rows
        seen == {rows[i].address : i \in 1 .. Smaller(view.size, Len(rows))}
        drawn(l) == [from |-> LastIndexOf(rows, l[1]), to |-> LastIndexOf(rows, l[2])]
    IN  /\ \A l \in d.jumps :
             /\ l[1] # l[2] /\ {l[1], l[2]} \subseteq seen
             /\ "Location" \in FlagsOf(d, l[2]) \/ "Location" \notin FlagsOf(d, l[1])
             /\ "Imported" \notin FlagsOf(d, l[1]) \cup FlagsOf(d, l[2])
             => drawn(l) \in view.paths
        /\ \A p \in view.paths : {p.from, p.to} \subseteq 1 .. Smaller(view.size, Len(rows)) =>
             \E l \in d.jumps \cup d.calls : drawn(l) = p

(* Going back and going forward undo each other: they move along one tape   *)
(* of addresses, if the one they move to still starts a block.              *)
Tape == back \o <<current>> \o forward
Starts(a) == SegmentOf(Documents[doc], a) # None /\ Start(doc, a) = a

BackAndForth ==
  [][/\ GoBack /\ current # None /\ Starts(Last(back)) => Tape' = Tape
     /\ GoForward /\ current # None /\ Starts(Head(forward)) => Tape' = Tape]_vars
=============================================================================
