---------------------------- MODULE LayeredLayout ----------------------------
(***************************************************************************)
(* LayeredLayout (rdcore/builtin/graph/layeredlayout): places the nodes of *)
(* a graph in a grid, two columns to a node, routes the edges through      *)
(* lanes between rows and columns, and computes the coordinates that a     *)
(* user interface draws.  One action per step of its loops.                *)
(*                                                                         *)
(* Column lane c runs left of column c, so that the lane of a node's       *)
(* second column runs through the node; row lane r runs above row r.       *)
(* m_blocks is an unordered map: of several nodes that lead to the best    *)
(* one, any may be taken.  Arrow heads are left out.                       *)
(*                                                                         *)
(* PicksSeen, SideBySide and EveryColumn are faulty variants of the        *)
(* operator that follows each of them; nothing uses them here.             *)
(***************************************************************************)
EXTENDS Integers, Sequences, SequencesExt

CONSTANTS
  LayoutTypes, (* of RDLayeredLayoutType                                   *)
  NodeSizes    (* widths and heights of nodes: functions of their numbers  *)

ASSUME LayoutAssumption == LayoutTypes \subseteq {"Medium", "Narrow", "Wide"}

PADDING == 16
LANE == 8 (* LLAYOUT_PADDING_DIV2 *)
NODE_PADDING == 32

VARIABLES
  step,     (* the phase of execute()                                      *)
  drawing,  (* the StyledGraph: number of nodes, edges, root, sizes, type  *)
  incoming, (* of each node, those not yet taken out of its list           *)
  children, (* of each node, newoutgoing                                   *)
  queue,    (* of nodes to go on from                                      *)
  order,    (* m_blockorder                                                *)
  grid,     (* where each node is, and the size of the grid                *)
  toroute,  (* the edges still to be routed                                *)
  routing,  (* the routes, and the marks in the lanes of rows and columns; *)
            (* was: in those of columns, also marks that are gone          *)
  measure,  (* the room in the lanes and the sizes and positions of rows   *)
            (* and columns                                                 *)
  picture   (* the coordinates of nodes, routes and the whole              *)

tree == <<drawing, incoming, children, queue, order>>
layoutVars == <<step, tree, grid, toroute, routing, measure, picture>>

Nodes == 1 .. drawing.nodes

(* Those of a sequence that are in a set, in their order.                   *)
Only(s, T) ==
  LET only[k \in 0 .. Len(s)] ==
        IF k = 0 THEN <<>>
        ELSE IF s[k] \in T THEN Append(only[k - 1], s[k]) ELSE only[k - 1]
  IN  only[Len(s)]

EdgesFrom(n) == Only(drawing.edges, {n} \X Nodes)
Outgoing(n) ==
  LET E == EdgesFrom(n) IN [i \in DOMAIN E |-> E[i][2]]

Smaller(a, b) == IF a < b THEN a ELSE b
Larger(a, b) == IF a < b THEN b ELSE a
Largest(S) == CHOOSE a \in S : \A b \in S : b <= a
LeastOf(S) == CHOOSE a \in S : \A b \in S : a <= b
-----------------------------------------------------------------------------
NoGrid == [cell |-> [n \in {} |-> 0], rows |-> 0, cols |-> 0]
NoRouting == [routes |-> <<>>, row |-> {}, col |-> {}, was |-> {}]
NoPicture == [boxes |-> <<>>, lines |-> <<>>, width |-> 0, height |-> 0]

(* createBlocks, for a graph of n nodes *)
Open(n, edges, root, type, size) ==
  /\ step = "closed" /\ step' = "acyclic"
  /\ drawing' = [nodes |-> n, edges |-> edges, root |-> root, type |-> type,
                 width |-> [m \in 1 .. n |-> size[m][1]],
                 height |-> [m \in 1 .. n |-> size[m][2] + NODE_PADDING]]
  /\ incoming' = [m \in 1 .. n |-> {s \in 1 .. n : Contains(edges, <<s, m>>)}]
  /\ children' = [m \in 1 .. n |-> <<>>]
  /\ queue' = <<root>>
  /\ UNCHANGED <<order, grid, toroute, routing, measure, picture>>

(* visited: the nodes that were put into the queue. *)
Visited == ToSet(order) \cup ToSet(queue)

(* makeAcyclic goes on to the nodes that nothing else leads to.             *)
PicksSeen(n) == Only(Outgoing(n), {t \in Nodes : incoming[t] = {n}})

Picks(n) == Only(Outgoing(n), {t \in Nodes \ Visited : incoming[t] = {n}})

TakeFront ==
  /\ step = "acyclic" /\ queue # <<>>
  /\ LET n == Head(queue)
     IN  /\ order' = Append(order, n)
         /\ queue' = Tail(queue) \o Picks(n)
         /\ children' = [children EXCEPT ![n] = @ \o Picks(n)]
         /\ incoming' = [t \in Nodes |-> IF Contains(Outgoing(n), t) /\ t \notin Visited
                                         THEN incoming[t] \ {n} ELSE incoming[t]]
  /\ UNCHANGED <<step, drawing, grid, toroute, routing, measure, picture>>

(* The nodes that are led to and not visited, and of these the ones with    *)
(* the fewest others that lead to them.                                     *)
Seen == (UNION {ToSet(Outgoing(n)) : n \in Visited}) \ Visited
Best ==
  LeastOf({t \in Seen : \A u \in Seen : Cardinality(incoming[t]) <= Cardinality(incoming[u])})

PickBest ==
  /\ step = "acyclic" /\ queue = <<>> /\ Seen # {}
  /\ \E parent \in {n \in Visited : Contains(Outgoing(n), Best)} :
       children' = [children EXCEPT ![parent] = Append(@, Best)]
  /\ queue' = <<Best>>
  /\ UNCHANGED <<step, drawing, incoming, order, grid, toroute, routing, measure, picture>>
-----------------------------------------------------------------------------
(* computeLayout: a layout is the cells of the nodes below a node and the   *)
(* size of the grid they take; adjustGraphLayout shifts it.                 *)
Shifted(cell, cols) ==
  [m \in DOMAIN cell |-> [row |-> cell[m].row + 1, col |-> cell[m].col + cols]]

(* Two maps as one; where both have a value, the first one's.               *)
Both(f, g) == [m \in DOMAIN f \cup DOMAIN g |-> IF m \in DOMAIN f THEN f[m] ELSE g[m]]

(* The node above the cells of its children, whose sum has cols columns.    *)
Above(n, cells, col, cols, rows) ==
  [cell |-> Both([m \in {n} |-> [row |-> 0, col |-> col]], cells), rows |-> rows, cols |-> cols]

(* Two children: one without children of its own goes next to the other     *)
(* one, above that one's children.  shift: the columns to move both by.     *)
SideBySide(L, R, leftcol, rightcol, leftleaf, rightleaf) ==
  IF leftleaf
  THEN [left |-> 0, right |-> 0, cols |-> R.cols]
  ELSE IF rightleaf
  THEN [left |-> 0, right |-> leftcol + 2, cols |-> Larger(L.cols, leftcol + 4)]
  ELSE [left |-> 0, right |-> L.cols, cols |-> L.cols + R.cols]

NextTo(L, R, leftcol, rightcol, leftleaf, rightleaf) ==
  IF leftleaf
  THEN LET add == Larger(0, 2 - rightcol)
       IN  [left |-> rightcol - 2 + add, right |-> add, cols |-> R.cols + add]
  ELSE IF rightleaf
  THEN [left |-> 0, right |-> leftcol + 2, cols |-> Larger(L.cols, leftcol + 4)]
  ELSE [left |-> 0, right |-> L.cols, cols |-> L.cols + R.cols]

OverTwo(n, L, R, l, r) ==
  LET put == NextTo(L, R, L.cell[l].col, R.cell[r].col, children[l] = <<>>, children[r] = <<>>)
      cells == Both(Shifted(L.cell, put.left), Shifted(R.cell, put.right))
      col == IF drawing.type = "Medium" THEN (cells[l].col + cells[r].col) \div 2
             ELSE (put.cols - 2) \div 2
  IN  Above(n, cells, col, Larger(2, put.cols), 1 + Larger(L.rows, R.rows))

(* A layout to the right of another one.                                    *)
Beside(L, R) ==
  [cell |-> Both(L.cell, Shifted(R.cell, L.cols)),
   rows |-> Larger(L.rows, R.rows), cols |-> L.cols + R.cols]

RowOf(kids, layouts) ==
  LET row[i \in 0 .. Len(kids)] ==
        IF i = 0 THEN NoGrid ELSE Beside(row[i - 1], layouts[kids[i]])
  IN  row[Len(kids)]

InARow(n, kids, layouts) ==
  LET sum == RowOf(kids, layouts)
      col == IF Len(kids) = 1 THEN layouts[kids[1]].cell[kids[1]].col
             ELSE IF sum.cols >= 2 THEN (sum.cols - 2) \div 2 ELSE 0
  IN  Above(n, sum.cell, col, Larger(2, sum.cols), 1 + sum.rows)

(* The children of a node are behind it in the order. *)
LayoutFrom(n, layouts) ==
  LET kids == children[n]
  IN  IF Len(kids) = 2 /\ drawing.type # "Wide"
      THEN OverTwo(n, layouts[kids[1]], layouts[kids[2]], kids[1], kids[2])
      ELSE InARow(n, kids, layouts)

Layouts ==
  LET last[k \in 0 .. Len(order)] ==
        IF k = 0 THEN [n \in {} |-> NoGrid]
        ELSE LET n == order[Len(order) + 1 - k]
                 layouts == last[k - 1]
             IN  Both([m \in {n} |-> LayoutFrom(n, layouts)], layouts)
  IN  last[Len(order)]

(* performEdgeRouting goes by the edges in the order of their sources.      *)
EdgesInOrder ==
  LET first[k \in 0 .. Len(order)] ==
        IF k = 0 THEN <<>> ELSE first[k - 1] \o EdgesFrom(order[k])
  IN  first[Len(order)]

(* A node that the root does not lead to stays where it was made.           *)
Arrange ==
  /\ step = "acyclic" /\ queue = <<>> /\ Seen = {}
  /\ step' = "route"
  /\ grid' = [Layouts[drawing.root] EXCEPT !.cell = Both(@, [n \in Nodes |-> [row |-> 0, col |-> 0]])]
  /\ toroute' = EdgesInOrder
  /\ UNCHANGED <<tree, routing, measure, picture>>
-----------------------------------------------------------------------------
(* m_edgevalid: the column lanes that do not run through a node.            *)
EveryColumn(row, col) == TRUE

EdgeValid(row, col) == \A n \in Nodes : grid.cell[n] # [row |-> row, col |-> col - 1]

ColumnClear(col, minrow, maxrow) ==
  /\ col \in 0 .. grid.cols
  /\ \A row \in minrow .. maxrow - 1 : EdgeValid(row, col)

(* The column in which an edge goes from row to row: the one it leaves      *)
(* from, the one it arrives in, or the nearest one, the left one first.     *)
RouteColumn(from, to, minrow, maxrow) ==
  LET clear(c) == ColumnClear(c, minrow, maxrow)
      ofs == LeastOf({o \in 0 .. grid.cols : clear(from - o) \/ clear(from + o)})
  IN  IF minrow = maxrow \/ clear(from) THEN from
      ELSE IF clear(to) THEN to
      ELSE IF clear(from - ofs) THEN from - ofs ELSE from + ofs

(* The first index free in all of the cells.                                *)
FreeIndex(marks, rows, cols) ==
  LeastOf({i \in 0 .. Cardinality({m[3] : m \in marks}) :
             \A r \in rows, c \in cols : <<r, c, i>> \notin marks})

Lane(rows, cols, i) == {<<r, c, i>> : r \in rows, c \in cols}
Between(a, b) == Smaller(a, b) .. Larger(a, b)

(* The lane taken for a vertical line.                                     *)
VertLane(marks, rows, col) == FreeIndex(marks, rows, {col})

(* routeEdge: out of the source into the row lane below it, along it to the *)
(* column, along the column to the row lane above the target, along that to *)
(* the target.  The index of a point is the lane that leads on from it.     *)
Routed(s, t) ==
  LET lanes == routing
      row == grid.cell[s].row + 1
      from == grid.cell[s].col + 1
      endrow == grid.cell[t].row
      to == grid.cell[t].col + 1
      rows == Between(row, endrow)
      col == RouteColumn(from, to, Smaller(row, endrow), Larger(row, endrow))
      out == FreeIndex(lanes.col, {row}, {from})
      across == col # from
      down == endrow # row
      back == col # to
      straight == down /\ ~across
      i1 == FreeIndex(lanes.row, {row}, Between(from, col))
      row1 == IF across THEN lanes.row \cup Lane({row}, Between(from, col), i1) ELSE lanes.row
      col1 == IF straight THEN lanes.col ELSE lanes.col \cup {<<row, from, out>>}
      i2 == VertLane(col1, rows, col)
      col2 == IF down THEN col1 \cup Lane(rows, {col}, i2) ELSE col1
      i3 == FreeIndex(row1, {endrow}, Between(col, to))
      row2 == IF back THEN row1 \cup Lane({endrow}, Between(col, to), i3) ELSE row1
      horiz == back \/ (across /\ ~down)
      i4 == IF horiz THEN FreeIndex(col2, {endrow}, {to}) ELSE 0
      cells == <<<<row, from>>>> \o (IF across THEN <<<<row, col>>>> ELSE <<>>)
               \o (IF down THEN <<<<endrow, col>>>> ELSE <<>>)
               \o (IF back THEN <<<<endrow, to>>>> ELSE <<>>)
      indices == (IF across THEN <<i1>> ELSE <<>>) \o (IF down THEN <<i2>> ELSE <<>>)
                 \o (IF back THEN <<i3>> ELSE <<>>) \o <<i4>>
      route == [edge |-> <<s, t>>, start |-> IF straight THEN i2 ELSE out,
                points |-> [k \in DOMAIN cells |->
                              [row |-> cells[k][1], col |-> cells[k][2], index |-> indices[k]]]]
  IN  [routes |-> Append(lanes.routes, route), row |-> row2,
       col |-> IF horiz THEN col2 \cup {<<endrow, to, i4>>} ELSE col2,
       was |-> lanes.was \cup {<<row, from, out>>}]

RouteEdge ==
  /\ step = "route" /\ toroute # <<>>
  /\ routing' = Routed(Head(toroute)[1], Head(toroute)[2])
  /\ toroute' = Tail(toroute)
  /\ UNCHANGED <<step, tree, grid, measure, picture>>
-----------------------------------------------------------------------------
(* computeEdgeCount, computeRowColumnSizes, computeRowColumnPositions: a    *)
(* lane has room for all indices that were ever marked in one of its cells. *)
Room(marks) == IF marks = {} THEN 0 ELSE 1 + Largest({m[3] : m \in marks})

(* Where rows or columns start, from the room in their lanes and their      *)
(* sizes.                                                                   *)
Positions(n, room, size) ==
  LET edge[i \in 0 .. n] ==
        IF i = 0 THEN PADDING ELSE edge[i - 1] + LANE * room[i - 1] + size[i - 1]
  IN  edge

Measured ==
  LET rows == 0 .. grid.rows
      cols == 0 .. grid.cols
      rowroom == [r \in rows |-> Room({m \in routing.row : m[1] = r})]
      colroom == [c \in cols |-> Room({m \in routing.col \cup routing.was : m[2] = c})]
      in(c) == {n \in Nodes : c - grid.cell[n].col \in {0, 1}}
      width == [c \in cols |-> Largest({0} \cup {drawing.width[n] \div 2 : n \in in(c)})]
      height == [r \in rows |-> Largest({0} \cup {drawing.height[n] :
                                                  n \in {m \in Nodes : grid.cell[m].row = r}})]
  IN  [rowroom |-> rowroom, colroom |-> colroom, width |-> width,
       edgex |-> Positions(grid.cols, colroom, width),
       edgey |-> Positions(grid.rows, rowroom, height)]

Measure ==
  /\ step = "route" /\ toroute = <<>>
  /\ step' = "draw" /\ measure' = Measured
  /\ UNCHANGED <<tree, grid, toroute, routing, picture>>

(* computeNodePositions: over the middle of its columns, if it stays inside. *)
NodeX(n) ==
  LET col == grid.cell[n].col
      room == LANE * measure.colroom[col + 1]
      left == measure.edgex[col] + LANE * measure.colroom[col] + measure.width[col]
      middle == left + room \div 2 - drawing.width[n] \div 2
      right == left + measure.width[col + 1] + room
  IN  IF middle + drawing.width[n] > right THEN right - drawing.width[n] ELSE middle

NodeY(n) ==
  LET row == grid.cell[n].row IN measure.edgey[row] + LANE * measure.rowroom[row] + PADDING

(* What is seen of a node is as high as it was before it was padded.        *)
Height(n) == drawing.height[n] - NODE_PADDING

Point(x, y) == [x |-> x, y |-> y]

(* precomputeEdgeCoordinates: from below the source, for each point of the   *)
(* route to its row, or to its column where that is another one, and down   *)
(* to the target.                                                           *)
Line(r) ==
  LET laneX(col, i) == measure.edgex[col] + LANE * i + 4
      laneY(row, i) == measure.edgey[row] + LANE * i + 4
      bends == Len(r.points)
      bend[k \in 0 .. bends] ==
        IF k = 0
        THEN Point(laneX(r.points[1].col, r.start), NodeY(r.edge[1]) + Height(r.edge[1]) + 4)
        ELSE LET p == r.points[k]
             IN  IF k = 1 \/ r.points[k - 1].col = p.col
                 THEN Point(bend[k - 1].x, laneY(p.row, p.index))
                 ELSE Point(laneX(p.col, p.index), bend[k - 1].y)
  IN  [k \in 1 .. bends + 2 |->
         IF k <= bends + 1 THEN bend[k - 1] ELSE Point(bend[bends].x, NodeY(r.edge[2]) - 1)]

Draw ==
  /\ step = "draw" /\ step' = "done"
  /\ picture' =
       [boxes |-> [n \in Nodes |-> [x |-> NodeX(n), y |-> NodeY(n),
                                    width |-> drawing.width[n], height |-> Height(n)]],
        lines |-> [i \in DOMAIN routing.routes |-> Line(routing.routes[i])],
        width |-> measure.edgex[grid.cols] + PADDING + LANE * measure.colroom[grid.cols],
        height |-> measure.edgey[grid.rows] + PADDING + LANE * measure.rowroom[grid.rows]]
  /\ UNCHANGED <<tree, grid, toroute, routing, measure>>

LayoutInit ==
  /\ step = "closed" /\ drawing = [nodes |-> 0, edges |-> <<>>, root |-> 0, type |-> "Medium",
                                   width |-> <<>>, height |-> <<>>]
  /\ incoming = <<>> /\ children = <<>> /\ queue = <<>> /\ order = <<>>
  /\ grid = NoGrid /\ toroute = <<>> /\ routing = NoRouting /\ measure = <<>>
  /\ picture = NoPicture

LayoutNext == TakeFront \/ PickBest \/ Arrange \/ RouteEdge \/ Measure \/ Draw
-----------------------------------------------------------------------------
(* makeAcyclic constructs an "acyclic graph where each node is used as an   *)
(* edge exactly once" (layeredlayout.cpp:30, 72): a tree of the root and    *)
(* what it leads to.                                                        *)
EachNodeOnce ==
  step # "closed" =>
    /\ IsInjective(order \o queue)
    /\ \A n \in Visited \ {drawing.root} :
         Cardinality({e \in Nodes \X Nodes : e[2] \in DOMAIN children[e[1]]
                                                  /\ children[e[1]][e[2]] = n}) = 1
    /\ \A n \in Nodes : ToSet(children[n]) \subseteq Visited \ {drawing.root}
    /\ step # "acyclic" => Visited = Nodes

Inside(box, p) ==
  p.x > box.x /\ p.x < box.x + box.width /\ p.y > box.y /\ p.y < box.y + box.height

(* Nodes are drawn inside the area and apart from each other.               *)
NodesApart ==
  step = "done" =>
    /\ \A n \in Nodes :
         /\ picture.boxes[n].x >= 0 /\ picture.boxes[n].y >= 0
         /\ picture.boxes[n].x + picture.boxes[n].width <= picture.width
         /\ picture.boxes[n].y + picture.boxes[n].height <= picture.height
    /\ \A m, n \in Nodes :
         LET a == picture.boxes[m]
             b == picture.boxes[n]
         IN  m = n \/ a.x + a.width <= b.x \/ b.x + b.width <= a.x
                   \/ a.y + a.height <= b.y \/ b.y + b.height <= a.y

(* A line between two points, by the smallest and the largest of its x and  *)
(* of its y; and the lines that join the points of an edge.                 *)
Stretch(p, q) ==
  [x1 |-> Smaller(p.x, q.x), x2 |-> Larger(p.x, q.x),
   y1 |-> Smaller(p.y, q.y), y2 |-> Larger(p.y, q.y)]

Lines(L) == {Stretch(L[k], L[k + 1]) : k \in 1 .. Len(L) - 1}

(* An edge that leaves down the column of its source gets for the height of *)
(* its first point the index of its lane in the column, as if that were one *)
(* of the row: it is led down by that much and then down or back up to its  *)
(* end.  This leaves the first point out.                                   *)
Direct(L) ==
  IF L[2].x = L[3].x
  THEN {Stretch(L[1], L[3])} \cup {Stretch(L[k], L[k + 1]) : k \in 3 .. Len(L) - 1}
  ELSE Lines(L)

(* No edge is drawn through a node, wherever the routes of loops lead, not  *)
(* even past its end; and no two edges on top of each other on their ways.  *)
RoutesClear ==
  step = "done" =>
    /\ \A i \in DOMAIN picture.lines : \A l \in Lines(picture.lines[i]), n \in Nodes :
         LET b == picture.boxes[n]
         IN  l.x2 <= b.x \/ b.x + b.width <= l.x1 \/ l.y2 <= b.y \/ b.y + b.height <= l.y1
    /\ \A i, j \in DOMAIN picture.lines : i < j =>
         \A l \in Direct(picture.lines[i]), m \in Direct(picture.lines[j]) :
           /\ l.x1 = l.x2 /\ m.x1 = l.x1 /\ m.x2 = l.x1 => l.y2 <= m.y1 \/ m.y2 <= l.y1
           /\ l.y1 = l.y2 /\ m.y1 = l.y1 /\ m.y2 = l.y1 => l.x2 <= m.x1 \/ m.x2 <= l.x1
=============================================================================
