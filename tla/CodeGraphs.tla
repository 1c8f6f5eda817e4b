------------------------------ MODULE CodeGraphs -----------------------------
(***************************************************************************)
(* From links to a picture: the graphs that cfgStep built, and the layout  *)
(* that a user interface asks for one of them (RDGraphLayout_Layered).     *)
(***************************************************************************)
EXTENDS FunctionGraph, LayeredLayout

(* No graph has more nodes than the code has bytes. *)
ASSUME SizesAssumption == NodeSizes \subseteq [Code -> Nat \X Nat]

vars == <<functionGraphVars, layoutVars>>

Init == FunctionGraphInit /\ LayoutInit

(* execute() of any function's graph *)
Execute ==
  /\ pc = "out" /\ step = "closed"
  /\ \E s \in DOMAIN graphs, type \in LayoutTypes, size \in NodeSizes :
       Open(Len(graphs[s].leaders), graphs[s].edges, NodeOf(graphs[s], s), type, size)
  /\ UNCHANGED functionGraphVars

Layout == LayoutNext /\ UNCHANGED functionGraphVars

BuildGraphs == CfgStep /\ UNCHANGED layoutVars

Next == (Load /\ UNCHANGED layoutVars) \/ BuildGraphs \/ Execute \/ Layout

(* cfgStep runs on the engine's thread; the user asks for a graph or not.   *)
Spec == Init /\ [][Next]_vars /\ WF_vars(BuildGraphs)
-----------------------------------------------------------------------------
GraphOK(g) ==
  /\ g.start \in 0 .. Limit
  /\ g.leaders \in Seq(Code) /\ IsInjective(g.leaders)
  /\ DOMAIN g.ends = Leaders(g) /\ DOMAIN g.members = Leaders(g)
  /\ \A b \in Leaders(g) : g.ends[b] \in b .. Limit /\ g.members[b] \subseteq b .. g.ends[b]
  /\ \A i \in DOMAIN g.edges : g.edges[i] \in (DOMAIN g.leaders) \X (DOMAIN g.leaders)
  /\ IsInjective(g.edges)

(* Type invariant.  Blocks start once, and begin with what they hold;       *)
(* edges join blocks of the graph and are there once; nodes and lanes are   *)
(* inside the grid, whose arrays are accessed unchecked.                    *)
TypeOK ==
  /\ pc \in {"load", "bounds", "next", "leaders", "chain", "blocks", "run", "out"}
  /\ net \in NetType(Linked)
  /\ GraphOK(graph) /\ \A s \in DOMAIN graphs : GraphOK(graphs[s]) /\ graphs[s].start = s
  /\ todo \subseteq Code /\ pending \in Seq(Code) /\ open \subseteq Code
  /\ at \in Linked /\ block \in Code
  /\ step \in {"closed", "acyclic", "route", "draw", "done"}
  /\ step \in {"route", "draw", "done"} =>
       /\ \A n \in Nodes : /\ grid.cell[n].row \in 0 .. grid.rows - 1
                           /\ grid.cell[n].col \in 0 .. grid.cols - 2
       /\ \A m \in routing.row \cup routing.col \cup routing.was :
            m[1] \in 0 .. grid.rows /\ m[2] \in 0 .. grid.cols

(* Whatever loops, switches and shared blocks there are, both passes end    *)
(* for every function.                                                      *)
Terminates == pc # "load" ~> pc = "out"
=============================================================================
