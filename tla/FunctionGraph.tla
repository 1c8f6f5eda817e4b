---------------------------- MODULE FunctionGraph ----------------------------
(***************************************************************************)
(* The engine's cfgStep: it bounds the functions and builds the graph of   *)
(* each (rdcore/builtin/graph/functiongraph) from the links of the         *)
(* DocumentNet; FunctionContainer keeps the graphs by the address they     *)
(* start at and finds the one that holds an address.                       *)
(*                                                                         *)
(* A graph is built in two passes, one action per step of their loops: the *)
(* first follows the links and makes a basic block wherever a branch leads *)
(* to, the second goes through the blocks in the order of their addresses, *)
(* finds their ends and connects them.  Where a node of the net exists, it *)
(* does so because the instruction has a link or something links to it.    *)
(*                                                                         *)
(* What decoding left is a constant of the behaviour.  The history of a    *)
(* graph's blocks, members, is not in the code.                            *)
(*                                                                         *)
(* PushTwice, UpperBound, PopsAfterTest and PushesJumpsOnly are faulty      *)
(* variants of the operator that follows each of them; nothing uses them   *)
(* here.                                                                   *)
(***************************************************************************)
EXTENDS Integers, Sequences, SequencesExt, NetOps

CONSTANTS
  Limit,    (* the segments of code hold the addresses 1 .. Limit          *)
  Programs  (* what decoding left                                          *)

Code == 1 .. Limit

(* Links also lead past the end of the code. *)
Linked == 1 .. 2 * Limit

(* An instruction; of size 0, there is none at that address.                *)
Instr == [size : 0 .. Limit, flows : BOOLEAN, jumps : SUBSET Linked,
          skips : SUBSET Linked, calls : SUBSET Linked]

ASSUME ProgramsAssumption ==
  /\ Limit \in Nat \ {0}
  /\ \A p \in Programs : p.code \in [Code -> Instr] /\ p.functions \subseteq Code
  /\ \A p \in Programs : \A a \in Code :
       p.code[a].size = 0 => ~p.code[a].flows /\ p.code[a].jumps \cup p.code[a].skips
                                                \cup p.code[a].calls = {}

VARIABLES
  program,  (* what decoding left                                          *)
  net,      (* the DocumentNet                                             *)
  graphs,   (* the graphs of FunctionContainer                             *)
  pc,       (* where cfgStep is                                            *)
  todo,     (* the functions it still has to build                         *)
  pending,  (* the addresses the first pass still has to look at           *)
  at,       (* the address a pass is at                                    *)
  block,    (* the block the second pass is in                             *)
  open,     (* those it still has to look at                               *)
  graph     (* the FunctionGraph                                           *)

build == <<todo, pending, at, block, open, graph>>
functionGraphVars == <<program, net, graphs, pc, build>>
-----------------------------------------------------------------------------
(* The links of an address that decoding made nothing of.                   *)
Nothing == [size |-> 0, flows |-> FALSE, jumps |-> {}, skips |-> {}, calls |-> {}]

At(p, a) == IF a \in Code THEN p.code[a] ELSE Nothing
NextOf(p, a) == IF At(p, a).flows THEN a + At(p, a).size ELSE NoNext
Branches(p, a) == At(p, a).jumps \cup At(p, a).skips \cup At(p, a).calls

NetOf(p) ==
  [next |-> [a \in Linked |-> NextOf(p, a)],
   prev |-> [a \in Linked |-> {b \in Code : NextOf(p, b) = a}],
   jumps |-> [a \in Linked |-> At(p, a).jumps],
   skips |-> [a \in Linked |-> At(p, a).skips],
   calls |-> [a \in Linked |-> At(p, a).calls],
   from |-> [a \in Linked |-> {b \in Code : a \in Branches(p, b)}],
   refs |-> [a \in Linked |-> {b \in Code : a \in At(p, b).jumps \cup At(p, b).calls}]]

(* findNode *)
HasNode(p, a) ==
  \/ At(p, a).flows \/ Branches(p, a) # {}
  \/ \E b \in Code : a = NextOf(p, b) \/ a \in Branches(p, b)

(* Where instructions overlap, the one that begins first was decoded last   *)
(* and has the bytes.                                                       *)
BlockAt(p, a) ==
  LET over == {b \in Code : b <= a /\ a < b + p.code[b].size}
  IN  IF over = {} THEN 0 ELSE CHOOSE b \in over : \A c \in over : b <= c

Least(S) == CHOOSE a \in S : \A b \in S : a <= b
Greatest(S) == CHOOSE a \in S : \A b \in S : b <= a
Ascending(S) ==
  LET upto[a \in 0 .. 2 * Limit] ==
        IF a = 0 THEN <<>> ELSE IF a \in S THEN Append(upto[a - 1], a) ELSE upto[a - 1]
  IN  upto[2 * Limit]
Descending(S) == Reverse(Ascending(S))
-----------------------------------------------------------------------------
(* Nodes are numbered as they are made; leaders has the address at which    *)
(* the basic block of each node starts.                                     *)
NewGraph(a) ==
  [start |-> a, leaders |-> <<>>, ends |-> [b \in {} |-> 0], edges |-> <<>>,
   members |-> [b \in {} |-> {}]]

Leaders(g) == ToSet(g.leaders)
NodeOf(g, a) == CHOOSE n \in DOMAIN g.leaders : g.leaders[n] = a
With(f, a, v) == [b \in DOMAIN f \cup {a} |-> IF b = a THEN v ELSE f[b]]

CreateBasicBlock(g, a) ==
  [g EXCEPT !.leaders = Append(@, a), !.ends = With(@, a, a), !.members = With(@, a, {})]

PushTwice(E, s, t) == Append(E, <<s, t>>)

(* pushEdge *)
PushEdge(E, s, t) == IF Contains(E, <<s, t>>) THEN E ELSE Append(E, <<s, t>>)

(* The edges to those of the addresses that start a block.                  *)
PushEdges(g, E, s, targets) ==
  LET pushed[i \in 0 .. Len(targets)] ==
        IF i = 0 THEN E
        ELSE IF targets[i] \in Leaders(g)
        THEN PushEdge(pushed[i - 1], NodeOf(g, s), NodeOf(g, targets[i]))
        ELSE pushed[i - 1]
  IN  pushed[Len(targets)]

(* FunctionBasicBlock::contains *)
Holds(g, b, a) == b <= a /\ a <= g.ends[b]

(* FunctionGraph::basicBlock and FunctionContainer::getGraph look for the   *)
(* first that starts at the address or behind it and search backwards from  *)
(* there; the latter finds nothing behind the last one.                     *)
Backwards(starts, a, single, Has(_)) ==
  LET bound == IF {b \in starts : b >= a} # {} THEN Least({b \in starts : b >= a})
               ELSE IF single THEN Greatest(starts) ELSE 0
      found == {b \in starts : b <= bound /\ Has(b)}
  IN  IF found = {} THEN 0 ELSE Greatest(found)

BasicBlock(g, a) ==
  Backwards(Leaders(g), a, Len(g.leaders) = 1, LAMBDA b : Holds(g, b, a))

UpperBound(G, a) ==
  Backwards(DOMAIN G \ {a}, a, FALSE, LAMBDA s : BasicBlock(G[s], a) # 0)

GetGraph(G, a) ==
  Backwards(DOMAIN G, a, FALSE, LAMBDA s : BasicBlock(G[s], a) # 0)
-----------------------------------------------------------------------------
Load ==
  /\ pc = "load" /\ pc' = "bounds"
  /\ program' \in Programs /\ net' = NetOf(program')
  /\ UNCHANGED <<graphs, build>>

(* Processing function bounds *)
Bounds ==
  /\ pc = "bounds" /\ pc' = "next"
  /\ net' = UnlinkPrevs(net, program.functions)
  /\ todo' = program.functions /\ graphs' = [a \in {} |-> NewGraph(a)]
  /\ UNCHANGED <<program, pending, at, block, open, graph>>

Built == todo' = todo \ {Least(todo)} /\ pc' = "next"

Build ==
  /\ pc = "next" /\ todo # {}
  /\ LET start == BlockAt(program, Least(todo))
     IN  IF start = 0 THEN Built /\ UNCHANGED <<graph, pending>>
         ELSE /\ graph' = NewGraph(start) /\ pending' = <<start>>
              /\ pc' = "leaders" /\ UNCHANGED todo
  /\ UNCHANGED <<program, net, graphs, at, block, open>>

PassedOver(a) == a \notin Code \/ a \in Leaders(graph) \/ ~HasNode(program, a)

PopsAfterTest(a) == IF PassedOver(a) THEN pending ELSE Tail(pending)

Popped(a) == Tail(pending)

Leader ==
  /\ pc = "leaders" /\ pending # <<>>
  /\ LET a == Head(pending)
     IN  /\ pending' = Popped(a)
         /\ IF PassedOver(a)
            THEN UNCHANGED <<graph, at, pc>>
            ELSE graph' = CreateBasicBlock(graph, a) /\ at' = a /\ pc' = "chain"
  /\ UNCHANGED <<program, net, graphs, todo, block, open>>

(* The branches of an instruction, the last one pushed first. *)
PushesJumpsOnly(a) == Descending(net.jumps[a] \cap Code)

Pushes(a) == Descending(net.skips[a] \cap Code) \o Descending(net.jumps[a] \cap Code)

Chain ==
  /\ pc = "chain"
  /\ pending' = Pushes(at) \o pending
  /\ IF net.next[at] = NoNext THEN pc' = "leaders" /\ UNCHANGED at
     ELSE at' = net.next[at] /\ UNCHANGED pc
  /\ UNCHANGED <<program, net, graphs, todo, block, open, graph>>

Prepared ==
  /\ pc = "leaders" /\ pending = <<>>
  /\ IF graph.leaders = <<>> THEN Built /\ UNCHANGED open
     ELSE pc' = "blocks" /\ open' = Leaders(graph) /\ UNCHANGED todo
  /\ UNCHANGED <<program, net, graphs, pending, at, block, graph>>

Block ==
  /\ pc = "blocks" /\ open # {}
  /\ block' = Least(open) /\ at' = Least(open) /\ open' = open \ {Least(open)}
  /\ pc' = "run"
  /\ UNCHANGED <<program, net, graphs, todo, pending, graph>>

(* Whether the block ends in front of an address. *)
EndsBefore(a) == a \notin Code \/ a \in Leaders(graph)

Run ==
  /\ pc = "run"
  /\ LET next == net.next[at]
         targets == Ascending(net.jumps[at]) \o Ascending(net.skips[at]) \o <<next>>
     IN  /\ graph' = [graph EXCEPT !.ends[block] = at, !.members[block] = @ \cup {at},
                                   !.edges = PushEdges(graph, @, block, targets)]
         /\ IF EndsBefore(next) THEN pc' = "blocks" /\ UNCHANGED at
            ELSE at' = next /\ UNCHANGED pc
  /\ UNCHANGED <<program, net, graphs, todo, pending, block, open>>

(* setGraph keeps a graph that starts at the same address. *)
SetGraph ==
  /\ pc = "blocks" /\ open = {}
  /\ graphs' = IF graph.start \in DOMAIN graphs THEN graphs ELSE With(graphs, graph.start, graph)
  /\ Built
  /\ UNCHANGED <<program, net, pending, at, block, open, graph>>

BuildEnd ==
  /\ pc = "next" /\ todo = {} /\ pc' = "out"
  /\ UNCHANGED <<program, net, graphs, build>>

FunctionGraphInit ==
  /\ program = [code |-> [a \in Code |-> Nothing], functions |-> {}]
  /\ net = EmptyNet(Linked) /\ graphs = [a \in {} |-> NewGraph(a)]
  /\ pc = "load" /\ todo = {} /\ pending = <<>> /\ at = 1 /\ block = 1
  /\ open = {} /\ graph = NewGraph(0)

CfgStep ==
  \/ Bounds \/ Build \/ Leader \/ Chain \/ Prepared \/ Block \/ Run
  \/ SetGraph \/ BuildEnd

FunctionGraphNext == Load \/ CfgStep
-----------------------------------------------------------------------------
Graphs == {graphs[s] : s \in DOMAIN graphs}

(* Where control goes from an instruction, by the links that cfgStep left.  *)
GoesTo(a) == ({net.next[a]} \cup net.jumps[a] \cup net.skips[a]) \cap Code

(* What is in every set that has a beginning and all it leads to.           *)
Reached(s) ==
  {a \in Code : \A S \in SUBSET Code :
     s \in S /\ (\A b \in S : GoesTo(b) \subseteq S) => a \in S}

NodesReached(g) ==
  {n \in DOMAIN g.leaders : \A S \in SUBSET DOMAIN g.leaders :
     1 \in S /\ (\A s \in S, t \in DOMAIN g.leaders : Contains(g.edges, <<s, t>>) => t \in S)
       => n \in S}

(* A graph shows all that control reaches from the start of its function,   *)
(* every block from the root; blocks are connected exactly where control    *)
(* goes from one to the start of another; and control goes through a block  *)
(* from its start to its end.  An instruction is in two blocks only where   *)
(* overlapping instructions go on to it, which does not make it a block.    *)
BlocksAreFlow ==
  pc = "next" => \A g \in Graphs :
    /\ UNION {g.members[b] : b \in Leaders(g)} = Reached(g.start)
    /\ NodesReached(g) = DOMAIN g.leaders
    /\ \A b \in Leaders(g) :
         /\ \A a \in g.members[b] : GoesTo(a) \ Leaders(g) \subseteq g.members[b]
         /\ \A c \in Leaders(g) :
              Contains(g.edges, <<NodeOf(g, b), NodeOf(g, c)>>) <=>
                \E a \in g.members[b] : c \in GoesTo(a)
         /\ \A c \in Leaders(g) \ {b} : \A a \in g.members[b] \cap g.members[c] :
              \E x \in g.members[b], y \in Reached(g.start) :
                x # y /\ net.next[x] = net.next[y]

(* "A function's graph is found at its start" is what the tests ask of      *)
(* every function (graphtests.cpp); functions share blocks, and the search  *)
(* goes by addresses.  It starts from the instruction that has the          *)
(* function's address, if control or a call leads to it or on from it.      *)
OwnGraphFound ==
  pc = "next" /\ todo = {} =>
    \A f \in program.functions :
      LET start == BlockAt(program, f)
      IN  start # 0 /\ HasNode(program, start) => GetGraph(graphs, start) = start
=============================================================================
