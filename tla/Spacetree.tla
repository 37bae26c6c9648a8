------------------------------ MODULE Spacetree ------------------------------
(***************************************************************************)
(* What infoviz-graph.js and the Spacetree of the JIT toolkit (jit-yc.js)   *)
(* make of the tree of a transaction.  The tree comes as the sequence of    *)
(* its nodes in the order in which the toolkit visits them (parents first), *)
(* each with its id, the id of its parent and the data that colours it.     *)
(*                                                                          *)
(* The toolkit keeps nodes by id, and adjacencies without a direction: what *)
(* is above and what is below is computed again from distances to the root. *)
(***************************************************************************)
EXTENDS Naturals, Sequences, FiniteSets

CONSTANT LevelsToShow  \* infoviz-graph.js sets 30

ASSUME SpacetreeAssumption == LevelsToShow \in Nat

\* Node.color and the colours that onBeforePlotNode sets
Colour == {"grey", "blue", "green", "red"}

Ids(tree) == {tree[i].id : i \in DOMAIN tree}

RootOf(tree) == tree[1].id

-----------------------------------------------------------------------------
(* Graph.addNode, addAdjacence and computeLevels.                           *)

\* A node that is there already keeps its data: of several with one id the
\* first one counts.
DataOf(tree, x) ==
  LET first == CHOOSE i \in DOMAIN tree :
                 /\ tree[i].id = x
                 /\ \A j \in DOMAIN tree : tree[j].id = x => i <= j
  IN  tree[first].data

Adjacent(tree, x, y) ==
  \E i \in DOMAIN tree : i > 1 /\ {tree[i].id, tree[i].up} = {x, y}

\* The levels of the nodes: distances to the root.
Levels(tree) ==
  LET within[k \in 0 .. Len(tree)] ==
        IF k = 0 THEN {RootOf(tree)}
        ELSE LET near == within[k - 1]
             IN  near \cup {y \in Ids(tree) : \E x \in near : Adjacent(tree, x, y)}
  IN  [x \in Ids(tree) |->
         CHOOSE k \in DOMAIN within :
           x \in within[k] /\ (k > 0 => x \notin within[k - 1])]

\* loadJSON() and compute(): the graph of a Spacetree.  Node.eachSubnode takes
\* a neighbour for a node below if its level is greater.
GraphOf(tree) ==
  LET level == Levels(tree)
  IN  [root |-> RootOf(tree),
       data |-> [x \in Ids(tree) |-> DataOf(tree, x)],
       level |-> level,
       below |-> [x \in Ids(tree) |->
                    {y \in Ids(tree) : Adjacent(tree, x, y) /\ level[y] > level[x]}]]

-----------------------------------------------------------------------------
(* Plotting.                                                                *)

\* Variant with a bug: a vote to commit hides the exception.
BeforePlotNodeVoteLast(data) ==
  IF data.vote = "COMMIT" THEN "green"
  ELSE IF data.xaException THEN "red"
  ELSE IF data.isResource THEN "blue"
  ELSE "grey"

\* onBeforePlotNode: the last assignment to $color wins.
BeforePlotNode(data) ==
  IF data.xaException THEN "red"
  ELSE IF data.vote = "COMMIT" THEN "green"
  ELSE IF data.isResource THEN "blue"
  ELSE "grey"

\* Only the root is ever clicked: selectPath() starts and ends there.
Selected(graph, x) == x = graph.root

\* onBeforePlotLine: a line between selected nodes is highlighted.
BeforePlotLine(graph, x, y) ==
  IF Selected(graph, x) /\ Selected(graph, y) THEN "highlighted" ELSE "plain"

\* The nodes that are drawn once the root has been clicked and expanded.
Drawn(graph) == {x \in DOMAIN graph.level : graph.level[x] <= LevelsToShow}

\* plotTree() on the nodes drawn so far: their colours, and a line to each
\* drawn node below a drawn one.
Picture(graph, drawn) ==
  [colour |-> [x \in drawn |-> BeforePlotNode(graph.data[x])],
   lines |-> UNION {{[from |-> x, to |-> y, style |-> BeforePlotLine(graph, x, y)] :
                       y \in graph.below[x] \cap drawn} : x \in drawn}]

Blank == [colour |-> [x \in {} |-> "grey"], lines |-> {}]

=============================================================================
