--------------------------- MODULE TopologicalOrder --------------------------
(***************************************************************************)
(* topo_sort (src/uxok/utils/_helpers.py): Kahn's algorithm, first in      *)
(* first out, over a sequence of nodes.  What lies on a cycle or depends   *)
(* on one is left out of the result.                                       *)
(***************************************************************************)
EXTENDS Arrangement, SequencesExt

\* Mutant: the input order, dependencies or not.
InputOrder(nodes, deps) == nodes

\* Dependencies outside the nodes are ignored.
WaitsFor(nodes, deps, m) == deps[m] \cap ToSet(nodes)

\* Those of the nodes that join the queue when n is placed: the last of their
\* dependencies is placed.  Ties keep the order of the input.
Freed(nodes, deps, n, placed) ==
  Kept(nodes, {k \in DOMAIN nodes :
                 LET needed == WaitsFor(nodes, deps, nodes[k])
                 IN  n \in needed /\ needed \subseteq ToSet(placed)})

\* One turn of the loop.
TakeTurn(nodes, deps, s) ==
  IF s.queue = <<>> THEN s
  ELSE LET n == Head(s.queue)
           placed == Append(s.ordered, n)
       IN  [ordered |-> placed, queue |-> Tail(s.queue) \o Freed(nodes, deps, n, placed)]

\* The loop takes one turn for each node, or finds the queue empty.
TopoSort(nodes, deps) ==
  LET free == {k \in DOMAIN nodes : WaitsFor(nodes, deps, nodes[k]) = {}}
      turn[k \in 0 .. Len(nodes)] ==
        IF k = 0 THEN [ordered |-> <<>>, queue |-> Kept(nodes, free)]
                 ELSE TakeTurn(nodes, deps, turn[k - 1])
  IN  turn[Len(nodes)].ordered

\* s lists the nodes, each after those among them that it depends on.
Sorts(s, nodes, deps) ==
  /\ ToSet(s) = ToSet(nodes) /\ Len(s) = Len(nodes)
  /\ \A m, n \in DOMAIN s : s[n] \in deps[s[m]] => n < m

=============================================================================
