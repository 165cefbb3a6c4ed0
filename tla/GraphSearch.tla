---------------------------- MODULE GraphSearch ------------------------------
(***************************************************************************)
(* The depth-first search of _check_circular_dependencies                  *)
(* (src/uxok/registry/impl.py): a loop over a stack and the set of nodes   *)
(* it has visited.  g gives the nodes that each node leads to.             *)
(***************************************************************************)
EXTENDS Naturals, FiniteSets, SequencesExt

\* Mutant: only what the search starts from is looked at.
NotFollowed(g, node) == <<>>

\* What is pushed for a node, in any order.
Followed(g, node) == SetToSeq(g[node])

\* One turn of the loop, which ends when the stack is empty or has id on top.
Visit(g, id, s) ==
  IF s.stack = <<>> \/ Last(s.stack) = id THEN s
  ELSE LET node == Last(s.stack)
           rest == Front(s.stack)
       IN  IF node \in s.visited THEN [s EXCEPT !.stack = rest]
           ELSE [stack |-> rest \o Followed(g, node), visited |-> s.visited \cup {node}]

Edges(g) == UNION {{m} \X g[m] : m \in DOMAIN g}

\* The search for id that starts from the given nodes finds it.  The loop
\* takes a turn for each thing that is pushed: at most the nodes it starts
\* from and the end of each edge.
Reaches(g, id, from) ==
  LET turns == Cardinality(from) + Cardinality(Edges(g))
      turn[k \in 0 .. turns] ==
        IF k = 0 THEN [stack |-> SetToSeq(from), visited |-> {}]
                 ELSE Visit(g, id, turn[k - 1])
  IN  turn[turns].stack # <<>>

=============================================================================
