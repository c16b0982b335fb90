--------------------------- MODULE LibraryClosure --------------------------
(***************************************************************************)
(* What --ldd promises: in one step, either everything the binary leads to *)
(* through its interpreter and the libraries each file needs, and nothing  *)
(* else, or an error when a file of that graph cannot be followed.         *)
(***************************************************************************)
VARIABLES
  graph,     \* nodes, root, edges, the nodes that are an error, and extra files
  outcome,   \* "running", "ok" or "failed"
  libraries  \* the result

closureVars == <<graph, outcome, libraries>>

Closed(S) == /\ graph.root \in S
             /\ \A n \in S : graph.edges[n] \subseteq S

\* What every closed set has.
Reachable == {n \in graph.nodes : \A S \in SUBSET graph.nodes : Closed(S) => n \in S}

ClosureInit == outcome = "running" /\ libraries = {}

Decide ==
  /\ outcome = "running"
  /\ \/ /\ Reachable \cap graph.bad # {}
        /\ outcome' = "failed"
        /\ UNCHANGED libraries
     \/ /\ Reachable \cap graph.bad = {}
        /\ outcome' = "ok"
        /\ libraries' = graph.extra \cup UNION {graph.edges[n] : n \in Reachable}
  /\ UNCHANGED graph

ClosureSpec == ClosureInit /\ [][Decide]_closureVars
=============================================================================
