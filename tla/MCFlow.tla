------------------------------- MODULE MCFlow -------------------------------
\* Flow for TLC: every flow of a few nodes and edges, in the main thread and two
\* others.  Those two are alike: "a" gets its first node before "b" does, and
\* edges are made once all nodes are, in the order of what they connect, which
\* makes no difference to the flow.
EXTENDS Flow

Canonical ==
  /\ \A n \in Nodes : group[n] = "b" => \E l \in 1 .. n : group[l] = "a"
  /\ edges # <<>> \/ phase # "build" => Len(group) = MaxNodes
  /\ \A e \in Edges \ {1} :
       4 * edges[e - 1].from + edges[e - 1].to <= 4 * edges[e].from + edges[e].to
=============================================================================
