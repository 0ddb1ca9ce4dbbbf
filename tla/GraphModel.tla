----------------------------- MODULE GraphModel -----------------------------
(***************************************************************************)
(* The in-memory NirGraph of src/src/graph.rs: nodes in insertion order,   *)
(* directed edges between node names, and nodes that are graphs.  A graph  *)
(* owns the graphs inside it, so that nesting is a tree.                   *)
(***************************************************************************)
EXTENDS Integers, Sequences, FiniteSetsExt

CONSTANTS
  Graphs,       \* the NirGraph values of one tree
  Top,          \* the one the caller holds
  Names,        \* node names
  Leaves,       \* node values that are not graphs
  MaxDepth      \* NirGraph::MAX_NESTING_DEPTH

ASSUME ModelAssumption ==
  /\ Top \in Graphs /\ Graphs \cap Leaves = {}
  /\ MaxDepth \in Nat \ {0}

(* A tree: the nodes of each graph in insertion order, and its edges.      *)
NodeRecords == [name : Names, holds : Graphs \cup Leaves]
Models == [nodes : [Graphs -> Seq(NodeRecords)], edges : [Graphs -> Seq(Names \X Names)]]

NodeNames(m, g) == {m.nodes[g][i].name : i \in DOMAIN m.nodes[g]}

Sound == [fault |-> "none", at |-> <<>>]

(* validate_local_structure: endpoints of all the edges, sources first,    *)
(* and only then repeated edges.                                           *)
Dangling(m, g) ==
  {i \in DOMAIN m.edges[g] :
     ~({m.edges[g][i][1], m.edges[g][i][2]} \subseteq NodeNames(m, g))}

Repeated(m, g) ==
  {j \in DOMAIN m.edges[g] : \E i \in 1..(j - 1) : m.edges[g][i] = m.edges[g][j]}

FirstUnknown(m, g, edge) ==
  IF edge[1] \notin NodeNames(m, g) THEN edge[1] ELSE edge[2]

LocalFault(m, g) ==
  IF Dangling(m, g) # {}
  THEN [fault |-> "MissingNode",
        at |-> <<FirstUnknown(m, g, m.edges[g][Min(Dangling(m, g))])>>]
  ELSE IF Repeated(m, g) # {}
  THEN [fault |-> "DuplicateEdge", at |-> m.edges[g][Min(Repeated(m, g))]]
  ELSE Sound

TooDeep == [fault |-> "nesting depth exceeded", at |-> <<>>]

(* wrap_frame_error: inside a subgraph every error becomes an InvalidGraph *)
(* that names the enclosing subgraphs, outermost first.                    *)
Wrapped(problem, path) ==
  [variant |-> IF path # <<>> \/ problem = TooDeep THEN "InvalidGraph" ELSE problem.fault,
   path |-> path, problem |-> problem]
Accepted == [variant |-> "Ok", path |-> <<>>, problem |-> Sound]
=============================================================================
