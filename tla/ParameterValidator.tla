------------------------- MODULE ParameterValidator -------------------------
(***************************************************************************)
(* NirGraph::validate_parameters and NirNode::validate_parameters          *)
(* (src/src/validation.rs): a recursive walk over the nodes in insertion   *)
(* order, which stops at the first node whose parameters are wrong or at   *)
(* the first graph that is nested too deeply.  The recursion is the stack  *)
(* of open calls, innermost last.                                          *)
(***************************************************************************)
EXTENDS GraphModel, NodeParameters, SequencesExt

VARIABLES
  model,       \* the graph that is validated, never written
  entry,       \* whether the call is made on a graph or on a node that is one
  calls,       \* per open call: the graph, its next node, path and depth
  verdict      \* "none" while walking, then what the call returns

vars == <<model, entry, calls, verdict>>

NoVerdict == [variant |-> "none", path |-> <<>>, problem |-> Sound]

(* What an error says: a depth error of this walk carries no path.         *)
ParameterError(path, problem) ==
  [variant |-> "InvalidNodeParameters", path |-> path, problem |-> problem]
DepthError == [variant |-> "InvalidGraph", path |-> <<>>, problem |-> TooDeep]

(* A graph inside a node is at depth 1 already, and the node has no name.  *)
EntryPath(e) == IF e = "node" THEN <<"<node>">> ELSE <<>>
StartOn(m, e) ==
  /\ model = m /\ entry = e
  /\ calls = <<[graph |-> Top, next |-> 1, path |-> EntryPath(e),
                depth |-> IF e = "node" THEN 1 ELSE 0]>>
  /\ verdict = NoVerdict

-----------------------------------------------------------------------------
Call == Last(calls)
Looking == verdict = NoVerdict /\ calls # <<>> /\ Call.next <= Len(model.nodes[Call.graph])
Node == model.nodes[Call.graph][Call.next]
NodePath == Append(Call.path, Node.name)

Inner(path) == [graph |-> Node.holds, next |-> 1, path |-> path, depth |-> Call.depth + 1]

(* Mutant: the position in the graph is not advanced.                      *)
AdvancedNowhere == calls
Advanced == [calls EXCEPT ![Len(calls)].next = @ + 1]

(* Mutant: the limit is let through once more, one graph too deep.         *)
EnterNestedOneDeeper ==
  /\ Looking /\ Node.holds \in Graphs /\ Call.depth <= MaxDepth
  /\ calls' = Append(Advanced, Inner(NodePath))
  /\ UNCHANGED <<model, entry, verdict>>

EnterNested ==
  /\ Looking /\ Node.holds \in Graphs /\ Call.depth < MaxDepth
  /\ calls' = Append(Advanced, Inner(NodePath))
  /\ UNCHANGED <<model, entry, verdict>>

RejectDeep ==
  /\ Looking /\ Node.holds \in Graphs /\ Call.depth >= MaxDepth
  /\ verdict' = DepthError
  /\ UNCHANGED <<model, entry, calls>>

PassNode ==
  /\ Looking /\ Node.holds \in Leaves /\ NodeFault(Node.holds).error = "none"
  /\ calls' = Advanced
  /\ UNCHANGED <<model, entry, verdict>>

RejectNode ==
  /\ Looking /\ Node.holds \in Leaves /\ NodeFault(Node.holds).error # "none"
  /\ verdict' = ParameterError(NodePath, NodeFault(Node.holds))
  /\ UNCHANGED <<model, entry, calls>>

Return ==
  /\ verdict = NoVerdict /\ calls # <<>>
  /\ Call.next > Len(model.nodes[Call.graph])
  /\ calls' = Front(calls)
  /\ UNCHANGED <<model, entry, verdict>>

Accept ==
  /\ verdict = NoVerdict /\ calls = <<>>
  /\ verdict' = Accepted
  /\ UNCHANGED <<model, entry, calls>>

Next == EnterNested \/ RejectDeep \/ PassNode \/ RejectNode \/ Return \/ Accept
=============================================================================
