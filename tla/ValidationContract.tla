-------------------------- MODULE ValidationContract ------------------------
(***************************************************************************)
(* What both validations return: definitions by nesting, written from the  *)
(* documentation of NirGraph (src/src/graph.rs:87-128, 218-236).  They are *)
(* functions of how many levels a walk may still go down, so that they end *)
(* on any model and can be proved about.                                   *)
(***************************************************************************)
EXTENDS GraphValidation

(* What the fields of a convolution and of a pooling node are, a leaf at a *)
(* time: extents are i64, those of a tensor's shape usize.                 *)
IsConv(node) == node.kind \in {"Conv1d", "Conv2d"}
IsPool(node) == node.kind \in {"SumPool2d", "AvgPool2d"}
PoolFields == {"kernel_size", "stride", "padding"}

ASSUME LeafAssumption ==
  \A node \in Leaves :
    /\ IsConv(node) =>
         /\ node.groups \in Int /\ node.weight \in Seq(Nat) /\ node.bias \in Seq(Nat)
         /\ node.stride \in Seq(Int) /\ node.dilation \in Seq(Int)
         /\ node.padding.extents \in Seq(Int)
    /\ IsPool(node) =>
         /\ node.kernel_size.shape \in Seq(Nat) /\ node.kernel_size.values \in Seq(Int)
         /\ node.stride.shape \in Seq(Nat) /\ node.stride.values \in Seq(Int)
         /\ node.padding.shape \in Seq(Nat) /\ node.padding.values \in Seq(Int)

(* The nodes of a graph that are graphs, by position.                      *)
Nested(m, g) == {i \in DOMAIN m.nodes[g] : m.nodes[g][i].holds \in Graphs}

-----------------------------------------------------------------------------
(* The recursive walk of the documentation: the graph itself, then its     *)
(* nested graphs in insertion order, and the first error of them, under    *)
(* the names that lead to it.                                              *)
Reported(problem, path) == [problem |-> problem, path |-> path]

ReportOf(m, g, inside) ==
  LET below(i) == inside[m.nodes[g][i].holds]
      bad == {i \in Nested(m, g) : below(i).problem # Sound}
      first == Min(bad)
  IN IF LocalFault(m, g) # Sound THEN Reported(LocalFault(m, g), <<>>)
     ELSE IF bad = {} THEN Reported(Sound, <<>>)
     ELSE Reported(below(first).problem, <<m.nodes[g][first].name>> \o below(first).path)

AllTooDeep == [g \in Graphs |-> Reported(TooDeep, <<>>)]
Reports(m) ==
  LET report[more \in 0..MaxDepth] ==
        [g \in Graphs |-> ReportOf(m, g, IF more = 0 THEN AllTooDeep ELSE report[more - 1])]
  IN report

StructureOf(m) ==
  LET whole == Reports(m)[MaxDepth][Top]
  IN IF whole.problem = Sound THEN Accepted ELSE Wrapped(whole.problem, whole.path)

-----------------------------------------------------------------------------
(* Conditions a convolution or pooling node meets, in no order.            *)
ExtentsLegal(extents, arities, least) ==
  Len(extents) \in arities /\ \A i \in DOMAIN extents : extents[i] >= least

ConvLegal(c) ==
  /\ c.groups >= 1
  /\ Len(c.weight) = WeightRank[c.kind] /\ \A axis \in DOMAIN c.weight : c.weight[axis] >= 1
  /\ Len(c.bias) = 1 /\ c.bias[1] = c.weight[1]
  /\ \E each \in 1..c.weight[1] : each * c.groups = c.weight[1]
  /\ ExtentsLegal(c.stride, Arities[c.kind], 1)
  /\ ExtentsLegal(c.dilation, Arities[c.kind], 1)
  /\ c.padding.mode = "explicit" => ExtentsLegal(c.padding.extents, Arities[c.kind], 0)

PoolLegal(p) ==
  /\ \A f \in PoolFields : p[f].dtype = "i64" /\ Len(p[f].shape) <= 1
  /\ ExtentsLegal(p.kernel_size.values, {1, 2}, 1)
  /\ ExtentsLegal(p.stride.values, {1, 2}, 1)
  /\ ExtentsLegal(p.padding.values, {1, 2}, 0)

NodeLegal(node) == (IsConv(node) => ConvLegal(node)) /\ (IsPool(node) => PoolLegal(node))

(* The nodes below a graph that have, or are, a problem, as paths with     *)
(* their positions; the first of them in a walk is the least position.  A  *)
(* graph that is nested too deeply is a problem without a path.            *)
Problem(at, path, deep) == [at |-> at, path |-> path, deep |-> deep]
Under(at, path, p) == Problem(at \o p.at, IF p.deep THEN <<>> ELSE path \o p.path, p.deep)

ProblemsAt(m, g, i, inside) ==
  LET node == m.nodes[g][i]
  IN IF node.holds \in Graphs THEN {Under(<<i>>, <<node.name>>, p) : p \in inside[node.holds]}
     ELSE IF NodeLegal(node.holds) THEN {} ELSE {Problem(<<i>>, <<node.name>>, FALSE)}

ProblemsOf(m, g, inside) == UNION {ProblemsAt(m, g, i, inside) : i \in DOMAIN m.nodes[g]}

OnlyTooDeep == [g \in Graphs |-> {Problem(<<>>, <<>>, TRUE)}]
AllProblems(m) ==
  LET below[more \in 0..MaxDepth] ==
        [g \in Graphs |-> ProblemsOf(m, g, IF more = 0 THEN OnlyTooDeep ELSE below[more - 1])]
  IN below

(* A call on a node that is a graph is one level down already.             *)
Problems ==
  LET path == P!EntryPath(entry)
  IN {Under(<<>>, path, p) : p \in AllProblems(model)[MaxDepth - Len(path)][Top]}

Earlier(a, b) ==
  \E i \in DOMAIN a \cap DOMAIN b : a[i] < b[i] /\ \A j \in 1..(i - 1) : a[j] = b[j]

FirstOf(problems, p) == p \in problems /\ \A q \in problems : q = p \/ Earlier(p.at, q.at)

-----------------------------------------------------------------------------
(* validate_structure returns what the recursive walk returns, path        *)
(* included: "First-error ordering matches a recursive walk"               *)
(* (src/src/graph.rs:121).                                                 *)
StructureAsRecursive == structure # S!NoVerdict => structure = StructureOf(model)

(* validate_parameters reports the first node of the walk that breaks a    *)
(* condition, under its qualified name, or the nesting, or nothing.        *)
ParametersAsDefined ==
  parameters # P!NoVerdict =>
    IF Problems = {} THEN parameters = Accepted
    ELSE \E p \in Problems :
           /\ FirstOf(Problems, p)
           /\ parameters.path = p.path
           /\ parameters.variant =
                IF p.deep THEN "InvalidGraph" ELSE "InvalidNodeParameters"
=============================================================================
