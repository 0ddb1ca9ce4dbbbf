--------------------------- MODULE GraphValidation --------------------------
(***************************************************************************)
(* Both validations of one graph, one after the other, and what they       *)
(* promise without saying in which order they go about it.                 *)
(***************************************************************************)
EXTENDS GraphModel, NodeParameters, SequencesExt

CONSTANT
  Inputs        \* the graphs that are validated

(* A graph owns the graphs inside it (a node is a Box of one): no graph    *)
(* has two places, and the one the caller holds has none.                  *)
Owned(m) ==
  /\ \A g \in Graphs : \A i \in DOMAIN m.nodes[g] : m.nodes[g][i].holds # Top
  /\ \A g, h \in Graphs : \A i \in DOMAIN m.nodes[g], j \in DOMAIN m.nodes[h] :
       m.nodes[g][i].holds \in Graphs /\ m.nodes[g][i].holds = m.nodes[h][j].holds =>
         g = h /\ i = j

ASSUME InputAssumption ==
  /\ IsFiniteSet(Graphs)
  /\ \A m \in Inputs : m \in Models /\ Owned(m)

VARIABLES model, frames, work, scan, structure, entry, calls, parameters

S == INSTANCE StructureValidator WITH verdict <- structure
P == INSTANCE ParameterValidator WITH verdict <- parameters

vars == <<model, frames, work, scan, structure, entry, calls, parameters>>

Init == \E m \in Inputs, e \in {"graph", "node"} : S!StartOn(m) /\ P!StartOn(m, e)

ValidateStructure == S!Next /\ UNCHANGED <<entry, calls, parameters>>
ValidateParameters ==
  structure # S!NoVerdict /\ P!Next /\ UNCHANGED <<frames, work, scan, structure>>

Next == ValidateStructure \/ ValidateParameters
Spec == Init /\ [][Next]_vars /\ WF_vars(Next)

-----------------------------------------------------------------------------
(* The states of both walks: a frame points at an earlier frame and is one *)
(* deeper, and whatever waits or is looked at has a frame that exists.     *)
TypeOK ==
  /\ model \in Inputs
  /\ \A i \in DOMAIN frames :
       frames[i] \in S!FrameRecords /\ frames[i].parent < i
         /\ frames[i].depth = S!DepthOf(frames, frames[i].parent) + 1
  /\ \A i \in DOMAIN work : work[i] \in S!WorkItems /\ work[i].frame <= Len(frames)
  /\ \A i \in DOMAIN scan.nested :
       scan.nested[i] \in S!WorkItems /\ scan.nested[i].frame <= Len(frames)
  /\ scan.graph \in Graphs /\ scan.frame \in 0..Len(frames) /\ scan.next \in Nat
  /\ \A i \in DOMAIN calls :
       calls[i].graph \in Graphs /\ calls[i].next \in Nat \ {0} /\ calls[i].depth \in Nat

(* The heap the walk needs is bounded by the graph: a frame per nested     *)
(* graph, and no graph waits twice or waits while it is looked at.         *)
WorkIsLinear ==
  /\ Len(frames) <= Cardinality(Graphs \ {Top})
  /\ \A i, j \in DOMAIN work : work[i].graph = work[j].graph => i = j
  /\ scan.next > 0 => \A i \in DOMAIN work : work[i].graph # scan.graph

(* The graphs inside the validated one, at any depth, and itself.          *)
ClosedUnderNesting(m, s) ==
  \A g \in s : \A i \in DOMAIN m.nodes[g] :
    m.nodes[g][i].holds \in Graphs => m.nodes[g][i].holds \in s
Inside(m) ==
  {g \in Graphs : \A s \in SUBSET Graphs : Top \in s /\ ClosedUnderNesting(m, s) => g \in s}

(* An accepted structure has no unknown endpoint and no repeated edge in   *)
(* any of the graphs nested in it, however deep and however many siblings  *)
(* wait on the work list; and a reported problem other than the nesting is *)
(* a problem of one of these graphs.                                       *)
FaultsDecide ==
  /\ structure = Accepted => \A g \in Inside(model) : LocalFault(model, g) = Sound
  /\ structure \notin {S!NoVerdict, Accepted} /\ structure.problem # TooDeep =>
       \E g \in Inside(model) : LocalFault(model, g) = structure.problem

(* The two walks, which count depth in different ways, draw the line at    *)
(* the same nesting: what passes validate_structure is never too deep for  *)
(* validate_parameters, called on the graph.                               *)
SameDepthLimit ==
  /\ entry = "graph" /\ structure = Accepted => parameters # P!DepthError
  /\ entry = "graph" /\ parameters = Accepted => structure.problem # TooDeep

(* Both validations return.                                                *)
ValidationsReturn == <>(parameters # P!NoVerdict)
=============================================================================
