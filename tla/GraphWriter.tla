----------------------------- MODULE GraphWriter -----------------------------
(***************************************************************************)
(* io::write_with and io::read, one after the other, on one graph: the     *)
(* preflight of hdf5_write.rs, made before any file is touched, the        *)
(* encoding of the graph, and the decoding of what was written by a reader *)
(* with default ReadOptions (no limits, any version).  How the file        *)
(* replaces an older one is AtomicWrite's subject, and how a file of       *)
(* unknown origin is traversed GraphReader's.                              *)
(*                                                                         *)
(* A graph is a function from paths to nodes.  The path of a node is the   *)
(* sequence of names that leads to it from the root graph, whose path is   *)
(* <<>>; nodes of type NIRGraph are graphs.                                *)
(***************************************************************************)
EXTENDS NodeEncoding, FiniteSets, SequencesExt

CONSTANTS
  DefaultVersion,  \* DEFAULT_NIR_VERSION
  MaxGraphs,       \* MAX_NESTED_GRAPHS
  MaxRounds,       \* how often a graph is written and read back
  Requests         \* the graphs and options that write_with is called with

(* A node is a leaf with the fields of its type, or a graph.                *)
Shaped(node) ==
  \/ node.type \in LeafTypes /\ DOMAIN node.fields = DOMAIN Writes(node.type)
  \/ node.type = "NIRGraph" /\ DOMAIN node.fields = {}

(* The fields that are Options in nodes.rs.                                 *)
Optionals == {"v_reset", "w_in", "input_shape", "input_type"}

FieldsTyped(node) ==
  \A f \in DOMAIN node.fields :
    \/ node.fields[f] \in Values(Writes(node.type)[f])
    \/ f \in Optionals /\ node.fields[f] = None

IsMap(m) == m = [x \in DOMAIN m |-> m[x]]

NodeTyped(node) ==
  /\ node = [type |-> node.type, fields |-> node.fields, metadata |-> node.metadata,
             edges |-> node.edges, version |-> node.version]
  /\ Shaped(node) /\ IsMap(node.fields) /\ FieldsTyped(node)
  /\ IsMap(node.metadata)
  /\ \A k \in DOMAIN node.metadata : ValueTyped(node.metadata[k])
  /\ node.edges \in Seq(STRING \X STRING)
  /\ node.type # "NIRGraph" => node.edges = <<>>

Typed(g) ==
  /\ <<>> \in DOMAIN g
  /\ \A p \in DOMAIN g : NodeTyped(g[p])

ASSUME RequestAssumption ==
  /\ MaxGraphs \in Nat /\ MaxRounds \in Nat \ {0}
  /\ DefaultVersion \notin NulTexts \cup {None}
  /\ \A r \in Requests : Typed(r.graph)

VARIABLES
  request,   \* the graph and the WriteOptions of the first call
  pc,        \* the check or the call that is next
  graph,     \* the graph being written
  file,      \* the file, once it is written
  refusal,   \* the check that refused the graph
  round      \* the graphs read back so far

vars == <<request, pc, graph, file, refusal, round>>

options == request.options

NoFile == [version |-> None, groups |-> <<>>]

Init ==
  /\ request \in Requests
  /\ graph = request.graph
  /\ pc = "names" /\ file = NoFile /\ refusal = "none" /\ round = 0

-----------------------------------------------------------------------------
IsGraph(g, p) == g[p].type = "NIRGraph"
GraphPaths(g) == {p \in DOMAIN g : IsGraph(g, p)}
NodePaths(g)  == DOMAIN g \ {<<>>}
NamesIn(g, p) == {Last(q) : q \in {q \in NodePaths(g) : Front(q) = p}}
MetadataOf(g, p) == {g[p].metadata[k] : k \in DOMAIN g[p].metadata}

Version(g) ==
  IF options.version # None THEN options.version
  ELSE IF g[<<>>].version # None THEN g[<<>>].version ELSE DefaultVersion

(* Mutant: the root graph is not counted.                                   *)
NamesLegalBelowRoot(g) ==
  /\ Cardinality(GraphPaths(g)) - 1 <= MaxGraphs
  /\ \A p \in NodePaths(g) : Last(p) \notin IllegalNames
  /\ \A p \in DOMAIN g : DOMAIN g[p].metadata \cap IllegalNames = {}

(* check_names: what becomes a link name, and the graphs counted like the   *)
(* reader counts them.                                                      *)
NamesLegal(g) ==
  /\ Cardinality(GraphPaths(g)) <= MaxGraphs
  /\ \A p \in NodePaths(g) : Last(p) \notin IllegalNames
  /\ \A p \in DOMAIN g : DOMAIN g[p].metadata \cap IllegalNames = {}

(* validate_structure; the graphs are too few to be nested too deep.        *)
StructureSound(g) ==
  \A p \in GraphPaths(g) :
    /\ \A i \in DOMAIN g[p].edges : ToSet(g[p].edges[i]) \subseteq NamesIn(g, p)
    /\ IsInjective(g[p].edges)

LooksLikeScalar(m) == m.kind = "Tensor" /\ m.shape = <<>>

(* Mutant: nested graphs are not entered.                                   *)
RepresentableAtRoot(g) ==
  \A p \in DOMAIN g : Len(p) <= 1 =>
    /\ \A m \in MetadataOf(g, p) : ~LooksLikeScalar(m)
    /\ p # <<>> => g[p].version = None

(* check_representable                                                      *)
Representable(g) ==
  \A p \in DOMAIN g :
    /\ \A m \in MetadataOf(g, p) : ~LooksLikeScalar(m)
    /\ p # <<>> => g[p].version = None

(* check_string_values                                                      *)
StringsLegal(g) ==
  /\ Version(g) \notin NulTexts
  /\ \A p \in DOMAIN g :
       /\ \A i \in DOMAIN g[p].edges : Storable(g[p].edges[i])
       /\ \A m \in MetadataOf(g, p) : m.kind \in {"String", "StringList"} => Storable(m.data)

(* check_usize_fields: extents that fit the wire by their size and number.  *)
ExtentsLegal(type, fields) ==
  CASE type \in {"Input", "Output"} -> FitsI64(fields.shape)
    [] type = "Flatten" -> fields.input_type # None => FitsI64(fields.input_type)
    [] type = "Conv1d" ->
         /\ Len(fields.stride) = 1 /\ Len(fields.dilation) = 1
         /\ fields.padding.mode = "explicit" => Len(fields.padding.extents) = 1
         /\ fields.input_shape # None => FitsI64(<<fields.input_shape>>)
    [] type = "Conv2d" ->
         /\ Len(fields.stride) \in {1, 2} /\ Len(fields.dilation) \in {1, 2}
         /\ fields.padding.mode = "explicit" => Len(fields.padding.extents) \in {1, 2}
         /\ fields.input_shape # None =>
              Len(fields.input_shape) = 2 /\ FitsI64(fields.input_shape)
    [] OTHER -> TRUE

UsizesLegal(g) == \A p \in DOMAIN g : ExtentsLegal(g[p].type, g[p].fields)

(* Mutant: the input weight is forgotten.                                   *)
RankCheckedWithoutWeight(type) ==
  IF type = "NIRGraph" THEN {}
  ELSE {f \in DOMAIN Writes(type) : Writes(type)[f] = "tensor"} \ {"w_in"}

(* check_node_tensor_ranks: the tensor fields, listed once more.            *)
RankChecked(type) ==
  CASE type \in {"Affine", "Conv1d", "Conv2d"} -> {"weight", "bias"}
    [] type = "Linear"    -> {"weight"}
    [] type = "Scale"     -> {"scale"}
    [] type = "CubaLI"    -> {"tau_syn", "tau_mem", "r", "v_leak", "w_in"}
    [] type = "CubaLIF"   -> {"tau_syn", "tau_mem", "r", "v_leak", "v_threshold", "v_reset", "w_in"}
    [] type = "Delay"     -> {"delay"}
    [] type = "I"         -> {"r"}
    [] type = "IF"        -> {"r", "v_threshold", "v_reset"}
    [] type = "LI"        -> {"tau", "r", "v_leak"}
    [] type = "LIF"       -> {"tau", "r", "v_leak", "v_threshold", "v_reset"}
    [] type \in {"SumPool2d", "AvgPool2d"} -> {"kernel_size", "stride", "padding"}
    [] type = "Threshold" -> {"threshold"}
    [] OTHER              -> {}

RanksLegal(g) ==
  \A p \in DOMAIN g :
    /\ \A f \in RankChecked(g[p].type) \cap Present(g[p].fields) :
         Len(g[p].fields[f].shape) <= MaxRank
    /\ \A m \in MetadataOf(g, p) : m.kind = "Tensor" => Len(m.shape) <= MaxRank

(* check_compression                                                        *)
LevelLegal == options.compression # None => options.compression \in 0 .. 9

-----------------------------------------------------------------------------
(* One check: the next one is made, or the call returns its error.          *)
Check(step, passes, then) ==
  /\ pc = step
  /\ \/ passes /\ pc' = then /\ UNCHANGED refusal
     \/ ~passes /\ pc' = "refused" /\ refusal' = step
  /\ UNCHANGED <<request, graph, file, round>>

CheckNames ==
  Check("names", NamesLegal(graph), IF options.validate THEN "structure" ELSE "strings")
ValidateStructure  == Check("structure", StructureSound(graph), "representable")
CheckRepresentable == Check("representable", Representable(graph), "strings")
CheckStringValues  == Check("strings", StringsLegal(graph), "extents")
CheckUsizeFields   == Check("extents", UsizesLegal(graph), "ranks")
CheckTensorRanks   == Check("ranks", RanksLegal(graph), "compression")
CheckCompression   == Check("compression", LevelLegal, "encode")

-----------------------------------------------------------------------------
(* write_edges: an (E, 2) dataset of names, also when there are none.       *)
EdgeSet(edges) ==
  [class |-> "string", shape |-> <<Len(edges), 2>>, deflate |-> None,
   data |-> [i \in 1 .. 2 * Len(edges) |-> edges[(i + 1) \div 2][2 - (i % 2)]]]

EdgesOf(d) ==
  [i \in 1 .. Len(d.data) \div 2 |-> <<d.data[2 * i - 1], d.data[2 * i]>>]

(* write_node and write_graph_body.                                         *)
NodeEncodes(node) ==
  /\ DOMAIN node.metadata \cap IllegalNames = {}
  /\ FieldsEncode(node.type, node.fields, options.compression)
  /\ \A i \in DOMAIN node.edges : Storable(node.edges[i])
  /\ \A k \in DOMAIN node.metadata : ValueEncodes(node.metadata[k], options.compression)

GraphEncodes(g) ==
  /\ Version(g) \notin NulTexts
  /\ \A p \in NodePaths(g) : Last(p) \notin IllegalNames
  /\ \A p \in DOMAIN g : NodeEncodes(g[p])

GroupOf(node) ==
  [type |-> Scalar("string", node.type),
   sets |-> FieldSets(node.type, node.fields, options.compression),
   edges |-> IF node.type = "NIRGraph" THEN EdgeSet(node.edges) ELSE None,
   metadata |-> [k \in DOMAIN node.metadata |->
                   EncodedValue(node.metadata[k], options.compression)]]

(* write_file; an error ends the call with the checks already made.         *)
WriteFile ==
  /\ pc = "encode"
  /\ \/ ~GraphEncodes(graph) /\ pc' = "broken" /\ UNCHANGED file
     \/ /\ GraphEncodes(graph)
        /\ file' = [version |-> Scalar("string", Version(graph)),
                    groups |-> [p \in DOMAIN graph |-> GroupOf(graph[p])]]
        /\ pc' = "written"
  /\ UNCHANGED <<request, graph, refusal, round>>

(* read_node and read_graph_body.                                           *)
GroupType(group) == group.type.data[1]

GroupDecodes(group) ==
  /\ GroupType(group) \in LeafTypes \cup {"NIRGraph"}
  /\ GroupType(group) \in LeafTypes => FieldsDecode(GroupType(group), group.sets)
  /\ GroupType(group) = "NIRGraph" =>
       group.edges.data = <<>> \/ (Len(group.edges.shape) = 2 /\ group.edges.shape[2] = 2)
  /\ \A k \in DOMAIN group.metadata :
       group.metadata[k].class = "string" => Len(group.metadata[k].shape) <= 1

FileDecodes(f) ==
  /\ Cardinality({p \in DOMAIN f.groups : GroupType(f.groups[p]) = "NIRGraph"}) <= MaxGraphs
  /\ \A p \in DOMAIN f.groups : GroupDecodes(f.groups[p])

(* The version belongs to the root graph alone.                             *)
NodeOf(f, p) ==
  LET group == f.groups[p]
      type  == GroupType(group)
  IN  [type |-> type,
       fields |-> IF type = "NIRGraph" THEN <<>> ELSE FieldValues(type, group.sets),
       metadata |-> [k \in DOMAIN group.metadata |-> DecodedValue(group.metadata[k])],
       edges |-> IF type = "NIRGraph" THEN EdgesOf(group.edges) ELSE <<>>,
       version |-> IF p = <<>> THEN f.version.data[1] ELSE None]

(* The graph that io::read returns takes the place of the one written.      *)
ReadBack ==
  /\ pc = "written"
  /\ \/ ~FileDecodes(file) /\ pc' = "unreadable" /\ UNCHANGED <<graph, round>>
     \/ /\ FileDecodes(file)
        /\ graph' = [p \in DOMAIN file.groups |-> NodeOf(file, p)]
        /\ round' = round + 1
        /\ pc' = IF round' < MaxRounds THEN "names" ELSE "done"
  /\ UNCHANGED <<request, file, refusal>>

Next ==
  \/ CheckNames \/ ValidateStructure \/ CheckRepresentable \/ CheckStringValues
  \/ CheckUsizeFields \/ CheckTensorRanks \/ CheckCompression
  \/ WriteFile \/ ReadBack

Spec == Init /\ [][Next]_vars

-----------------------------------------------------------------------------
(* A graph, whether the caller's or read from a file, has the fields of its *)
(* node types with values of their Rust types, and metadata values whose    *)
(* element class and shape are the variant's.                               *)
TypeOK ==
  /\ request \in Requests /\ round \in 0 .. MaxRounds
  /\ pc \in {"names", "structure", "representable", "strings", "extents", "ranks",
             "compression", "encode", "written", "done", "refused", "broken", "unreadable"}
  /\ refusal \in {"none", "names", "structure", "representable", "strings", "extents",
                  "ranks", "compression"}
  /\ Typed(graph)

(* A dataset of the graph that HDF5 does not create for one of its extents. *)
HasUnlimited(g) ==
  \E p \in DOMAIN g :
    \/ \E f \in Present(g[p].fields) :
         /\ Encodes(Writes(g[p].type)[f], g[p].fields[f])
         /\ Unlimits(Encoded(Writes(g[p].type)[f], g[p].fields[f], None))
    \/ \E m \in MetadataOf(g, p) : Unlimits(EncodedValue(m, None))

(* A graph that passes the preflight is encoded: nothing that the encoder   *)
(* or HDF5 refuses is first met after a staging file exists (the purpose of *)
(* the checks, hdf5_write.rs:37-38, 523-527, 553-557, 610-612), but for an  *)
(* extent of u64::MAX, which no check looks for.                            *)
PreflightSuffices == pc = "broken" => HasUnlimited(graph)

(* A graph this crate writes is one it can read back (hdf5_read.rs:41-43,   *)
(* hdf5_write.rs:527-528).                                                  *)
WrittenIsReadable == pc # "unreadable"

-----------------------------------------------------------------------------
(* What the documentation says that reading fills in (io/mod.rs, read) or   *)
(* normalizes (Conv2d, WriteOptions::validate): defaults, pairs, and,       *)
(* without validation, scalar metadata and subgraph versions.               *)
Defaulted(fields, f) ==
  CASE f = "v_reset" /\ fields[f] = None -> Filled(fields.v_threshold, 0)
    [] f = "w_in" /\ fields[f] = None    -> Filled(fields.v_leak, 1)
    [] OTHER -> fields[f]

Doubled(value) == IF Len(value) = 1 THEN <<value[1], value[1]>> ELSE value

ExpectedFields(node) ==
  [f \in DOMAIN node.fields |->
     CASE node.type = "Conv2d" /\ f \in {"stride", "dilation"} -> Doubled(node.fields[f])
       [] node.type = "Conv2d" /\ f = "padding" ->
            [node.fields[f] EXCEPT !.extents = Doubled(@)]
       [] OTHER -> Defaulted(node.fields, f)]

ScalarKind == [f32 |-> "F64", f64 |-> "F64", i64 |-> "I64", bool |-> "Bool"]
ScalarClass == [f32 |-> "f64", f64 |-> "f64", i64 |-> "i64", bool |-> "bool"]

ExpectedValue(m) ==
  IF LooksLikeScalar(m) THEN Metadata(ScalarKind[m.class], ScalarClass[m.class], <<>>, m.data)
  ELSE m

ExpectedNode(g, p) ==
  [type |-> g[p].type, fields |-> ExpectedFields(g[p]), edges |-> g[p].edges,
   metadata |-> [k \in DOMAIN g[p].metadata |-> ExpectedValue(g[p].metadata[k])],
   version |-> IF p = <<>> THEN Version(g) ELSE None]

(* Writing a graph and reading the file gives the graph back, but for what  *)
(* the documentation says is filled in or not kept.                         *)
ReadsBackAsDocumented ==
  round = 1 => graph = [p \in DOMAIN request.graph |-> ExpectedNode(request.graph, p)]

(* With validation on no metadata value and no subgraph's version is lost   *)
(* or changed silently (check_representable, hdf5_write.rs:824-828).        *)
ValidatedIsLossless ==
  round = 1 /\ options.validate =>
    \A p \in DOMAIN graph :
      /\ graph[p].metadata = request.graph[p].metadata
      /\ p # <<>> => graph[p].version = request.graph[p].version

(* A graph that was read from a file this crate wrote is written again      *)
(* under the same options without an error, and then read back unchanged.   *)
RereadIsStable ==
  [][round >= 1 => pc' \notin {"refused", "broken", "unreadable"} /\ graph' = graph]_vars
=============================================================================
