---------------------------- MODULE MCGraphWriter ----------------------------
(* Instances of GraphWriter for TLC: one tree of graphs, with every node     *)
(* type as a leaf, and one or two departures from it.                        *)
EXTENDS GraphWriter

MCNulTexts == {"a_NUL_b"}
MCIllegalNames == {"", "a/b", "..", "a_NUL_b"}

Value(class, shape, data) == [class |-> class, shape |-> shape, data |-> data]

(* Tensors of every class, without elements, of rank 0, of the highest rank  *)
(* and of one more, and with the extent that HDF5 does not take.             *)
Plain == Value("f32", <<2>>, <<3, 4>>)
TensorValues ==
  {Value("f64", <<1>>, <<3>>), Value("i64", <<>>, <<5>>), Value("f32", <<>>, <<6>>),
   Value("bool", <<0>>, <<>>), Value("f32", <<1, 2>>, <<7, 8>>),
   Value("f64", <<1, 1, 1>>, <<9>>), Value("f32", <<Unlimited, 0>>, <<>>)}

Extents == {<<>>, <<2>>, <<2, 3>>, <<2, 3, 4>>}
Sizes   == Extents \cup {<<I64Max, I64Max + 1>>, <<I64Max>>}

Base(how) ==
  CASE how = "tensor" -> Plain
    [] how = "extent" -> <<1>>
    [] how \in {"usizes", "pair"} -> <<1, 2>>
    [] how \in {"int", "usize"} -> 2
    [] how \in {"padding", "paddings"} -> Symbolic("same")

Departures(how) ==
  CASE how = "tensor" -> TensorValues
    [] how \in {"extent", "pair"} -> Extents \cup {<<-1>>}
    [] how = "usizes" -> Sizes
    [] how = "int" -> {-1, 0}
    [] how = "usize" -> {0, I64Max, I64Max + 1}
    [] how \in {"padding", "paddings"} ->
         {Symbolic("valid")} \cup {Explicit(e) : e \in Extents}

Leaf(type, fields) ==
  [type |-> type, fields |-> fields, metadata |-> <<>>, edges |-> <<>>, version |-> None]
BaseFields(type) == [f \in DOMAIN Writes(type) |-> Base(Writes(type)[f])]

LeafVariants(type) ==
  {Leaf(type, BaseFields(type))} \cup
  UNION {{Leaf(type, [BaseFields(type) EXCEPT ![f] = v]) :
            v \in Departures(Writes(type)[f]) \cup (IF f \in Optionals THEN {None} ELSE {})} :
         f \in DOMAIN Writes(type)}

Leaves == UNION {LeafVariants(type) : type \in LeafTypes}

-----------------------------------------------------------------------------
Subgraph(edges) ==
  [type |-> "NIRGraph", fields |-> <<>>, metadata |-> <<>>, edges |-> edges, version |-> None]
AnInput == Leaf("Input", BaseFields("Input"))

Tree ==
  [p \in {<<>>, <<"a">>, <<"b">>, <<"b", "c">>} |->
     CASE p = <<>> -> Subgraph(<<<<"a", "b">>, <<"b", "a">>>>)
       [] p = <<"b">> -> Subgraph(<<>>)
       [] OTHER -> AnInput]

LeafTrees ==
  {[Tree EXCEPT ![<<"a">>] = leaf] : leaf \in Leaves} \cup
  {[Tree EXCEPT ![<<"b", "c">>] = leaf] : leaf \in Leaves}

(* Metadata of every kind on every node, alone or with an illegal key.       *)
MetadataValues ==
  {Metadata("String", "string", <<>>, <<"note">>),
   Metadata("String", "string", <<>>, <<"a_NUL_b">>),
   Metadata("StringList", "string", <<0>>, <<>>),
   Metadata("StringList", "string", <<1>>, <<"note">>),
   Metadata("StringList", "string", <<2>>, <<"note", "a_NUL_b">>),
   Metadata("F64", "f64", <<>>, <<1>>), Metadata("I64", "i64", <<>>, <<1>>),
   Metadata("Bool", "bool", <<>>, <<1>>)} \cup
  {Metadata("Tensor", t.class, t.shape, t.data) : t \in TensorValues}

MetadataTrees ==
  {[Tree EXCEPT ![p].metadata = m] :
     p \in DOMAIN Tree,
     m \in {[key |-> v] : v \in MetadataValues} \cup {("a/b" :> v) : v \in MetadataValues}}

(* Edges of the root and of the subgraph: none, a loop, dangling, repeated.  *)
EdgeTrees ==
  {[Tree EXCEPT ![<<>>].edges = e] :
     e \in {<<>>, <<<<"a", "a">>>>, <<<<"a", "c">>>>, <<<<"a", "a_NUL_b">>>>,
            <<<<"a", "b">>, <<"b", "b">>, <<"a", "b">>>>}} \cup
  {[Tree EXCEPT ![<<"b">>].edges = e] :
     e \in {<<<<"c", "c">>>>, <<<<"a", "c">>>>, <<<<"c", "c">>, <<"c", "c">>>>}}

VersionTrees ==
  {[Tree EXCEPT ![p].version = v] : p \in {<<>>, <<"b">>}, v \in {"1.0.5", "a_NUL_b"}}

(* Further nodes: at illegal names, and as many graphs as may be and more.   *)
With(node, paths) == [p \in DOMAIN Tree \cup paths |-> IF p \in paths THEN node ELSE Tree[p]]

SizeTrees ==
  {With(AnInput, {path}) :
     path \in {<<n>> : n \in MCIllegalNames} \cup {<<"b", n>> : n \in MCIllegalNames}} \cup
  {With(Subgraph(<<>>), paths) :
     paths \in {{<<"b", "d">>}, {<<"d">>, <<"d", "e">>}, {<<"b", "d">>, <<"d">>, <<"e">>}}}

Options(levels, versions) ==
  [compression : levels, version : versions, validate : BOOLEAN]

MCRequests ==
  [graph : LeafTrees, options : Options({None, 4}, {None})] \cup
  [graph : MetadataTrees, options : Options({None, 4}, {None})] \cup
  [graph : EdgeTrees \cup VersionTrees \cup SizeTrees \cup {Tree},
   options : Options({None, 0, 9, 10}, {None, "2.0", "a_NUL_b"})]
=============================================================================
