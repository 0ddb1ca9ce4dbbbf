------------------------- MODULE MCGraphValidation --------------------------
(* Instances of ValidationContract for TLC.                                *)
EXTENDS ValidationContract

(* The graphs of a tree: the one validated, and four that can be nested.   *)
CONSTANTS top, ga, gb, gc, gd
MCGraphs == {top, ga, gb, gc, gd}
MCNames == {"n1", "n2", "n3"}

-----------------------------------------------------------------------------
(* Convolutions with every combination of one or more wrong fields.        *)
Paddings ==
  {[mode |-> "same", extents |-> <<>>], [mode |-> "valid", extents |-> <<>>]}
    \cup {[mode |-> "explicit", extents |-> e] : e \in {<<0>>, <<0, -1>>, <<0, 0, 0>>}}

Convolutions ==
  [kind : {"Conv1d", "Conv2d"}, groups : {-1, 0, 1, 2},
   weight : {<<2, 1, 1>>, <<3, 1, 1>>, <<2, 0, 1>>, <<2, 1, 1, 1>>, <<0, 1, 1, 1>>},
   stride : {<<1>>, <<0>>, <<>>, <<1, 1>>}, dilation : {<<2>>, <<1, 0>>},
   padding : Paddings, bias : {<<2>>, <<3>>, <<>>, <<1, 2>>}]

Windows ==
  {[dtype |-> "i64", shape |-> <<2>>, values |-> <<1, 2>>],
   [dtype |-> "i64", shape |-> <<>>, values |-> <<0>>],
   [dtype |-> "i64", shape |-> <<1>>, values |-> <<-1>>],
   [dtype |-> "i64", shape |-> <<1, 2>>, values |-> <<1, 1>>],
   [dtype |-> "i64", shape |-> <<3>>, values |-> <<1, 1, 1>>],
   [dtype |-> "f32", shape |-> <<>>, values |-> <<>>]}

Pools ==
  [kind : {"SumPool2d", "AvgPool2d"}, kernel_size : Windows, stride : Windows,
   padding : Windows]

Good == [kind |-> "Input"]
Bad ==
  [kind |-> "Conv1d", groups |-> 0, weight |-> <<2, 1, 1>>, stride |-> <<1>>,
   dilation |-> <<1>>, padding |-> [mode |-> "same", extents |-> <<>>], bias |-> <<2>>]

MCLeaves == Convolutions \cup Pools \cup {Good, Bad}

-----------------------------------------------------------------------------
Node(n, h) == [name |-> n, holds |-> h]
NoEdges == [g \in MCGraphs |-> <<>>]

OneNodeGraphs ==
  {[nodes |-> [g \in MCGraphs |-> IF g = top THEN <<Node("n1", leaf)>> ELSE <<>>],
    edges |-> NoEdges] : leaf \in Convolutions \cup Pools}

(* Trees with leaves before, between and after the nested graphs, nested   *)
(* up to one level too deep, and faults in up to three of the graphs.      *)
EdgeLists ==
  {<<>>, <<<<"n1", "n1">>, <<"n1", "n3">>, <<"n2", "n1">>>>,
   <<<<"n1", "n1">>, <<"n1", "n1">>, <<"n3", "n1">>>>,
   <<<<"n1", "n1">>, <<"n1", "n1">>>>}

Trees ==
  {[nodes |-> [g \in MCGraphs |->
      CASE g = top -> t [] g = ga -> a [] g = gb -> b [] g = gc -> c [] g = gd -> <<>>],
    edges |-> [NoEdges EXCEPT ![top] = e, ![ga] = f, ![gb] = h]] :
     t \in {<<Node("n1", ga), Node("n2", gb)>>,
            <<Node("n1", Good), Node("n2", gb), Node("n3", ga)>>,
            <<Node("n1", ga), Node("n2", Bad), Node("n3", gb)>>},
     a \in {<<>>, <<Node("n1", gc)>>, <<Node("n1", Bad), Node("n2", gc)>>},
     b \in {<<Node("n1", Good)>>, <<Node("n1", Bad)>>},
     c \in {<<Node("n1", Good)>>, <<Node("n1", gd)>>, <<Node("n1", Bad), Node("n2", gd)>>},
     e \in {<<>>, <<<<"n1", "n2">>, <<"n1", "n2">>>>}, f \in EdgeLists, h \in EdgeLists}

MCInputs == OneNodeGraphs \cup Trees
=============================================================================
