------------------------ MODULE GraphValidationProofs -----------------------
(***************************************************************************)
(* Theorems about both validations, for graphs of any size and nesting:    *)
(* the types of the two walks, the bound on the heap walk's work, that it  *)
(* accepts exactly sound trees, that the two depth limits agree, that the  *)
(* heap walk reports what the recursive one of the documentation would,    *)
(* and that the parameter walk reports the first offending node.           *)
(***************************************************************************)
EXTENDS ValidationContract, Induction, FiniteSetTheorems, SequenceTheorems, TLAPS

(* The instances' copies of the operators of GraphModel are those.         *)
LEMMA SameFault == \A m, g : S!LocalFault(m, g) = LocalFault(m, g)
  BY DEF S!LocalFault, LocalFault, S!Dangling, Dangling, S!Repeated, Repeated,
         S!FirstUnknown, FirstUnknown, S!NodeNames, NodeNames, S!Min, Min, S!Sound, Sound

LEMMA SameWords ==
  /\ S!Sound = Sound /\ P!Sound = Sound
  /\ S!TooDeep = TooDeep /\ P!TooDeep = TooDeep
  /\ S!Accepted = Accepted /\ P!Accepted = Accepted
  BY DEF S!Sound, P!Sound, Sound, S!TooDeep, P!TooDeep, TooDeep, S!Accepted, P!Accepted, Accepted

-----------------------------------------------------------------------------
(* The types of the two walks.                                             *)
Paths == Seq(Names \cup {"<node>"})
ScanRecords == [graph : Graphs, frame : Nat, next : Nat, nested : Seq(S!WorkItems)]
CallRecords == [graph : Graphs, next : Nat \ {0}, path : Paths, depth : Nat]

(* An arena: each frame points at an earlier one and is one deeper.        *)
Forest(arena) ==
  /\ arena \in Seq(S!FrameRecords)
  /\ \A i \in 1..Len(arena) :
       /\ arena[i].parent < i
       /\ arena[i].depth = S!DepthOf(arena, arena[i].parent) + 1

(* Items of the work list, with frames of an arena of n.                   *)
Items(list, n) ==
  list \in Seq(S!WorkItems) /\ \A i \in 1..Len(list) : list[i].frame <= n

StructureTyped ==
  /\ Forest(frames) /\ Items(work, Len(frames))
  /\ scan \in ScanRecords /\ scan.frame <= Len(frames)
  /\ Items(scan.nested, Len(frames))

ParametersTyped == calls \in Seq(CallRecords) /\ entry \in {"graph", "node"}

TypeInv == model \in Inputs /\ StructureTyped /\ ParametersTyped

LEMMA ModelFacts ==
  ASSUME NEW m \in Inputs, NEW g \in Graphs
  PROVE  /\ m.nodes[g] \in Seq(NodeRecords) /\ Len(m.nodes[g]) \in Nat
         /\ \A i \in 1..Len(m.nodes[g]) :
              /\ m.nodes[g][i].name \in Names
              /\ m.nodes[g][i].holds \in Graphs \cup Leaves
              /\ m.nodes[g][i].holds # Top
         /\ DOMAIN m.nodes[g] = 1..Len(m.nodes[g])
<1>1. m \in Models /\ Owned(m)
  BY InputAssumption
<1>2. m.nodes[g] \in Seq(NodeRecords)
  BY <1>1 DEF Models
<1>3. DOMAIN m.nodes[g] = 1..Len(m.nodes[g]) /\ Len(m.nodes[g]) \in Nat
  BY <1>2
<1>4. ASSUME NEW i \in 1..Len(m.nodes[g])
      PROVE  m.nodes[g][i] \in NodeRecords /\ m.nodes[g][i].holds # Top
  BY <1>1, <1>2, <1>3 DEF Owned
<1>5. QED
  BY <1>2, <1>3, <1>4 DEF NodeRecords

LEMMA FrameFacts ==
  ASSUME NEW arena, Forest(arena), NEW i \in 1..Len(arena)
  PROVE  /\ arena[i] \in S!FrameRecords
         /\ arena[i].name \in Names /\ arena[i].parent \in Nat /\ arena[i].depth \in Nat
         /\ arena[i].parent < i
         /\ arena[i].depth = S!DepthOf(arena, arena[i].parent) + 1
<1>1. arena \in Seq(S!FrameRecords)
  BY DEF Forest
<1>2. arena[i] \in S!FrameRecords
  BY <1>1
<1>3. QED
  BY <1>2 DEF Forest, S!FrameRecords

(* The depth of a frame of an arena, and of the root.                      *)
LEMMA DepthTyped ==
  ASSUME NEW arena, Forest(arena), NEW i \in 0..Len(arena)
  PROVE  S!DepthOf(arena, i) \in Nat
<1>1. CASE i = 0
  BY <1>1 DEF S!DepthOf
<1>2. CASE i \in 1..Len(arena)
  BY <1>2, FrameFacts DEF S!DepthOf
<1>3. Len(arena) \in Nat
  BY DEF Forest
<1>4. QED
  BY <1>1, <1>2, <1>3

(* A frame pushed below one that exists keeps the arena a forest, and      *)
(* moves nothing in it.                                                    *)
LEMMA ForestGrows ==
  ASSUME NEW arena, Forest(arena), NEW p \in 0..Len(arena), NEW n \in Names,
         NEW grown, grown = Append(arena, [name |-> n, parent |-> p,
                                           depth |-> S!DepthOf(arena, p) + 1])
  PROVE  /\ Forest(grown) /\ Len(grown) = Len(arena) + 1
         /\ \A i \in 1..Len(arena) : grown[i] = arena[i]
         /\ grown[Len(grown)] = [name |-> n, parent |-> p, depth |-> S!DepthOf(arena, p) + 1]
         /\ \A i \in 0..Len(arena) : S!DepthOf(grown, i) = S!DepthOf(arena, i)
         /\ S!DepthOf(grown, Len(grown)) = S!DepthOf(arena, p) + 1
<1> DEFINE top == [name |-> n, parent |-> p, depth |-> S!DepthOf(arena, p) + 1]
<1>1. arena \in Seq(S!FrameRecords) /\ Len(arena) \in Nat
  BY DEF Forest
<1>2. S!DepthOf(arena, p) \in Nat
  BY DepthTyped
<1>3. top \in S!FrameRecords /\ p \in Nat
  BY <1>1, <1>2 DEF S!FrameRecords
<1>4. /\ grown \in Seq(S!FrameRecords) /\ Len(grown) = Len(arena) + 1
      /\ \A i \in 1..Len(arena) : grown[i] = arena[i]
      /\ grown[Len(grown)] = top
  BY <1>1, <1>3
<1>5. \A i \in 0..Len(arena) : S!DepthOf(grown, i) = S!DepthOf(arena, i)
  BY <1>1, <1>4 DEF S!DepthOf
<1>6. S!DepthOf(grown, Len(grown)) = S!DepthOf(arena, p) + 1
  BY <1>1, <1>4 DEF S!DepthOf
<1>7. ASSUME NEW i \in 1..Len(grown)
      PROVE  grown[i].parent < i /\ grown[i].depth = S!DepthOf(grown, grown[i].parent) + 1
  <2>1. CASE i = Len(grown)
    BY <2>1, <1>1, <1>3, <1>4, <1>5
  <2>2. CASE i \in 1..Len(arena)
    <3>1. arena[i].parent \in Nat /\ arena[i].parent < i
            /\ arena[i].depth = S!DepthOf(arena, arena[i].parent) + 1
      BY <2>2, FrameFacts
    <3>2. arena[i].parent \in 0..Len(arena)
      BY <3>1, <2>2, <1>1
    <3>3. QED
      BY <2>2, <3>1, <3>2, <1>4, <1>5
  <2>3. QED
    BY <2>1, <2>2, <1>1, <1>4
<1>8. QED
  BY <1>4, <1>5, <1>6, <1>7 DEF Forest

(* Taking the last item off a list, adding one, and reversing a list.      *)
LEMMA ItemsChange ==
  ASSUME NEW list, NEW n \in Nat, Items(list, n)
  PROVE  /\ Items(list, n + 1)
         /\ list # <<>> => /\ Items(SubSeq(list, 1, Len(list) - 1), n)
                           /\ list[Len(list)] \in S!WorkItems
                           /\ list[Len(list)].frame <= n
         /\ \A x \in S!WorkItems : x.frame <= n => Items(Append(list, x), n)
         /\ \A more : Items(more, n) => Items(list \o S!Waiting(more), n)
<1>1. list \in Seq(S!WorkItems) /\ Len(list) \in Nat
      /\ \A i \in 1..Len(list) : list[i] \in S!WorkItems /\ list[i].frame \in Nat
  <2>1. list \in Seq(S!WorkItems) /\ Len(list) \in Nat
    BY DEF Items
  <2>2. \A i \in 1..Len(list) : list[i] \in S!WorkItems
    BY <2>1
  <2>3. QED
    BY <2>1, <2>2 DEF S!WorkItems
<1>2. Items(list, n + 1)
  BY <1>1 DEF Items
<1>3. ASSUME list # <<>>
      PROVE  /\ Items(SubSeq(list, 1, Len(list) - 1), n)
             /\ list[Len(list)] \in S!WorkItems /\ list[Len(list)].frame <= n
  BY <1>1, <1>3 DEF Items
<1>4. ASSUME NEW x \in S!WorkItems, x.frame <= n PROVE Items(Append(list, x), n)
  BY <1>1, <1>4 DEF Items
<1>5. ASSUME NEW more, Items(more, n) PROVE Items(list \o S!Waiting(more), n)
  <2>1. more \in Seq(S!WorkItems) /\ Len(more) \in Nat
        /\ \A i \in 1..Len(more) : more[i] \in S!WorkItems /\ more[i].frame <= n
    BY <1>5 DEF Items
  <2> DEFINE back == S!Waiting(more)
  <2>2. back = [i \in 1..Len(more) |-> more[Len(more) - i + 1]]
    BY <2>1 DEF S!Waiting, S!Reverse
  <2>3. back \in Seq(S!WorkItems) /\ Len(back) = Len(more)
        /\ \A i \in 1..Len(back) : back[i].frame <= n
    BY <2>1, <2>2
  <2> HIDE DEF back
  <2>4. list \o back \in Seq(S!WorkItems)
    BY <1>1, <2>3
  <2>5. ASSUME NEW i \in 1..Len(list \o back) PROVE (list \o back)[i].frame <= n
    <3>1. CASE i \in 1..Len(list)
      BY <3>1, <1>1, <2>3 DEF Items
    <3>2. CASE i - Len(list) \in 1..Len(back)
      BY <3>2, <1>1, <2>3, <2>5
    <3>3. QED
      BY <3>1, <3>2, <1>1, <2>3
  <2>6. QED
    BY <2>4, <2>5 DEF Items, back
<1>6. QED
  BY <1>2, <1>3, <1>4, <1>5

-----------------------------------------------------------------------------
LEMMA TypeInit == Init => TypeInv
<1>1. SUFFICES ASSUME Init PROVE TypeInv
  OBVIOUS
<1>2. PICK m \in Inputs, e \in {"graph", "node"} : S!StartOn(m) /\ P!StartOn(m, e)
  BY <1>1 DEF Init
<1>3. model = m /\ frames = <<>> /\ scan = S!Idle
      /\ work = <<[graph |-> Top, frame |-> 0]>> /\ entry = e
  BY <1>2, Zenon DEF S!StartOn, P!StartOn
<1>4. Forest(frames)
  BY <1>3 DEF Forest
<1>5. Top \in Graphs
  BY ModelAssumption
<1>6. Items(work, Len(frames))
  <2>1. [graph |-> Top, frame |-> 0] \in S!WorkItems
    BY <1>5 DEF S!WorkItems
  <2>2. work \in Seq(S!WorkItems) /\ Len(work) = 1 /\ work[1].frame = 0 /\ Len(frames) = 0
    BY <2>1, <1>3
  <2>3. QED
    BY <2>2 DEF Items
<1>7. scan \in ScanRecords /\ scan.frame <= Len(frames) /\ Items(scan.nested, Len(frames))
  BY <1>3, <1>5 DEF S!Idle, ScanRecords, Items
<1>8. calls \in Seq(CallRecords)
  <2>1. P!EntryPath(e) \in Paths
    <3> DEFINE word == "<node>"
    <3> HIDE DEF word
    <3>1. <<>> \in Seq(Names \cup {word}) /\ <<word>> \in Seq(Names \cup {word})
      OBVIOUS
    <3>2. P!EntryPath(e) = <<>> \/ P!EntryPath(e) = <<word>>
      BY Zenon DEF P!EntryPath, word
    <3>3. QED
      BY <3>1, <3>2 DEF Paths, word
  <2>2. [graph |-> Top, next |-> 1, path |-> P!EntryPath(e),
         depth |-> IF e = "node" THEN 1 ELSE 0] \in CallRecords
    BY <2>1, <1>5 DEF CallRecords
  <2>3. calls = <<[graph |-> Top, next |-> 1, path |-> P!EntryPath(e),
                   depth |-> IF e = "node" THEN 1 ELSE 0]>>
    BY <1>2, Zenon DEF P!StartOn
  <2>4. QED
    BY <2>2, <2>3
<1>9. QED
  BY <1>2, <1>3, <1>4, <1>6, <1>7, <1>8 DEF TypeInv, StructureTyped, ParametersTyped

(* The node the heap walk looks at.                                        *)
LEMMA ScanFacts ==
  ASSUME TypeInv
  PROVE  /\ scan.graph \in Graphs /\ scan.frame \in 0..Len(frames) /\ scan.next \in Nat
         /\ Len(frames) \in Nat /\ S!ScanDepth \in Nat
         /\ S!Nodes = model.nodes[scan.graph] /\ Len(S!Nodes) \in Nat
         /\ scan = [graph |-> scan.graph, frame |-> scan.frame, next |-> scan.next,
                    nested |-> scan.nested]
         /\ S!Scanning => /\ scan.next \in 1..Len(S!Nodes)
                          /\ S!Node = model.nodes[scan.graph][scan.next]
                          /\ S!Node.name \in Names
                          /\ S!Node.holds \in Graphs \cup Leaves
<1>1. scan \in ScanRecords /\ scan.frame <= Len(frames) /\ Forest(frames) /\ model \in Inputs
  BY DEF TypeInv, StructureTyped
<1>2. /\ scan.graph \in Graphs /\ scan.frame \in Nat /\ scan.next \in Nat
      /\ scan = [graph |-> scan.graph, frame |-> scan.frame, next |-> scan.next,
                 nested |-> scan.nested]
  BY <1>1 DEF ScanRecords
<1>3. Len(frames) \in Nat
  BY <1>1 DEF Forest
<1>4. scan.frame \in 0..Len(frames)
  BY <1>1, <1>2, <1>3
<1>5. S!ScanDepth \in Nat
  BY <1>1, <1>4, DepthTyped DEF S!ScanDepth
<1>6. S!Nodes = model.nodes[scan.graph] /\ Len(S!Nodes) \in Nat
  BY <1>1, <1>2, ModelFacts DEF S!Nodes
<1>7. ASSUME S!Scanning
      PROVE  /\ scan.next \in 1..Len(S!Nodes)
             /\ S!Node = model.nodes[scan.graph][scan.next]
             /\ S!Node.name \in Names /\ S!Node.holds \in Graphs \cup Leaves
  <2>1. scan.next \in 1..Len(S!Nodes)
    BY <1>2, <1>6, <1>7 DEF S!Scanning
  <2>2. S!Node = model.nodes[scan.graph][scan.next]
    BY <1>6 DEF S!Node
  <2>3. QED
    BY <1>1, <1>2, <1>6, <2>1, <2>2, ModelFacts
<1>8. QED
  BY <1>2, <1>3, <1>4, <1>5, <1>6, <1>7

(* What pushing a frame does to the arena.                                 *)
LEMMA PushFacts ==
  ASSUME TypeInv, S!Scanning, S!PushesFrame
  PROVE  /\ Forest(frames') /\ Len(frames') = Len(frames) + 1
         /\ \A i \in 1..Len(frames) : frames'[i] = frames[i]
         /\ frames'[Len(frames) + 1] =
              [name |-> S!Node.name, parent |-> scan.frame, depth |-> S!ScanDepth + 1]
         /\ \A i \in 0..Len(frames) : S!DepthOf(frames', i) = S!DepthOf(frames, i)
         /\ S!DepthOf(frames', Len(frames) + 1) = S!ScanDepth + 1
<1>1. Forest(frames) /\ scan.frame \in 0..Len(frames) /\ S!Node.name \in Names
  BY ScanFacts DEF TypeInv, StructureTyped
<1>2. frames' = Append(frames, [name |-> S!Node.name, parent |-> scan.frame,
                                depth |-> S!DepthOf(frames, scan.frame) + 1])
  BY DEF S!PushesFrame, S!ScanDepth
<1>3. S!ScanDepth = S!DepthOf(frames, scan.frame)
  BY DEF S!ScanDepth
<1>5. \A grown :
        grown = Append(frames, [name |-> S!Node.name, parent |-> scan.frame,
                                depth |-> S!DepthOf(frames, scan.frame) + 1]) =>
          /\ Forest(grown) /\ Len(grown) = Len(frames) + 1
          /\ \A i \in 1..Len(frames) : grown[i] = frames[i]
          /\ grown[Len(grown)] = [name |-> S!Node.name, parent |-> scan.frame,
                                  depth |-> S!DepthOf(frames, scan.frame) + 1]
          /\ \A i \in 0..Len(frames) : S!DepthOf(grown, i) = S!DepthOf(frames, i)
          /\ S!DepthOf(grown, Len(grown)) = S!DepthOf(frames, scan.frame) + 1
  <2> DEFINE p == scan.frame
             n == S!Node.name
  <2>1. p \in 0..Len(frames) /\ n \in Names
    BY <1>1
  <2> HIDE DEF p, n
  <2>2. \A grown :
          grown = Append(frames, [name |-> n, parent |-> p, depth |-> S!DepthOf(frames, p) + 1]) =>
          /\ Forest(grown) /\ Len(grown) = Len(frames) + 1
          /\ \A i \in 1..Len(frames) : grown[i] = frames[i]
          /\ grown[Len(grown)] = [name |-> n, parent |-> p, depth |-> S!DepthOf(frames, p) + 1]
          /\ \A i \in 0..Len(frames) : S!DepthOf(grown, i) = S!DepthOf(frames, i)
          /\ S!DepthOf(grown, Len(grown)) = S!DepthOf(frames, p) + 1
    BY <1>1, <2>1, ForestGrows
  <2>3. QED
    BY <2>2 DEF p, n
<1>6. QED
  BY <1>2, <1>3, <1>5

LEMMA StructureTypedStep ==
  ASSUME TypeInv, S!Next
  PROVE  StructureTyped' /\ model' = model
<1>t. StructureTyped /\ Len(frames) \in Nat
  BY ScanFacts DEF TypeInv
<1>p. ASSUME S!Popping
      PROVE  /\ S!Item \in S!WorkItems /\ S!Item.frame <= Len(frames)
             /\ Items(SubSeq(work, 1, Len(work) - 1), Len(frames))
  BY <1>t, <1>p, ItemsChange DEF StructureTyped, S!Popping, S!Item
<1>1. CASE S!RejectLocal
  <2>1. /\ work' = SubSeq(work, 1, Len(work) - 1) /\ S!Popping
        /\ frames' = frames /\ scan' = scan /\ model' = model
    BY <1>1 DEF S!RejectLocal
  <2>2. QED
    BY <1>t, <1>p, <2>1 DEF StructureTyped
<1>2. CASE S!Visit
  <2>1. /\ work' = SubSeq(work, 1, Len(work) - 1) /\ S!Popping
        /\ frames' = frames /\ model' = model
        /\ scan' = [graph |-> S!Item.graph, frame |-> S!Item.frame, next |-> 1, nested |-> <<>>]
    BY <1>2 DEF S!Visit
  <2>2. scan' \in ScanRecords /\ scan'.frame <= Len(frames) /\ scan'.nested = <<>>
    BY <1>p, <2>1 DEF S!WorkItems, ScanRecords
  <2>3. Items(<<>>, Len(frames))
    BY DEF Items
  <2>4. QED
    BY <1>t, <1>p, <2>1, <2>2, <2>3 DEF StructureTyped
<1>3. CASE S!SkipLeaf
  <2>1. /\ frames' = frames /\ work' = work /\ model' = model
        /\ scan' = [scan EXCEPT !.next = scan.next + 1]
    BY <1>3 DEF S!SkipLeaf
  <2>2. scan' \in ScanRecords /\ scan'.frame = scan.frame /\ scan'.nested = scan.nested
    BY <1>t, <2>1 DEF StructureTyped, ScanRecords
  <2>3. QED
    BY <1>t, <2>1, <2>2 DEF StructureTyped
<1>4. CASE S!PushNested
  <2> DEFINE item == [graph |-> S!Node.holds, frame |-> Len(frames) + 1]
  <2>1. /\ work' = work /\ model' = model /\ S!Scanning /\ S!PushesFrame
        /\ S!Node.holds \in Graphs
        /\ scan' = [scan EXCEPT !.next = scan.next + 1, !.nested = Append(scan.nested, item)]
    BY <1>4 DEF S!PushNested, S!FrameIndex
  <2>2. Forest(frames') /\ Len(frames') = Len(frames) + 1
    BY <2>1, PushFacts
  <2>3. item \in S!WorkItems /\ item.frame <= Len(frames) + 1
    BY <1>t, <2>1 DEF S!WorkItems
  <2>4. Items(work, Len(frames) + 1) /\ Items(scan.nested, Len(frames) + 1)
    BY <1>t, ItemsChange DEF StructureTyped
  <2> HIDE DEF item
  <2>5. Items(Append(scan.nested, item), Len(frames) + 1)
    BY <1>t, <2>3, <2>4, ItemsChange
  <2>6. Append(scan.nested, item) \in Seq(S!WorkItems)
    BY <2>5 DEF Items
  <2> DEFINE more == Append(scan.nested, item)
  <2>m. scan' = [scan EXCEPT !.next = scan.next + 1, !.nested = more] /\ more \in Seq(S!WorkItems)
    BY <2>1, <2>6
  <2> HIDE DEF more
  <2>7. scan' \in ScanRecords /\ scan'.frame = scan.frame /\ scan'.nested = more
    <3>1. scan' = [graph |-> scan.graph, frame |-> scan.frame, next |-> scan.next + 1,
                   nested |-> more]
      BY <2>m, ScanFacts
    <3>2. QED
      BY <2>m, <3>1, ScanFacts DEF ScanRecords
  <2>8. scan.frame <= Len(frames) + 1
    BY <1>t, ScanFacts
  <2>9. QED
    BY <2>1, <2>2, <2>4, <2>5, <2>7, <2>8 DEF StructureTyped, more
<1>5. CASE S!RejectDepth
  <2>1. /\ work' = work /\ model' = model /\ scan' = scan /\ S!Scanning /\ S!PushesFrame
    BY <1>5 DEF S!RejectDepth
  <2>2. Forest(frames') /\ Len(frames') = Len(frames) + 1
    BY <2>1, PushFacts
  <2>4. Items(work, Len(frames) + 1) /\ Items(scan.nested, Len(frames) + 1)
    BY <1>t, ItemsChange DEF StructureTyped
  <2>5. scan.frame <= Len(frames) + 1
    BY <1>t, ScanFacts
  <2>6. QED
    BY <1>t, <2>1, <2>2, <2>4, <2>5 DEF StructureTyped
<1>6. CASE S!ExtendWork
  <2>1. frames' = frames /\ model' = model /\ scan' = S!Idle
        /\ work' = work \o S!Waiting(scan.nested)
    BY <1>6 DEF S!ExtendWork
  <2>2. Items(work \o S!Waiting(scan.nested), Len(frames))
    BY <1>t, ItemsChange DEF StructureTyped
  <2>3. scan' \in ScanRecords /\ scan'.frame <= Len(frames) /\ Items(scan'.nested, Len(frames))
    BY <1>t, <2>1, ModelAssumption DEF S!Idle, ScanRecords, Items
  <2>4. QED
    BY <1>t, <2>1, <2>2, <2>3 DEF StructureTyped
<1>7. CASE S!Accept
  BY <1>t, <1>7 DEF S!Accept, StructureTyped
<1>8. QED
  BY <1>1, <1>2, <1>3, <1>4, <1>5, <1>6, <1>7 DEF S!Next

-----------------------------------------------------------------------------
(* The innermost call of the recursive walk, and the node it looks at.     *)
LEMMA CallFacts ==
  ASSUME TypeInv, calls # <<>>
  PROVE  /\ Len(calls) \in Nat \ {0} /\ P!Call = calls[Len(calls)]
         /\ P!Call \in CallRecords
         /\ P!Call.graph \in Graphs /\ P!Call.next \in Nat \ {0} /\ P!Call.depth \in Nat
         /\ P!Call.path \in Paths
         /\ Len(model.nodes[P!Call.graph]) \in Nat
         /\ P!Looking => /\ P!Call.next \in 1..Len(model.nodes[P!Call.graph])
                         /\ P!Node = model.nodes[P!Call.graph][P!Call.next]
                         /\ P!Node.name \in Names
                         /\ P!Node.holds \in Graphs \cup Leaves
<1>1. calls \in Seq(CallRecords) /\ model \in Inputs
  BY DEF TypeInv, ParametersTyped
<1>2. Len(calls) \in Nat \ {0} /\ P!Call = calls[Len(calls)]
  BY <1>1 DEF P!Call, P!Last
<1>3. P!Call \in CallRecords
  BY <1>1, <1>2
<1>4. /\ P!Call.graph \in Graphs /\ P!Call.next \in Nat \ {0} /\ P!Call.depth \in Nat
      /\ P!Call.path \in Paths
  BY <1>3 DEF CallRecords
<1>5. Len(model.nodes[P!Call.graph]) \in Nat
  BY <1>1, <1>4, ModelFacts
<1>6. ASSUME P!Looking
      PROVE  /\ P!Call.next \in 1..Len(model.nodes[P!Call.graph])
             /\ P!Node = model.nodes[P!Call.graph][P!Call.next]
             /\ P!Node.name \in Names
             /\ P!Node.holds \in Graphs \cup Leaves
  <2>1. P!Call.next \in 1..Len(model.nodes[P!Call.graph])
    BY <1>4, <1>5, <1>6 DEF P!Looking
  <2>2. P!Node = model.nodes[P!Call.graph][P!Call.next]
    BY DEF P!Node
  <2>3. QED
    BY <1>1, <1>4, <2>1, <2>2, ModelFacts
<1>7. QED
  BY <1>2, <1>3, <1>4, <1>5, <1>6

(* Advancing moves only the position of the innermost call.                *)
LEMMA AdvancedFacts ==
  ASSUME TypeInv, calls # <<>>
  PROVE  /\ P!Advanced \in Seq(CallRecords) /\ Len(P!Advanced) = Len(calls)
         /\ \A i \in 1..Len(calls) :
              /\ P!Advanced[i].graph = calls[i].graph /\ P!Advanced[i].depth = calls[i].depth
              /\ P!Advanced[i].path = calls[i].path
              /\ i # Len(calls) => P!Advanced[i] = calls[i]
         /\ P!Advanced[Len(calls)].next = P!Call.next + 1
<1> DEFINE n == Len(calls)
           moved == [P!Call EXCEPT !.next = P!Call.next + 1]
<1>1. n \in Nat \ {0} /\ calls \in Seq(CallRecords) /\ P!Call = calls[n] /\ P!Call \in CallRecords
      /\ P!Call.next \in Nat
  BY CallFacts DEF TypeInv, ParametersTyped
<1>2. moved \in CallRecords /\ moved.graph = P!Call.graph /\ moved.depth = P!Call.depth
      /\ moved.path = P!Call.path /\ moved.next = P!Call.next + 1
  BY <1>1 DEF CallRecords
<1>3. P!Advanced = [calls EXCEPT ![n] = moved]
  BY <1>1 DEF P!Advanced
<1> HIDE DEF moved
<1>4. P!Advanced \in Seq(CallRecords) /\ Len(P!Advanced) = n
      /\ \A i \in 1..n : P!Advanced[i] = IF i = n THEN moved ELSE calls[i]
  BY <1>1, <1>2, <1>3
<1>5. QED
  BY <1>1, <1>2, <1>4

LEMMA ParametersTypedStep ==
  ASSUME TypeInv, P!Next
  PROVE  ParametersTyped' /\ model' = model
<1>t. calls \in Seq(CallRecords) /\ entry \in {"graph", "node"}
  BY DEF TypeInv, ParametersTyped
<1>1. CASE P!EnterNested
  <2>1. /\ model' = model /\ entry' = entry /\ calls # <<>> /\ P!Looking
        /\ calls' = Append(P!Advanced, P!Inner(P!NodePath)) /\ P!Node.holds \in Graphs
    BY <1>1 DEF P!EnterNested, P!Looking
  <2>2. P!NodePath \in Paths
    <3> DEFINE path == P!Call.path
               name == P!Node.name
    <3>1. path \in Paths /\ name \in Names
      BY <2>1, CallFacts
    <3>2. P!NodePath = Append(path, name)
      BY DEF P!NodePath
    <3> HIDE DEF path, name
    <3>3. QED
      BY <3>1, <3>2 DEF Paths
  <2>3. P!Inner(P!NodePath) \in CallRecords
    <3>1. P!Call.depth + 1 \in Nat
      BY <2>1, CallFacts
    <3>2. QED
      BY <2>1, <2>2, <3>1 DEF P!Inner, CallRecords
  <2>4. P!Advanced \in Seq(CallRecords)
    BY <2>1, AdvancedFacts
  <2>5. QED
    BY <1>t, <2>1, <2>3, <2>4 DEF ParametersTyped
<1>2. CASE P!RejectDeep
  BY <1>t, <1>2 DEF P!RejectDeep, ParametersTyped
<1>3. CASE P!PassNode
  <2>1. /\ model' = model /\ entry' = entry /\ calls # <<>> /\ calls' = P!Advanced
    BY <1>3 DEF P!PassNode, P!Looking
  <2>2. QED
    BY <1>t, <2>1, AdvancedFacts DEF ParametersTyped
<1>4. CASE P!RejectNode
  BY <1>t, <1>4 DEF P!RejectNode, ParametersTyped
<1>5. CASE P!Return
  <2>1. model' = model /\ entry' = entry /\ calls' = P!Front(calls) /\ calls # <<>>
    BY <1>5 DEF P!Return
  <2>2. calls' = SubSeq(calls, 1, Len(calls) - 1)
    BY <2>1 DEF P!Front
  <2>3. QED
    BY <1>t, <2>1, <2>2 DEF ParametersTyped
<1>6. CASE P!Accept
  BY <1>t, <1>6 DEF P!Accept, ParametersTyped
<1>7. QED
  BY <1>1, <1>2, <1>3, <1>4, <1>5, <1>6 DEF P!Next

LEMMA TypeNext == TypeInv /\ [Next]_vars => TypeInv'
<1> SUFFICES ASSUME TypeInv, [Next]_vars PROVE TypeInv'
  OBVIOUS
<1>1. CASE ValidateStructure
  BY <1>1, StructureTypedStep DEF ValidateStructure, TypeInv, ParametersTyped
<1>2. CASE ValidateParameters
  <2>1. ParametersTyped' /\ model' = model
        /\ frames' = frames /\ work' = work /\ scan' = scan
    BY <1>2, ParametersTypedStep DEF ValidateParameters
  <2>2. QED
    BY <2>1 DEF TypeInv, StructureTyped
<1>3. CASE UNCHANGED vars
  BY <1>3 DEF vars, TypeInv, StructureTyped, ParametersTyped
<1>4. QED
  BY <1>1, <1>2, <1>3 DEF Next

(* Both walks keep to their types: a frame points at an earlier frame one  *)
(* level up, and nothing waits without a frame, on graphs of any size.     *)
THEOREM ValidatorsTypeCorrect == Spec => []TypeOK
<1>1. TypeInv => TypeOK
  <2> SUFFICES ASSUME TypeInv PROVE TypeOK
    OBVIOUS
  <2>1. /\ model \in Inputs /\ Forest(frames) /\ Items(work, Len(frames))
        /\ Items(scan.nested, Len(frames)) /\ calls \in Seq(CallRecords)
    BY DEF TypeInv, StructureTyped, ParametersTyped
  <2>2. DOMAIN frames = 1..Len(frames)
    BY <2>1 DEF Forest
  <2>3. ASSUME NEW i \in DOMAIN frames
        PROVE  /\ frames[i] \in S!FrameRecords /\ frames[i].parent < i
               /\ frames[i].depth = S!DepthOf(frames, frames[i].parent) + 1
    BY <2>1, <2>2, FrameFacts
  <2>4. ASSUME NEW list, Items(list, Len(frames)), NEW i \in DOMAIN list
        PROVE  list[i] \in S!WorkItems /\ list[i].frame <= Len(frames)
    <3>1. list \in Seq(S!WorkItems) /\ i \in 1..Len(list)
      BY <2>4 DEF Items
    <3>2. QED
      BY <2>4, <3>1 DEF Items
  <2>5. ASSUME NEW i \in DOMAIN calls
        PROVE  calls[i].graph \in Graphs /\ calls[i].next \in Nat \ {0} /\ calls[i].depth \in Nat
    <3>1. calls[i] \in CallRecords
      BY <2>1
    <3>2. QED
      BY <3>1 DEF CallRecords
  <2>6. scan.graph \in Graphs /\ scan.frame \in 0..Len(frames) /\ scan.next \in Nat
    BY ScanFacts
  <2>7. QED
    BY <2>1, <2>3, <2>4, <2>5, <2>6 DEF TypeOK
<1>2. QED
  BY TypeInit, TypeNext, <1>1, PTL DEF Spec

-----------------------------------------------------------------------------
(* The heap walk.  Behind the arena is a function from frames to the       *)
(* graphs they stand for, with the root at 0: it is the witness on which   *)
(* the invariant rests, and no variable of the code.                       *)
NestedIn(g, h) ==
  h \in Graphs /\ \E k \in 1..Len(model.nodes[g]) : model.nodes[g][k].holds = h

(* The graphs of a tree with the depths at which they are nested, and what *)
(* both limits are about: a graph that is nested too deeply.               *)
Places == Graphs \X Nat
Below(m, g, d, places, upto) ==
  \A k \in 1..Len(m.nodes[g]) :
    k < upto /\ m.nodes[g][k].holds \in Graphs => <<m.nodes[g][k].holds, d + 1>> \in places
Leads(m, places) ==
  \A g \in Graphs, d \in Nat :
    <<g, d>> \in places => Below(m, g, d, places, Len(m.nodes[g]) + 1)
Placed(m) ==
  {p \in Places : \A s \in SUBSET Places : <<Top, 0>> \in s /\ Leads(m, s) => p \in s}
Deep(m) == \E g \in Graphs, d \in Nat : <<g, d>> \in Placed(m) /\ d > MaxDepth

Arena(own) ==
  /\ own \in [0..Len(frames) -> Graphs] /\ own[0] = Top
  /\ \A i, j \in 0..Len(frames) : own[i] = own[j] => i = j
  /\ \A i \in 0..Len(frames) :
       own[i] \in Inside(model) /\ <<own[i], S!DepthOf(frames, i)>> \in Placed(model)
  /\ \A i \in 1..Len(frames) : NestedIn(own[frames[i].parent], own[i])

FramesOf(list) == {list[i].frame : i \in 1..Len(list)}
Lined(list) == \A i, j \in 1..Len(list) : list[i].frame = list[j].frame => i = j
OwnedBy(own, list) == \A i \in 1..Len(list) : own[list[i].frame] = list[i].graph

Pending == FramesOf(work) \cup FramesOf(scan.nested)

(* What waits, and what is looked at, is pairwise different.               *)
Waits(own) ==
  /\ OwnedBy(own, work) /\ Lined(work)
  /\ OwnedBy(own, scan.nested) /\ Lined(scan.nested)
  /\ FramesOf(work) \cap FramesOf(scan.nested) = {}
  /\ scan.next = 0 => scan.nested = <<>>
  /\ scan.next > 0 => own[scan.frame] = scan.graph /\ scan.frame \notin Pending

(* The first nodes of a frame's graph have frames of their own.            *)
Framed(own, i, upto) ==
  \A k \in 1..Len(model.nodes[own[i]]) :
    k < upto /\ model.nodes[own[i]][k].holds \in Graphs =>
      \E j \in 1..Len(frames) : frames[j].parent = i /\ own[j] = model.nodes[own[i]][k].holds

Complete(own, i) ==
  LocalFault(model, own[i]) = Sound /\ Framed(own, i, Len(model.nodes[own[i]]) + 1)

(* While the walk goes on: frames hang only below what was looked at, and  *)
(* everything looked at is sound and has its nested graphs in the arena.   *)
Explored(own) ==
  /\ \A i \in 1..Len(frames) :
       /\ frames[i].parent \notin Pending
       /\ scan.next > 0 /\ frames[i].parent = scan.frame =>
            \E k \in 1..Len(model.nodes[scan.graph]) :
              k < scan.next /\ model.nodes[scan.graph][k].holds = own[i]
  /\ \A i \in 0..Len(frames) :
       i \notin Pending /\ ~(scan.next > 0 /\ i = scan.frame) => Complete(own, i)
  /\ scan.next > 0 =>
       LocalFault(model, scan.graph) = Sound /\ Framed(own, scan.frame, scan.next)
  /\ \A i \in 0..Len(frames) : S!DepthOf(frames, i) <= MaxDepth

Ended(own) ==
  /\ structure = Accepted =>
       \A i \in 0..Len(frames) : Complete(own, i) /\ S!DepthOf(frames, i) <= MaxDepth
  /\ structure \notin {S!NoVerdict, Accepted} =>
       IF structure.problem = TooDeep
       THEN \E i \in 0..Len(frames) : S!DepthOf(frames, i) > MaxDepth
       ELSE \E i \in 0..Len(frames) : LocalFault(model, own[i]) = structure.problem

Walk(own) ==
  /\ Arena(own) /\ Waits(own) /\ Ended(own)
  /\ structure = S!NoVerdict => Explored(own)

HeapInv == TypeInv /\ \E own \in [0..Len(frames) -> Graphs] : Walk(own)

-----------------------------------------------------------------------------
(* Lists of items: what taking one, adding one or adding a reversed list   *)
(* does to their frames.                                                   *)
LEMMA AllButLast ==
  ASSUME NEW A, NEW list \in Seq(A), list # <<>>,
         NEW rest, rest = SubSeq(list, 1, Len(list) - 1)
  PROVE  /\ Len(list) \in Nat \ {0} /\ Len(rest) = Len(list) - 1
         /\ \A i \in 1..(Len(list) - 1) : rest[i] = list[i]
<1> DEFINE n == Len(list)
           k == n - 1
<1>1. n \in Nat \ {0}
  OBVIOUS
<1>2. k \in Nat /\ \A i \in 1..k : list[i] \in A
  BY <1>1
<1>3. rest = SubSeq(list, 1, k)
  OBVIOUS
<1> HIDE DEF k
<1>4. /\ Len(rest) = IF 1 <= k THEN k - 1 + 1 ELSE 0
      /\ \A i \in 1..(k - 1 + 1) : rest[i] = list[1 + i - 1]
  <2>1. \A j \in Nat : (\A i \in 1..j : list[i] \in A) =>
          /\ Len(SubSeq(list, 1, j)) = IF 1 <= j THEN j - 1 + 1 ELSE 0
          /\ \A i \in 1..(j - 1 + 1) : SubSeq(list, 1, j)[i] = list[1 + i - 1]
    BY SubSeqProperties
  <2>2. QED
    BY <1>2, <1>3, <2>1, Zenon
<1>5. Len(rest) = k /\ \A i \in 1..k : rest[i] = list[i]
  <2>1. Len(rest) = k
    BY <1>2, <1>4
  <2>2. k - 1 + 1 = k /\ \A i \in 1..k : 1 + i - 1 = i
    BY <1>2
  <2>3. \A i \in 1..k : rest[i] = list[1 + i - 1]
    BY <1>4, <2>2, Zenon
  <2>4. QED
    BY <2>1, <2>2, <2>3, Zenon
<1>6. QED
  BY <1>1, <1>5, Zenon DEF k

LEMMA PopFacts ==
  ASSUME NEW list \in Seq(S!WorkItems), list # <<>>, Lined(list),
         NEW rest, rest = SubSeq(list, 1, Len(list) - 1)
  PROVE  /\ Lined(rest) /\ list[Len(list)].frame \notin FramesOf(rest)
         /\ FramesOf(list) = FramesOf(rest) \cup {list[Len(list)].frame}
         /\ \A own : OwnedBy(own, list) =>
              OwnedBy(own, rest) /\ own[list[Len(list)].frame] = list[Len(list)].graph
<1>1. Len(list) \in Nat \ {0} /\ Len(rest) = Len(list) - 1
      /\ \A i \in 1..Len(rest) : rest[i] = list[i]
  BY AllButLast, Zenon
<1>2. 1..Len(list) = 1..Len(rest) \cup {Len(list)} /\ Len(list) \notin 1..Len(rest)
  BY <1>1
<1>3. Lined(rest) /\ list[Len(list)].frame \notin FramesOf(rest)
  <2>1. Lined(rest)
    BY <1>1, <1>2, Zenon DEF Lined
  <2>2. ASSUME NEW i \in 1..Len(rest) PROVE rest[i].frame # list[Len(list)].frame
    <3>1. i \in 1..Len(list) /\ Len(list) \in 1..Len(list) /\ i # Len(list)
      BY <1>2, <2>2, Zenon
    <3>2. list[i].frame # list[Len(list)].frame
      BY <3>1, Zenon DEF Lined
    <3>3. QED
      BY <1>1, <2>2, <3>2, Zenon
  <2>3. QED
    BY <2>1, <2>2, Zenon DEF FramesOf
<1>4. FramesOf(list) = FramesOf(rest) \cup {list[Len(list)].frame}
  BY <1>1, <1>2 DEF FramesOf
<1>5. \A own : OwnedBy(own, list) =>
        OwnedBy(own, rest) /\ own[list[Len(list)].frame] = list[Len(list)].graph
  BY <1>1, <1>2 DEF OwnedBy
<1>6. QED
  BY <1>3, <1>4, <1>5

LEMMA AppendFacts ==
  ASSUME NEW list \in Seq(S!WorkItems), Lined(list), NEW x \in S!WorkItems,
         x.frame \notin FramesOf(list), NEW longer, longer = Append(list, x)
  PROVE  /\ Lined(longer) /\ FramesOf(longer) = FramesOf(list) \cup {x.frame}
         /\ \A own : OwnedBy(own, list) /\ own[x.frame] = x.graph => OwnedBy(own, longer)
<1>1. Len(list) \in Nat /\ Len(longer) = Len(list) + 1 /\ longer[Len(list) + 1] = x
      /\ \A i \in 1..Len(list) : longer[i] = list[i]
  OBVIOUS
<1>2. 1..Len(longer) = 1..Len(list) \cup {Len(list) + 1}
  BY <1>1
<1>3. FramesOf(longer) = FramesOf(list) \cup {x.frame}
  BY <1>1, <1>2 DEF FramesOf
<1>4. Lined(longer)
  <2> SUFFICES ASSUME NEW i \in 1..Len(longer), NEW j \in 1..Len(longer),
                      longer[i].frame = longer[j].frame
               PROVE  i = j
    BY DEF Lined
  <2>1. CASE i \in 1..Len(list) /\ j \in 1..Len(list)
    BY <2>1, <1>1 DEF Lined
  <2>2. CASE i \in 1..Len(list) /\ j = Len(list) + 1
    BY <2>2, <1>1 DEF FramesOf
  <2>3. CASE j \in 1..Len(list) /\ i = Len(list) + 1
    BY <2>3, <1>1 DEF FramesOf
  <2>4. QED
    BY <2>1, <2>2, <2>3, <1>2
<1>5. \A own : OwnedBy(own, list) /\ own[x.frame] = x.graph => OwnedBy(own, longer)
  BY <1>1, <1>2 DEF OwnedBy
<1>6. QED
  BY <1>3, <1>4, <1>5

LEMMA ExtendFacts ==
  ASSUME NEW list \in Seq(S!WorkItems), Lined(list), NEW more \in Seq(S!WorkItems), Lined(more),
         FramesOf(list) \cap FramesOf(more) = {},
         NEW longer, longer = list \o S!Waiting(more)
  PROVE  /\ Lined(longer) /\ FramesOf(longer) = FramesOf(list) \cup FramesOf(more)
         /\ \A own : OwnedBy(own, list) /\ OwnedBy(own, more) => OwnedBy(own, longer)
<1> DEFINE m == Len(list)
           n == Len(more)
<1>1. m \in Nat /\ n \in Nat
  OBVIOUS
<1>2. S!Waiting(more) = [i \in 1..n |-> more[n - i + 1]]
  BY DEF S!Waiting, S!Reverse
<1>3. S!Waiting(more) \in Seq(S!WorkItems) /\ Len(S!Waiting(more)) = n
  BY <1>1, <1>2
<1>4. Len(longer) = m + n
  <2> DEFINE back == S!Waiting(more)
  <2>1. back \in Seq(S!WorkItems) /\ Len(back) = Len(more) /\ longer = list \o back
    BY <1>3
  <2> HIDE DEF back
  <2>2. Len(list \o back) = Len(list) + Len(back)
    BY <2>1, ConcatProperties
  <2>3. QED
    BY <2>1, <2>2
<1>5. \A i \in 1..m : longer[i] = list[i]
  BY <1>1, <1>3
<1>6. \A i \in 1..n : longer[m + i] = more[n - i + 1]
  <2> TAKE i \in 1..n
  <2>1. longer[m + i] = S!Waiting(more)[i]
    BY <1>1, <1>3
  <2>2. QED
    BY <1>2, <2>1
<1> HIDE DEF m, n
<1>7. \A i \in 1..(m + n) : i \in 1..m \/ (i - m \in 1..n /\ m + (i - m) = i)
  BY <1>1
<1>8. \A i \in 1..n : n - i + 1 \in 1..n /\ n - (n - i + 1) + 1 = i
  BY <1>1
<1>9. FramesOf(longer) = FramesOf(list) \cup FramesOf(more)
  <2>1. ASSUME NEW f \in FramesOf(longer) PROVE f \in FramesOf(list) \cup FramesOf(more)
    <3>1. PICK i \in 1..(m + n) : longer[i].frame = f
      BY <1>4, <2>1 DEF FramesOf
    <3>2. CASE i \in 1..m
      BY <3>1, <3>2, <1>5 DEF FramesOf, m
    <3>3. CASE i - m \in 1..n /\ m + (i - m) = i
      <4>1. longer[i] = more[n - (i - m) + 1] /\ n - (i - m) + 1 \in 1..n
        BY <3>3, <1>6, <1>8
      <4>2. QED
        BY <3>1, <4>1 DEF FramesOf, n
    <3>4. QED
      BY <3>2, <3>3, <1>7
  <2>2. ASSUME NEW f \in FramesOf(list) PROVE f \in FramesOf(longer)
    <3>1. PICK i \in 1..m : list[i].frame = f
      BY <2>2 DEF FramesOf, m
    <3>2. i \in 1..Len(longer) /\ longer[i].frame = f
      BY <3>1, <1>1, <1>4, <1>5
    <3>3. QED
      BY <3>2 DEF FramesOf
  <2>3. ASSUME NEW f \in FramesOf(more) PROVE f \in FramesOf(longer)
    <3>1. PICK i \in 1..n : more[i].frame = f
      BY <2>3 DEF FramesOf, n
    <3>2. longer[m + (n - i + 1)] = more[i]
      BY <3>1, <1>6, <1>8
    <3>3. m + (n - i + 1) \in 1..Len(longer)
      BY <3>1, <1>1, <1>4
    <3>4. QED
      BY <3>1, <3>2, <3>3 DEF FramesOf
  <2>4. QED
    BY <2>1, <2>2, <2>3
<1>10. Lined(longer)
  <2> SUFFICES ASSUME NEW i \in 1..(m + n), NEW j \in 1..(m + n),
                      longer[i].frame = longer[j].frame
               PROVE  i = j
    BY <1>4 DEF Lined
  <2>1. CASE i \in 1..m /\ j \in 1..m
    BY <2>1, <1>5 DEF Lined, m
  <2>2. ASSUME NEW a \in 1..m, NEW b \in 1..(m + n), b - m \in 1..n, m + (b - m) = b
        PROVE  longer[a].frame # longer[b].frame
    <3>1. longer[a].frame \in FramesOf(list)
      BY <1>5 DEF FramesOf, m
    <3>2. longer[b] = more[n - (b - m) + 1] /\ n - (b - m) + 1 \in 1..n
      BY <2>2, <1>6, <1>8
    <3>3. longer[b].frame \in FramesOf(more)
      BY <3>2 DEF FramesOf, n
    <3>4. QED
      BY <3>1, <3>3
  <2>3. CASE i - m \in 1..n /\ m + (i - m) = i /\ j - m \in 1..n /\ m + (j - m) = j
    <3>1. longer[i] = more[n - (i - m) + 1] /\ n - (i - m) + 1 \in 1..n
      BY <2>3, <1>6, <1>8
    <3>2. longer[j] = more[n - (j - m) + 1] /\ n - (j - m) + 1 \in 1..n
      BY <2>3, <1>6, <1>8
    <3>3. n - (i - m) + 1 = n - (j - m) + 1
      BY <3>1, <3>2 DEF Lined, n
    <3>4. QED
      BY <3>3, <1>1
  <2>4. QED
    BY <2>1, <2>2, <2>3, <1>7
<1>11. ASSUME NEW own, OwnedBy(own, list), OwnedBy(own, more) PROVE OwnedBy(own, longer)
  <2> SUFFICES ASSUME NEW i \in 1..(m + n) PROVE own[longer[i].frame] = longer[i].graph
    BY <1>4 DEF OwnedBy
  <2>1. CASE i \in 1..m
    BY <2>1, <1>5, <1>11 DEF OwnedBy, m
  <2>2. CASE i - m \in 1..n /\ m + (i - m) = i
    <3>1. longer[i] = more[n - (i - m) + 1] /\ n - (i - m) + 1 \in 1..n
      BY <2>2, <1>6, <1>8
    <3>2. QED
      BY <3>1, <1>11 DEF OwnedBy, n
  <2>3. QED
    BY <2>1, <2>2, <1>7
<1>12. QED
  BY <1>9, <1>10, <1>11

-----------------------------------------------------------------------------
LEMMA InsideFacts ==
  ASSUME NEW m \in Inputs
  PROVE  /\ Top \in Inside(m)
         /\ \A g \in Inside(m) : \A k \in 1..Len(m.nodes[g]) :
              m.nodes[g][k].holds \in Graphs => m.nodes[g][k].holds \in Inside(m)
         /\ \A s \in SUBSET Graphs : Top \in s /\ ClosedUnderNesting(m, s) => Inside(m) \subseteq s
<1>1. Top \in Inside(m)
  BY ModelAssumption DEF Inside
<1>2. ASSUME NEW g \in Inside(m), NEW k \in 1..Len(m.nodes[g]), m.nodes[g][k].holds \in Graphs
      PROVE  m.nodes[g][k].holds \in Inside(m)
  <2>1. g \in Graphs
    BY DEF Inside
  <2>2. k \in DOMAIN m.nodes[g]
    BY <2>1, ModelFacts
  <2>3. QED
    BY <1>2, <2>1, <2>2 DEF Inside, ClosedUnderNesting
<1>3. QED
  BY <1>1, <1>2 DEF Inside

LEMMA PlacedFacts ==
  ASSUME NEW m \in Inputs
  PROVE  /\ <<Top, 0>> \in Placed(m) /\ Placed(m) \subseteq Places
         /\ \A g \in Graphs, d \in Nat : \A k \in 1..Len(m.nodes[g]) :
              <<g, d>> \in Placed(m) /\ m.nodes[g][k].holds \in Graphs =>
                <<m.nodes[g][k].holds, d + 1>> \in Placed(m)
         /\ \A s \in SUBSET Places : <<Top, 0>> \in s /\ Leads(m, s) => Placed(m) \subseteq s
<1>1. <<Top, 0>> \in Placed(m)
  BY ModelAssumption DEF Placed, Places
<1>2. ASSUME NEW g \in Graphs, NEW d \in Nat, NEW k \in 1..Len(m.nodes[g]),
             <<g, d>> \in Placed(m), m.nodes[g][k].holds \in Graphs
      PROVE  <<m.nodes[g][k].holds, d + 1>> \in Placed(m)
  <2> DEFINE place == <<m.nodes[g][k].holds, d + 1>>
  <2>1. Len(m.nodes[g]) \in Nat
    BY ModelFacts
  <2>2. place \in Places /\ k < Len(m.nodes[g]) + 1
    BY <1>2, <2>1 DEF Places
  <2>3. ASSUME NEW s \in SUBSET Places, <<Top, 0>> \in s, Leads(m, s) PROVE place \in s
    <3>1. <<g, d>> \in s
      BY <1>2, <2>3 DEF Placed
    <3>2. Below(m, g, d, s, Len(m.nodes[g]) + 1)
      BY <2>3, <3>1 DEF Leads
    <3>3. QED
      BY <1>2, <2>2, <3>2 DEF Below
  <2>4. QED
    BY <2>2, <2>3 DEF Placed
<1>3. QED
  BY <1>1, <1>2 DEF Placed

(* A graph is nested in one place only.                                    *)
LEMMA OnePlace ==
  ASSUME NEW m \in Inputs, NEW g \in Graphs, NEW h \in Graphs,
         NEW i \in 1..Len(m.nodes[g]), NEW j \in 1..Len(m.nodes[h]),
         m.nodes[g][i].holds \in Graphs, m.nodes[g][i].holds = m.nodes[h][j].holds
  PROVE  g = h /\ i = j
<1>1. i \in DOMAIN m.nodes[g] /\ j \in DOMAIN m.nodes[h]
  BY ModelFacts
<1>2. QED
  BY <1>1, InputAssumption DEF Owned

(* A step that pushes no frame leaves the arena's witness alone.           *)
LEMMA ArenaKept ==
  ASSUME NEW own, Arena(own), frames' = frames, model' = model
  PROVE  Arena(own)'
BY DEF Arena, NestedIn

LEMMA CompleteKept ==
  ASSUME NEW own, NEW i, Complete(own, i), frames' = frames, model' = model
  PROVE  Complete(own, i)'
BY DEF Complete, Framed

LEMMA NestedFrames ==
  ASSUME TypeInv
  PROVE  /\ work \in Seq(S!WorkItems) /\ scan.nested \in Seq(S!WorkItems)
         /\ Pending \subseteq 0..Len(frames)
<1>1. /\ Items(work, Len(frames)) /\ Items(scan.nested, Len(frames)) /\ Len(frames) \in Nat
  BY ScanFacts DEF TypeInv, StructureTyped
<1>2. ASSUME NEW list, Items(list, Len(frames))
      PROVE  list \in Seq(S!WorkItems) /\ FramesOf(list) \subseteq 0..Len(frames)
  <2>1. list \in Seq(S!WorkItems)
    BY <1>2 DEF Items
  <2>2. ASSUME NEW i \in 1..Len(list)
        PROVE  list[i].frame \in 0..Len(frames)
    <3>1. list[i] \in S!WorkItems
      BY <2>1
    <3>2. QED
      BY <1>1, <1>2, <3>1 DEF Items, S!WorkItems
  <2>3. QED
    BY <2>1, <2>2 DEF FramesOf
<1>3. QED
  BY <1>1, <1>2 DEF Pending

(* Popping an item of the work list.                                       *)
LEMMA PopWalk ==
  ASSUME TypeInv, NEW own, Walk(own), S!Popping, work' = SubSeq(work, 1, Len(work) - 1)
  PROVE  /\ structure = S!NoVerdict /\ Explored(own) /\ Arena(own)
         /\ scan.next = 0 /\ scan.nested = <<>>
         /\ Pending = FramesOf(work)
         /\ S!Item.frame \in FramesOf(work) /\ S!Item.frame \in 0..Len(frames)
         /\ FramesOf(work) = FramesOf(work') \cup {S!Item.frame}
         /\ S!Item.frame \notin FramesOf(work')
         /\ OwnedBy(own, work') /\ Lined(work')
         /\ own[S!Item.frame] = S!Item.graph
<1>1. structure = S!NoVerdict /\ scan.next = 0 /\ work # <<>>
  BY DEF S!Popping
<1>2. Arena(own) /\ Explored(own) /\ Waits(own) /\ scan.nested = <<>>
  BY <1>1 DEF Walk, Waits
<1>3. OwnedBy(own, work) /\ Lined(work)
  BY <1>2 DEF Waits
<1>4. FramesOf(scan.nested) = {}
  <2>1. Len(scan.nested) = 0
    BY <1>2
  <2>2. QED
    BY <2>1 DEF FramesOf
<1>5. Pending = FramesOf(work)
  BY <1>4 DEF Pending
<1>6. /\ Lined(work') /\ S!Item.frame \notin FramesOf(work')
      /\ FramesOf(work) = FramesOf(work') \cup {S!Item.frame}
      /\ OwnedBy(own, work') /\ own[S!Item.frame] = S!Item.graph
  <2>1. \A rest : rest = SubSeq(work, 1, Len(work) - 1) =>
          /\ Lined(rest) /\ work[Len(work)].frame \notin FramesOf(rest)
          /\ FramesOf(work) = FramesOf(rest) \cup {work[Len(work)].frame}
          /\ OwnedBy(own, rest) /\ own[work[Len(work)].frame] = work[Len(work)].graph
    BY <1>1, <1>3, NestedFrames, PopFacts
  <2>2. QED
    BY <2>1 DEF S!Item
<1>7. S!Item.frame \in FramesOf(work) /\ S!Item.frame \in 0..Len(frames)
  BY <1>5, <1>6, NestedFrames
<1>8. QED
  BY <1>1, <1>2, <1>5, <1>6, <1>7

(* A problem that is reported is neither verdict of a sound graph.         *)
LEMMA ProblemReported ==
  ASSUME NEW problem, NEW path, problem # Sound
  PROVE  /\ S!Wrapped(problem, path) \notin {S!NoVerdict, Accepted}
         /\ S!Wrapped(problem, path).problem = problem
<1>1. S!Wrapped(problem, path).problem = problem
  BY Zenon DEF S!Wrapped
<1>2. S!NoVerdict.problem = Sound /\ Accepted.problem = Sound
  BY SameWords, Zenon DEF S!NoVerdict, Accepted
<1>3. QED
  BY <1>1, <1>2

LEMMA FaultNotDepth ==
  ASSUME NEW m, NEW g PROVE LocalFault(m, g) # TooDeep
<1>1. \/ LocalFault(m, g).fault = "MissingNode"
      \/ LocalFault(m, g).fault = "DuplicateEdge"
      \/ LocalFault(m, g).fault = "none"
  BY DEF LocalFault, Sound
<1>2. TooDeep.fault = "nesting depth exceeded"
  BY DEF TooDeep
<1>3. QED
  BY <1>1, <1>2

LEMMA DepthNotSound == TooDeep # Sound
<1>1. TooDeep.fault = "nesting depth exceeded" /\ Sound.fault = "none"
  BY DEF TooDeep, Sound
<1>2. QED
  BY <1>1

-----------------------------------------------------------------------------
LEMMA WalkRejectLocal ==
  ASSUME TypeInv, NEW own, Walk(own), S!RejectLocal
  PROVE  Walk(own)'
<1> DEFINE problem == S!LocalFault(model, S!Item.graph)
<1>1. /\ S!Popping /\ problem # S!Sound /\ work' = SubSeq(work, 1, Len(work) - 1)
      /\ structure' = S!Wrapped(problem, S!PathOf(frames)[S!Item.frame])
      /\ model' = model /\ frames' = frames /\ scan' = scan
  BY Zenon DEF S!RejectLocal
<1>2. problem = LocalFault(model, S!Item.graph) /\ problem # Sound
  BY <1>1, SameFault, SameWords, Zenon
<1> HIDE DEF problem
<1>3. structure' \notin {S!NoVerdict, Accepted} /\ structure'.problem = problem
  BY <1>1, <1>2, ProblemReported
<1>4. Arena(own)'
  BY <1>1, PopWalk, ArenaKept
<1>5. Waits(own)'
  <2>1. scan'.nested = <<>> /\ scan'.next = 0
    BY <1>1, PopWalk
  <2>2. FramesOf(scan'.nested) = {} /\ OwnedBy(own, scan'.nested) /\ Lined(scan'.nested)
    BY <2>1 DEF FramesOf, OwnedBy, Lined
  <2>3. QED
    BY <1>1, <2>1, <2>2, PopWalk DEF Waits
<1>6. Ended(own)'
  <2>1. problem # TooDeep
    BY <1>2, FaultNotDepth
  <2>2. S!Item.frame \in 0..Len(frames) /\ own[S!Item.frame] = S!Item.graph
    BY <1>1, PopWalk
  <2>3. QED
    BY <1>1, <1>2, <1>3, <2>1, <2>2 DEF Ended
<1>7. QED
  BY <1>3, <1>4, <1>5, <1>6 DEF Walk

LEMMA WalkVisit ==
  ASSUME TypeInv, NEW own, Walk(own), S!Visit
  PROVE  Walk(own)'
<1> DEFINE item == S!Item
<1>1. /\ S!Popping /\ S!LocalFault(model, item.graph) = S!Sound
      /\ work' = SubSeq(work, 1, Len(work) - 1)
      /\ scan' = [graph |-> item.graph, frame |-> item.frame, next |-> 1, nested |-> <<>>]
      /\ model' = model /\ frames' = frames /\ structure' = structure
  BY Zenon DEF S!Visit
<1>2. LocalFault(model, item.graph) = Sound
  BY <1>1, SameFault, SameWords, Zenon
<1>3. /\ structure = S!NoVerdict /\ Explored(own) /\ Arena(own)
      /\ scan.next = 0 /\ Pending = FramesOf(work)
      /\ item.frame \in FramesOf(work) /\ item.frame \in 0..Len(frames)
      /\ FramesOf(work) = FramesOf(work') \cup {item.frame}
      /\ item.frame \notin FramesOf(work')
      /\ OwnedBy(own, work') /\ Lined(work') /\ own[item.frame] = item.graph
  BY <1>1, PopWalk
<1> HIDE DEF item
<1>4. /\ scan'.graph = item.graph /\ scan'.frame = item.frame /\ scan'.next = 1
      /\ scan'.nested = <<>>
  BY <1>1
<1>5. FramesOf(scan'.nested) = {} /\ OwnedBy(own, scan'.nested) /\ Lined(scan'.nested)
  BY <1>4 DEF FramesOf, OwnedBy, Lined
<1>6. Pending' = FramesOf(work')
  BY <1>5 DEF Pending
<1>7. Arena(own)'
  BY <1>1, <1>3, ArenaKept
<1>8. Waits(own)'
  BY <1>3, <1>4, <1>5, <1>6 DEF Waits
<1>9. Explored(own)'
  <2>1. ASSUME NEW i \in 1..Len(frames')
        PROVE  frames'[i].parent \notin Pending' /\ frames'[i].parent # scan'.frame
    BY <1>1, <1>3, <1>4, <1>6 DEF Explored
  <2>2. ASSUME NEW i \in 0..Len(frames'), i \notin Pending', i # scan'.frame
        PROVE  Complete(own, i)'
    <3>1. Complete(own, i)
      BY <1>1, <1>3, <1>4, <1>6, <2>2 DEF Explored
    <3>2. QED
      BY <1>1, <3>1, CompleteKept
  <2>3. LocalFault(model, scan.graph)' = Sound
    BY <1>1, <1>2, <1>4
  <2>4. Framed(own, scan.frame, scan.next)'
    <3>1. scan'.graph \in Graphs /\ own[scan'.frame] = scan'.graph /\ model \in Inputs
      BY <1>1, <1>3, <1>4, NestedFrames DEF TypeInv, Arena
    <3>2. \A k \in 1..Len(model.nodes[scan'.graph]) : ~(k < 1)
      OBVIOUS
    <3>3. QED
      BY <1>1, <1>4, <3>1, <3>2 DEF Framed
  <2>5. \A i \in 0..Len(frames') : S!DepthOf(frames', i) <= MaxDepth
    BY <1>1, <1>3 DEF Explored
  <2>6. QED
    BY <1>4, <2>1, <2>2, <2>3, <2>4, <2>5 DEF Explored
<1>10. Ended(own)'
  BY <1>1, <1>3, SameWords DEF Ended, S!NoVerdict, Accepted
<1>11. QED
  BY <1>7, <1>8, <1>9, <1>10 DEF Walk

(* What holds while the nodes of a graph are looked at.                    *)
LEMMA ScanWalk ==
  ASSUME TypeInv, NEW own, Walk(own), structure = S!NoVerdict, scan.next > 0
  PROVE  /\ Arena(own) /\ Waits(own) /\ Explored(own)
         /\ scan.frame \in 0..Len(frames) /\ scan.frame \notin Pending
         /\ scan.graph \in Graphs /\ own[scan.frame] = scan.graph
         /\ LocalFault(model, scan.graph) = Sound
         /\ Framed(own, scan.frame, scan.next)
<1>1. Arena(own) /\ Waits(own) /\ Explored(own)
  BY DEF Walk
<1>2. QED
  BY <1>1, ScanFacts DEF Waits, Explored

LEMMA Unended ==
  ASSUME NEW own, structure' = S!NoVerdict PROVE Ended(own)'
<1>1. S!NoVerdict # Accepted
  <2>1. S!NoVerdict.variant = "none" /\ Accepted.variant = "Ok"
    BY DEF S!NoVerdict, Accepted
  <2>2. QED
    BY <2>1
<1>2. QED
  BY <1>1 DEF Ended

LEMMA WalkSkipLeaf ==
  ASSUME TypeInv, NEW own, Walk(own), S!SkipLeaf
  PROVE  Walk(own)'
<1> DEFINE n == scan.next
           g == scan.graph
           f == scan.frame
<1>1. /\ S!Scanning /\ S!Node.holds \in Leaves
      /\ scan' = [scan EXCEPT !.next = scan.next + 1]
      /\ model' = model /\ frames' = frames /\ work' = work /\ structure' = structure
      /\ structure = S!NoVerdict /\ n > 0 /\ n \in Nat
  BY ScanFacts DEF S!SkipLeaf, S!Scanning
<1>2. scan' = [graph |-> g, frame |-> f, next |-> n + 1, nested |-> scan.nested]
  BY <1>1, ScanFacts
<1>3. scan'.graph = g /\ scan'.frame = f /\ scan'.next = n + 1 /\ scan'.nested = scan.nested
  BY <1>2
<1>4. /\ Arena(own) /\ Waits(own) /\ Explored(own) /\ own[f] = g /\ g \in Graphs
      /\ f \notin Pending /\ LocalFault(model, g) = Sound /\ Framed(own, f, n)
  BY <1>1, ScanWalk
<1>5. model.nodes[g][n].holds \notin Graphs
  <2>1. S!Node = model.nodes[g][n]
    BY <1>1, ScanFacts
  <2>2. QED
    BY <1>1, <2>1, ModelAssumption
<1> HIDE DEF n, g, f
<1>6. Pending' = Pending
  BY <1>1, <1>3 DEF Pending
<1>7. Arena(own)'
  BY <1>1, <1>4, ArenaKept
<1>8. Waits(own)'
  BY <1>1, <1>3, <1>4, <1>6 DEF Waits, n, g, f
<1>9. Explored(own)'
  <2>1. ASSUME NEW i \in 1..Len(frames')
        PROVE  /\ frames'[i].parent \notin Pending'
               /\ frames'[i].parent = f => \E k \in 1..Len(model.nodes[g]) :
                                             k < n + 1 /\ model.nodes[g][k].holds = own[i]
    BY <1>1, <1>4, <1>6 DEF Explored, n, g, f
  <2>2. ASSUME NEW i \in 0..Len(frames'), i \notin Pending', i # f
        PROVE  Complete(own, i)'
    <3>1. Complete(own, i)
      BY <1>1, <1>4, <1>6, <2>2 DEF Explored, f
    <3>2. QED
      BY <1>1, <3>1, CompleteKept
  <2>3. Framed(own, scan.frame, scan.next)'
    <3>1. ASSUME NEW k \in 1..Len(model.nodes[g]), k < n + 1, model.nodes[g][k].holds \in Graphs
          PROVE  \E j \in 1..Len(frames) : frames[j].parent = f /\ own[j] = model.nodes[g][k].holds
      <4>1. k # n /\ n \in Nat /\ k \in Nat
        BY <1>1, <1>5, <3>1
      <4>2. k < n
        BY <3>1, <4>1
      <4>3. QED
        BY <1>4, <3>1, <4>2 DEF Framed
    <3>2. model' = model /\ frames' = frames /\ own[f] = g /\ scan'.frame = f /\ scan'.next = n + 1
      BY <1>1, <1>3, <1>4
    <3>3. QED
      BY <3>1, <3>2 DEF Framed
  <2>4. \A i \in 0..Len(frames') : S!DepthOf(frames', i) <= MaxDepth
    BY <1>1, <1>4 DEF Explored
  <2>5. /\ n + 1 > 0 /\ LocalFault(model', g) = Sound /\ model' = model
        /\ scan'.graph = g /\ scan'.frame = f /\ scan'.next = n + 1
    BY <1>1, <1>3, <1>4
  <2>6. QED
    BY <2>1, <2>2, <2>3, <2>4, <2>5 DEF Explored
<1>10. QED
  BY <1>1, <1>7, <1>8, <1>9, Unended DEF Walk

LEMMA WalkExtendWork ==
  ASSUME TypeInv, NEW own, Walk(own), S!ExtendWork
  PROVE  Walk(own)'
<1>1. /\ structure = S!NoVerdict /\ scan.next > Len(S!Nodes)
      /\ work' = work \o S!Waiting(scan.nested) /\ scan' = S!Idle
      /\ model' = model /\ frames' = frames /\ structure' = structure
  BY DEF S!ExtendWork
<1>2. scan.next > 0 /\ S!Nodes = model.nodes[scan.graph] /\ Len(S!Nodes) \in Nat
      /\ scan.next \in Nat
  BY <1>1, ScanFacts
<1>3. scan'.next = 0 /\ scan'.nested = <<>>
  BY <1>1 DEF S!Idle
<1>4. /\ Arena(own) /\ Waits(own) /\ Explored(own)
      /\ own[scan.frame] = scan.graph /\ scan.graph \in Graphs
      /\ LocalFault(model, scan.graph) = Sound /\ Framed(own, scan.frame, scan.next)
  BY <1>1, <1>2, ScanWalk
<1>5. /\ OwnedBy(own, work) /\ Lined(work)
      /\ OwnedBy(own, scan.nested) /\ Lined(scan.nested)
      /\ FramesOf(work) \cap FramesOf(scan.nested) = {}
  BY <1>4 DEF Waits
<1>6. /\ Lined(work') /\ FramesOf(work') = FramesOf(work) \cup FramesOf(scan.nested)
      /\ OwnedBy(own, work')
  <2> DEFINE more == scan.nested
  <2>1. work \in Seq(S!WorkItems) /\ more \in Seq(S!WorkItems)
    BY NestedFrames
  <2>2. Lined(more) /\ OwnedBy(own, more) /\ FramesOf(work) \cap FramesOf(more) = {}
        /\ work' = work \o S!Waiting(more)
    BY <1>1, <1>5
  <2> HIDE DEF more
  <2>3. \A longer : longer = work \o S!Waiting(more) =>
          /\ Lined(longer) /\ FramesOf(longer) = FramesOf(work) \cup FramesOf(more)
          /\ OwnedBy(own, longer)
    BY <1>5, <2>1, <2>2, ExtendFacts
  <2>4. QED
    BY <2>2, <2>3 DEF more
<1>7. FramesOf(scan'.nested) = {} /\ OwnedBy(own, scan'.nested) /\ Lined(scan'.nested)
  BY <1>3 DEF FramesOf, OwnedBy, Lined
<1>8. Pending' = Pending
  BY <1>6, <1>7 DEF Pending
<1>9. Arena(own)'
  BY <1>1, <1>4, ArenaKept
<1>10. Waits(own)'
  BY <1>3, <1>6, <1>7 DEF Waits
<1>11. Explored(own)'
  <2>1. ASSUME NEW i \in 1..Len(frames')
        PROVE  frames'[i].parent \notin Pending'
    BY <1>1, <1>4, <1>8 DEF Explored
  <2>2. ASSUME NEW i \in 0..Len(frames'), i \notin Pending'
        PROVE  Complete(own, i)'
    <3>1. CASE i = scan.frame
      <4>1. Framed(own, i, Len(model.nodes[own[i]]) + 1)
        <5> DEFINE nodes == model.nodes[own[i]]
        <5>1. /\ scan.next \in Nat /\ Len(nodes) \in Nat /\ scan.next > Len(nodes)
              /\ Framed(own, i, scan.next)
          BY <1>1, <1>2, <1>4, <3>1
        <5>2. ASSUME NEW k \in 1..Len(nodes), nodes[k].holds \in Graphs
              PROVE  \E j \in 1..Len(frames) : frames[j].parent = i /\ own[j] = nodes[k].holds
          <6>1. k < scan.next
            BY <5>1
          <6>2. QED
            BY <5>1, <5>2, <6>1, Zenon DEF Framed
        <5>3. QED
          BY <5>2, Zenon DEF Framed
      <4>2. Complete(own, i)
        BY <1>4, <3>1, <4>1 DEF Complete
      <4>3. QED
        BY <1>1, <4>2, CompleteKept
    <3>2. CASE i # scan.frame
      <4>1. Complete(own, i)
        BY <1>1, <1>4, <1>8, <2>2, <3>2 DEF Explored
      <4>2. QED
        BY <1>1, <4>1, CompleteKept
    <3>3. QED
      BY <3>1, <3>2
  <2>3. \A i \in 0..Len(frames') : S!DepthOf(frames', i) <= MaxDepth
    BY <1>1, <1>4 DEF Explored
  <2>4. QED
    BY <1>3, <2>1, <2>2, <2>3 DEF Explored
<1>12. QED
  BY <1>1, <1>9, <1>10, <1>11, Unended DEF Walk

LEMMA WalkAccept ==
  ASSUME TypeInv, NEW own, Walk(own), S!Accept
  PROVE  Walk(own)'
<1>1. /\ structure = S!NoVerdict /\ scan.next = 0 /\ work = <<>>
      /\ structure' = Accepted
      /\ model' = model /\ frames' = frames /\ work' = work /\ scan' = scan
  BY SameWords DEF S!Accept
<1>2. Arena(own) /\ Waits(own) /\ Explored(own) /\ scan.nested = <<>>
  BY <1>1 DEF Walk, Waits
<1>3. Pending = {}
  <2>1. Len(work) = 0 /\ Len(scan.nested) = 0
    BY <1>1, <1>2
  <2>2. QED
    BY <2>1 DEF Pending, FramesOf
<1>4. ASSUME NEW i \in 0..Len(frames)
      PROVE  Complete(own, i)' /\ S!DepthOf(frames', i) <= MaxDepth
  <2>1. Complete(own, i) /\ S!DepthOf(frames, i) <= MaxDepth
    BY <1>1, <1>2, <1>3 DEF Explored
  <2>2. QED
    BY <1>1, <2>1, CompleteKept
<1>5. Arena(own)'
  BY <1>1, <1>2, ArenaKept
<1>6. Waits(own)'
  BY <1>1, <1>2 DEF Waits, Pending
<1>7. Ended(own)'
  BY <1>1, <1>4 DEF Ended
<1>8. structure' # S!NoVerdict
  <2>1. S!NoVerdict.variant = "none" /\ Accepted.variant = "Ok"
    BY DEF S!NoVerdict, Accepted
  <2>2. QED
    BY <1>1, <2>1
<1>9. QED
  BY <1>5, <1>6, <1>7, <1>8 DEF Walk

-----------------------------------------------------------------------------
(* A nested graph that is found has no frame yet: the parent of a frame    *)
(* that stands for it would be the graph that is looked at, and nodes      *)
(* before this one gave it its frames.                                     *)
LEMMA FoundIsNew ==
  ASSUME TypeInv, NEW own, Walk(own), S!Scanning, S!Node.holds \in Graphs,
         NEW i \in 0..Len(frames)
  PROVE  own[i] # S!Node.holds
<1> DEFINE g == scan.graph
           n == scan.next
<1>1. /\ structure = S!NoVerdict /\ scan.next > 0 /\ n \in 1..Len(model.nodes[g])
      /\ model.nodes[g][n].holds = S!Node.holds /\ g \in Graphs /\ model \in Inputs
      /\ Len(frames) \in Nat
  BY ScanFacts DEF S!Scanning, TypeInv
<1>2. Arena(own) /\ Explored(own) /\ own[scan.frame] = g /\ scan.frame \in 0..Len(frames)
  BY <1>1, ScanWalk
<1>3. CASE i = 0
  BY <1>1, <1>2, <1>3, ModelFacts DEF Arena
<1>4. CASE i \in 1..Len(frames)
  <2>1. frames[i].parent \in 0..Len(frames)
    <3>1. Forest(frames)
      BY DEF TypeInv, StructureTyped
    <3>2. QED
      BY <1>1, <1>4, <3>1, FrameFacts
  <2>2. NestedIn(own[frames[i].parent], own[i]) /\ own[frames[i].parent] \in Graphs
    BY <1>2, <1>4, <2>1 DEF Arena
  <2>3. PICK k \in 1..Len(model.nodes[own[frames[i].parent]]) :
          model.nodes[own[frames[i].parent]][k].holds = own[i]
    BY <2>2 DEF NestedIn
  <2>4. SUFFICES ASSUME own[i] = S!Node.holds PROVE FALSE
    OBVIOUS
  <2>5. own[frames[i].parent] = g
    BY <1>1, <2>2, <2>3, <2>4, OnePlace
  <2>6. frames[i].parent = scan.frame
    BY <1>2, <2>1, <2>5 DEF Arena
  <2>7. PICK l \in 1..Len(model.nodes[g]) : l < n /\ model.nodes[g][l].holds = own[i]
    BY <1>1, <1>2, <1>4, <2>6 DEF Explored
  <2>8. l = n
    BY <1>1, <2>4, <2>7, OnePlace
  <2>9. QED
    BY <1>1, <2>7, <2>8
<1>5. QED
  BY <1>1, <1>3, <1>4

(* The witness grows with the arena.                                       *)
Grown(own) ==
  [i \in 0..(Len(frames) + 1) |-> IF i <= Len(frames) THEN own[i] ELSE S!Node.holds]

LEMMA PushArena ==
  ASSUME TypeInv, NEW own, Walk(own), S!Scanning, S!Node.holds \in Graphs, S!PushesFrame,
         model' = model, NEW grown, grown = Grown(own)
  PROVE  /\ Arena(grown)'
         /\ \A i \in 0..Len(frames) : grown[i] = own[i]
         /\ grown[Len(frames) + 1] = S!Node.holds
         /\ \A i \in 0..Len(frames) : Complete(own, i) => Complete(grown, i)'
<1> DEFINE n == Len(frames)
           h == S!Node.holds
<1>1. /\ n \in Nat /\ Len(frames') = n + 1 /\ Forest(frames) /\ model \in Inputs
      /\ \A i \in 1..n : frames'[i] = frames[i] /\ frames[i].parent \in 0..n
      /\ frames'[n + 1].parent = scan.frame /\ scan.frame \in 0..n
      /\ \A i \in 0..n : S!DepthOf(frames', i) = S!DepthOf(frames, i)
      /\ S!DepthOf(frames', n + 1) = S!DepthOf(frames, scan.frame) + 1
      /\ S!DepthOf(frames, scan.frame) \in Nat
  <2>1. Forest(frames) /\ n \in Nat /\ model \in Inputs
    BY ScanFacts DEF TypeInv, StructureTyped
  <2>2. \A i \in 1..n : frames[i].parent \in 0..n
    BY <2>1, FrameFacts
  <2>3. S!ScanDepth = S!DepthOf(frames, scan.frame)
    BY DEF S!ScanDepth
  <2>4. QED
    BY <2>1, <2>2, <2>3, PushFacts, ScanFacts
<1>2. /\ Arena(own) /\ own[scan.frame] = scan.graph /\ scan.graph \in Graphs
      /\ h = model.nodes[scan.graph][scan.next] .holds
      /\ scan.next \in 1..Len(model.nodes[scan.graph])
  BY ScanFacts, ScanWalk DEF S!Scanning
<1>3. \A i \in 0..n : own[i] # h
  BY FoundIsNew
<1>4. /\ own \in [0..n -> Graphs] /\ own[0] = Top
      /\ \A i, j \in 0..n : own[i] = own[j] => i = j
      /\ \A i \in 0..n : own[i] \in Inside(model)
      /\ \A i \in 0..n : <<own[i], S!DepthOf(frames, i)>> \in Placed(model)
      /\ \A i \in 1..n : NestedIn(own[frames[i].parent], own[i])
  BY <1>2 DEF Arena
<1>5. h \in Inside(model) /\ <<h, S!DepthOf(frames', n + 1)>> \in Placed(model)
  <2>1. h \in Inside(model)
    BY <1>1, <1>2, <1>4, InsideFacts
  <2>2. <<scan.graph, S!DepthOf(frames, scan.frame)>> \in Placed(model)
    BY <1>1, <1>2, <1>4
  <2>3. QED
    BY <1>1, <1>2, <2>1, <2>2, PlacedFacts
<1>6. NestedIn(own[scan.frame], h)
  BY <1>2 DEF NestedIn
<1> HIDE DEF n, h
<1>7. grown = [i \in 0..(n + 1) |-> IF i <= n THEN own[i] ELSE h]
  BY Zenon DEF Grown, n, h
<1>8. 0..(n + 1) = 0..n \cup {n + 1} /\ 1..(n + 1) = 1..n \cup {n + 1} /\ 1..n \subseteq 0..n
      /\ n + 1 \notin 0..n /\ 0 \in 0..n
  BY <1>1
<1>9. /\ \A i \in 0..n : grown[i] = own[i]
      /\ grown[n + 1] = h
  BY <1>1, <1>7, <1>8
<1>10. grown \in [0..(n + 1) -> Graphs] /\ h \in Graphs
  BY <1>4, <1>5, <1>7, <1>8, <1>1 DEF Inside
<1>11. \A i, j \in 0..(n + 1) : grown[i] = grown[j] => i = j
  BY <1>3, <1>4, <1>8, <1>9
<1>12. \A i \in 0..(n + 1) :
         grown[i] \in Inside(model) /\ <<grown[i], S!DepthOf(frames', i)>> \in Placed(model)
  BY <1>1, <1>4, <1>5, <1>8, <1>9
<1>13. \A i \in 1..(n + 1) : NestedIn(grown[frames'[i].parent], grown[i])
  BY <1>1, <1>4, <1>6, <1>8, <1>9
<1>14. Arena(grown)'
  <2>1. grown[0] = Top /\ Len(frames') = n + 1 /\ Inside(model)' = Inside(model)
        /\ Placed(model)' = Placed(model)
    BY <1>1, <1>4, <1>8, <1>9
  <2>2. \A i \in 1..(n + 1) : NestedIn(grown[frames[i].parent], grown[i])'
    BY <1>13 DEF NestedIn
  <2>3. QED
    BY <1>10, <1>11, <1>12, <2>1, <2>2 DEF Arena
<1>15. ASSUME NEW i \in 0..n, Complete(own, i)
       PROVE  Complete(grown, i)'
  <2>1. LocalFault(model', grown[i]) = Sound /\ grown[i] = own[i]
    BY <1>9, <1>15 DEF Complete
  <2>2. Framed(own, i, Len(model.nodes[own[i]]) + 1)
    BY <1>15 DEF Complete
  <2>3. ASSUME NEW k \in 1..Len(model.nodes[own[i]]), k < Len(model.nodes[own[i]]) + 1,
               model.nodes[own[i]][k].holds \in Graphs
        PROVE  \E j \in 1..(n + 1) :
                 frames'[j].parent = i /\ grown[j] = model.nodes[own[i]][k].holds
    <3>1. PICK j \in 1..n : frames[j].parent = i /\ own[j] = model.nodes[own[i]][k].holds
      BY <2>2, <2>3 DEF Framed, n
    <3>2. QED
      BY <3>1, <1>1, <1>8, <1>9
  <2>4. QED
    BY <2>1, <2>3, <1>1 DEF Complete, Framed
<1>16. QED
  BY <1>9, <1>14, <1>15 DEF n, h

LEMMA WalkPushNested ==
  ASSUME TypeInv, NEW own, Walk(own), S!PushNested
  PROVE  \E grown \in [0..Len(frames') -> Graphs] : Walk(grown)'
<1> DEFINE n == Len(frames)
           g == scan.graph
           f == scan.frame
           at == scan.next
           x == [graph |-> S!Node.holds, frame |-> n + 1]
<1>1. /\ S!Scanning /\ S!Node.holds \in Graphs /\ S!ScanDepth < MaxDepth /\ S!PushesFrame
      /\ model' = model /\ work' = work /\ structure' = structure
      /\ scan' = [scan EXCEPT !.next = at + 1, !.nested = Append(scan.nested, x)]
      /\ structure = S!NoVerdict /\ at > 0
  BY DEF S!PushNested, S!Scanning, S!FrameIndex
<1>2. scan' = [graph |-> g, frame |-> f, next |-> at + 1, nested |-> Append(scan.nested, x)]
  BY <1>1, ScanFacts
<1>3. /\ scan'.graph = g /\ scan'.frame = f /\ scan'.next = at + 1
      /\ scan'.nested = Append(scan.nested, x)
  BY <1>2
<1>4. /\ Arena(own) /\ Waits(own) /\ Explored(own) /\ own[f] = g /\ g \in Graphs
      /\ f \in 0..n /\ f \notin Pending
      /\ LocalFault(model, g) = Sound /\ Framed(own, f, at)
      /\ n \in Nat /\ at \in 1..Len(model.nodes[g]) /\ S!Node.holds = model.nodes[g][at].holds
  BY <1>1, ScanWalk, ScanFacts
<1>5. PICK grown : grown = Grown(own)
  OBVIOUS
<1>6. /\ Arena(grown)' /\ \A i \in 0..n : grown[i] = own[i]
      /\ grown[n + 1] = S!Node.holds
      /\ \A i \in 0..n : Complete(own, i) => Complete(grown, i)'
  BY <1>1, <1>5, PushArena
<1>7. /\ Len(frames') = n + 1 /\ \A i \in 1..n : frames'[i] = frames[i]
      /\ frames'[n + 1].parent = f
      /\ \A i \in 0..n : S!DepthOf(frames', i) = S!DepthOf(frames, i)
      /\ S!DepthOf(frames', n + 1) = S!ScanDepth + 1
  BY <1>1, PushFacts
<1>8. /\ OwnedBy(own, work) /\ Lined(work) /\ OwnedBy(own, scan.nested) /\ Lined(scan.nested)
      /\ FramesOf(work) \cap FramesOf(scan.nested) = {}
  BY <1>4 DEF Waits
<1>9. Pending \subseteq 0..n /\ work \in Seq(S!WorkItems) /\ scan.nested \in Seq(S!WorkItems)
  BY NestedFrames
<1>10. x \in S!WorkItems /\ x.frame = n + 1 /\ x.graph = S!Node.holds
  BY <1>1, <1>4 DEF S!WorkItems
<1>11. ASSUME NEW list \in Seq(S!WorkItems), FramesOf(list) \subseteq 0..n, OwnedBy(own, list)
       PROVE  OwnedBy(grown, list)
  BY <1>6, <1>11 DEF OwnedBy, FramesOf
<1>12. /\ Lined(scan'.nested) /\ OwnedBy(grown, scan'.nested)
       /\ FramesOf(scan'.nested) = FramesOf(scan.nested) \cup {n + 1}
  <2> DEFINE found == scan.nested
  <2>1. found \in Seq(S!WorkItems) /\ FramesOf(found) \subseteq 0..n /\ n + 1 \notin 0..n
    BY <1>4, <1>9 DEF Pending
  <2>2. OwnedBy(grown, found) /\ Lined(found) /\ scan'.nested = Append(found, x)
    BY <1>3, <1>8, <1>11, <2>1
  <2> HIDE DEF found, x
  <2>3. \A longer : longer = Append(found, x) =>
          /\ Lined(longer) /\ FramesOf(longer) = FramesOf(found) \cup {x.frame}
          /\ OwnedBy(grown, longer)
    BY <1>6, <1>10, <2>1, <2>2, AppendFacts
  <2>4. QED
    BY <1>10, <2>2, <2>3 DEF found
<1> HIDE DEF n, g, f, at, x
<1>13. Pending' = Pending \cup {n + 1}
  BY <1>1, <1>12 DEF Pending
<1>14. n + 1 \notin 0..n /\ 0..(n + 1) = 0..n \cup {n + 1} /\ 1..(n + 1) = 1..n \cup {n + 1}
       /\ at + 1 > 0 /\ at < at + 1
  BY <1>4
<1>15. Waits(grown)'
  <2>1. OwnedBy(grown, work') /\ Lined(work')
    BY <1>1, <1>8, <1>9, <1>11 DEF Pending
  <2>2. FramesOf(work') \cap FramesOf(scan'.nested) = {}
    BY <1>1, <1>8, <1>9, <1>12, <1>14 DEF Pending
  <2>3. grown[scan'.frame] = scan'.graph /\ scan'.frame \notin Pending'
    BY <1>3, <1>4, <1>6, <1>13, <1>14
  <2>4. scan'.next # 0
    BY <1>3, <1>4
  <2>5. QED
    BY <1>12, <2>1, <2>2, <2>3, <2>4 DEF Waits
<1>16. Explored(grown)'
  <2>1. ASSUME NEW i \in 1..(n + 1)
        PROVE  /\ frames'[i].parent \notin Pending'
               /\ frames'[i].parent = f => \E k \in 1..Len(model.nodes[g]) :
                                             k < at + 1 /\ model.nodes[g][k].holds = grown[i]
    <3>1. CASE i = n + 1
      BY <3>1, <1>4, <1>6, <1>7, <1>13, <1>14
    <3>2. CASE i \in 1..n
      <4>1. /\ frames[i].parent \notin Pending /\ grown[i] = own[i]
            /\ frames[i].parent = f => \E k \in 1..Len(model.nodes[g]) :
                                         k < at /\ model.nodes[g][k].holds = own[i]
        BY <1>1, <1>4, <1>6, <3>2 DEF Explored, n, f, g, at
      <4>2. frames[i].parent \in 0..n
        BY <3>2, <1>4, FrameFacts DEF TypeInv, StructureTyped, n
      <4>3. \A k \in 1..Len(model.nodes[g]) : k < at => k < at + 1
        BY <1>4
      <4>4. QED
        BY <3>2, <4>1, <4>2, <4>3, <1>7, <1>13, <1>14
    <3>3. QED
      BY <3>1, <3>2, <1>14
  <2>2. ASSUME NEW i \in 0..(n + 1), i \notin Pending', i # f
        PROVE  Complete(grown, i)'
    <3>1. i \in 0..n /\ i \notin Pending
      BY <1>13, <1>14, <2>2
    <3>2. Complete(own, i)
      BY <1>4, <2>2, <3>1 DEF Explored, n, f
    <3>3. QED
      BY <3>1, <3>2, <1>6
  <2>3. Framed(grown, scan.frame, scan.next)'
    <3>1. ASSUME NEW k \in 1..Len(model.nodes[g]), k < at + 1, model.nodes[g][k].holds \in Graphs
          PROVE  \E j \in 1..(n + 1) :
                   frames'[j].parent = f /\ grown[j] = model.nodes[g][k].holds
      <4>1. CASE k = at
        BY <4>1, <1>4, <1>6, <1>7, <1>14
      <4>2. CASE k < at
        <5>1. PICK j \in 1..n : frames[j].parent = f /\ own[j] = model.nodes[g][k].holds
          BY <1>4, <3>1, <4>2 DEF Framed, n
        <5>2. QED
          BY <5>1, <1>6, <1>7, <1>14
      <4>3. QED
        BY <3>1, <4>1, <4>2, <1>4
    <3>2. /\ model' = model /\ grown[f] = g /\ scan'.frame = f /\ scan'.next = at + 1
          /\ Len(frames') = n + 1
      BY <1>1, <1>3, <1>4, <1>6, <1>7
    <3>3. QED
      BY <3>1, <3>2 DEF Framed
  <2>4. ASSUME NEW i \in 0..(n + 1) PROVE S!DepthOf(frames', i) <= MaxDepth
    <3>1. CASE i \in 0..n
      BY <3>1, <1>4, <1>7 DEF Explored, n
    <3>2. CASE i = n + 1
      BY <3>2, <1>1, <1>7, ScanFacts, ModelAssumption
    <3>3. QED
      BY <3>1, <3>2, <1>14
  <2>5. /\ LocalFault(model', g) = Sound /\ model' = model /\ Len(frames') = n + 1
        /\ scan'.graph = g /\ scan'.frame = f /\ scan'.next = at + 1
    BY <1>1, <1>3, <1>4, <1>7
  <2>6. QED
    BY <2>1, <2>2, <2>3, <2>4, <2>5, <1>14 DEF Explored
<1>17. Walk(grown)'
  BY <1>1, <1>6, <1>15, <1>16, Unended DEF Walk
<1>18. QED
  BY <1>6, <1>17 DEF Arena

LEMMA WalkRejectDepth ==
  ASSUME TypeInv, NEW own, Walk(own), S!RejectDepth
  PROVE  \E grown \in [0..Len(frames') -> Graphs] : Walk(grown)'
<1> DEFINE n == Len(frames)
<1>1. /\ S!Scanning /\ S!Node.holds \in Graphs /\ S!ScanDepth >= MaxDepth /\ S!PushesFrame
      /\ model' = model /\ work' = work /\ scan' = scan
      /\ structure' = S!Wrapped(TooDeep, S!PathOf(frames')[S!FrameIndex])
      /\ structure = S!NoVerdict /\ scan.next > 0
  BY SameWords, Zenon DEF S!RejectDepth, S!Scanning
<1>2. structure' \notin {S!NoVerdict, Accepted} /\ structure'.problem = TooDeep
  BY <1>1, ProblemReported, DepthNotSound
<1>3. PICK grown : grown = Grown(own)
  OBVIOUS
<1>4. Arena(grown)' /\ \A i \in 0..n : grown[i] = own[i]
  BY <1>1, <1>3, PushArena
<1>5. Waits(own) /\ own[scan.frame] = scan.graph /\ scan.frame \in 0..n /\ n \in Nat
  BY <1>1, ScanWalk, ScanFacts
<1>6. Pending \subseteq 0..n
  BY NestedFrames
<1>7. Waits(grown)'
  <2>1. OwnedBy(grown, work)
    BY <1>4, <1>5, <1>6 DEF Waits, OwnedBy, FramesOf, Pending
  <2>2. OwnedBy(grown, scan.nested)
    BY <1>4, <1>5, <1>6 DEF Waits, OwnedBy, FramesOf, Pending
  <2>3. Pending' = Pending
    BY <1>1 DEF Pending
  <2>4. QED
    BY <1>1, <1>4, <1>5, <2>1, <2>2, <2>3 DEF Waits
<1>8. Ended(grown)'
  <2>1. Len(frames') = n + 1 /\ S!DepthOf(frames', n + 1) = S!ScanDepth + 1 /\ S!ScanDepth \in Nat
    BY <1>1, PushFacts, ScanFacts
  <2>2. S!DepthOf(frames', n + 1) > MaxDepth /\ n + 1 \in 0..Len(frames')
    BY <1>1, <1>5, <2>1, ModelAssumption
  <2>3. QED
    BY <1>2, <2>2 DEF Ended
<1>9. Walk(grown)'
  BY <1>2, <1>4, <1>7, <1>8 DEF Walk
<1>10. QED
  BY <1>4, <1>9 DEF Arena

-----------------------------------------------------------------------------
LEMMA HeapInit == Init => HeapInv
<1> SUFFICES ASSUME Init PROVE HeapInv
  OBVIOUS
<1>1. TypeInv
  BY TypeInit
<1>2. /\ model \in Inputs /\ frames = <<>> /\ scan = S!Idle
      /\ work = <<[graph |-> Top, frame |-> 0]>> /\ structure = S!NoVerdict
  BY <1>1, Zenon DEF Init, S!StartOn, TypeInv
<1>3. /\ Len(frames) = 0 /\ scan.next = 0 /\ scan.nested = <<>>
      /\ Len(work) = 1 /\ work[1].graph = Top /\ work[1].frame = 0 /\ Len(scan.nested) = 0
  BY <1>2 DEF S!Idle
<1>4. PICK own : own = [i \in 0..0 |-> Top]
  OBVIOUS
<1>5. own[0] = Top /\ 0..Len(frames) = {0} /\ 1..Len(frames) = {}
  BY <1>3, <1>4
<1>6. Arena(own) /\ own \in [0..Len(frames) -> Graphs]
  <2>1. own \in [0..Len(frames) -> Graphs]
    BY <1>3, <1>4, ModelAssumption
  <2>2. S!DepthOf(frames, 0) = 0
    BY DEF S!DepthOf
  <2>3. QED
    BY <1>2, <1>5, <2>1, <2>2, InsideFacts, PlacedFacts DEF Arena
<1>7. Pending = {0} /\ FramesOf(scan.nested) = {}
  BY <1>3 DEF Pending, FramesOf
<1>8. Waits(own)
  BY <1>3, <1>5, <1>7 DEF Waits, OwnedBy, Lined
<1>9. Explored(own)
  <2>1. S!DepthOf(frames, 0) = 0
    BY DEF S!DepthOf
  <2>2. QED
    BY <1>3, <1>5, <1>7, <2>1, ModelAssumption DEF Explored
<1>10. Ended(own)
  <2>1. S!NoVerdict.variant = "none" /\ Accepted.variant = "Ok"
    BY DEF S!NoVerdict, Accepted
  <2>2. QED
    BY <1>2, <2>1 DEF Ended
<1>11. QED
  BY <1>1, <1>6, <1>8, <1>9, <1>10 DEF HeapInv, Walk

LEMMA HeapNext == HeapInv /\ [Next]_vars => HeapInv'
<1> SUFFICES ASSUME HeapInv, [Next]_vars PROVE HeapInv'
  OBVIOUS
<1>1. TypeInv'
  BY TypeNext DEF HeapInv
<1>2. TypeInv
  BY DEF HeapInv
<1>3. PICK own \in [0..Len(frames) -> Graphs] : Walk(own)
  BY DEF HeapInv
<1>4. SUFFICES \E grown : Walk(grown)'
  <2>1. \A grown : Walk(grown)' => grown \in [0..Len(frames') -> Graphs]
    BY DEF Walk, Arena
  <2>2. QED
    BY <1>1, <2>1 DEF HeapInv
<1>5. CASE ValidateStructure
  <2>1. S!Next
    BY <1>5 DEF ValidateStructure
  <2>2. QED
    BY <1>2, <1>3, <2>1, WalkRejectLocal, WalkVisit, WalkSkipLeaf, WalkPushNested,
       WalkRejectDepth, WalkExtendWork, WalkAccept DEF S!Next
<1>6. ASSUME model' = model, frames' = frames, work' = work, scan' = scan, structure' = structure
      PROVE  Walk(own)'
  <2>1. Arena(own)'
    BY <1>3, <1>6, ArenaKept DEF Walk
  <2>2. Waits(own)'
    BY <1>3, <1>6 DEF Walk, Waits, Pending
  <2>3. Ended(own)'
    BY <1>3, <1>6 DEF Walk, Ended, Complete, Framed
  <2>4. structure' = S!NoVerdict => Explored(own)'
    BY <1>3, <1>6 DEF Walk, Explored, Pending, Complete, Framed
  <2>5. QED
    BY <2>1, <2>2, <2>3, <2>4 DEF Walk
<1>7. CASE ValidateParameters
  BY <1>6, <1>7, <1>2, ParametersTypedStep DEF ValidateParameters
<1>8. CASE UNCHANGED vars
  BY <1>6, <1>8 DEF vars
<1>9. QED
  BY <1>5, <1>7, <1>8 DEF Next

-----------------------------------------------------------------------------
(* What waits has graphs of its own, and there are no more frames than     *)
(* graphs below the root.                                                  *)
LEMMA FramesBounded ==
  ASSUME TypeInv, NEW own, Walk(own)
  PROVE  Len(frames) <= Cardinality(Graphs \ {Top})
<1> DEFINE n == Len(frames)
           rest == Graphs \ {Top}
           f == [i \in 1..n |-> own[i]]
<1>1. n \in Nat /\ Arena(own)
  BY ScanFacts DEF Walk
<1>2. IsFiniteSet(rest)
  BY InputAssumption, FS_Difference
<1>3. \A i \in 1..n : i \in 0..n /\ i # 0 /\ 0 \in 0..n
  BY <1>1
<1>4. \A i \in 1..n : own[i] \in rest
  BY <1>1, <1>3 DEF Arena
<1>5. f \in Injection(1..n, rest)
  <2>1. f \in [1..n -> rest]
    BY <1>4
  <2>2. \A i, j \in 1..n : f[i] = f[j] => i = j
    BY <1>1, <1>3 DEF Arena
  <2>3. QED
    BY <2>1, <2>2 DEF Injection, IsInjective
<1>6. IsFiniteSet(1..n) /\ Cardinality(1..n) = n
  <2> HIDE DEF rest, f
  <2>1. \A a, b \in Int :
          IsFiniteSet(a..b) /\ Cardinality(a..b) = IF a > b THEN 0 ELSE b - a + 1
    BY FS_Interval
  <2>2. 1 \in Int /\ n \in Int /\ n = IF 1 > n THEN 0 ELSE n - 1 + 1
    BY <1>1
  <2>3. QED
    BY <2>1, <2>2, Zenon
<1> HIDE DEF rest, f
<1>7. Cardinality(1..n) <= Cardinality(rest)
  BY <1>2, <1>5, FS_Injection, Zenon
<1>8. QED
  BY <1>6, <1>7 DEF rest

(* The work of the heap walk is linear in the graph: never more frames     *)
(* than nested graphs, and no graph waits twice, on graphs of any size.    *)
THEOREM WalkIsLinear == Spec => []WorkIsLinear
<1>1. HeapInv => WorkIsLinear
  <2> SUFFICES ASSUME HeapInv PROVE WorkIsLinear
    OBVIOUS
  <2>1. PICK own \in [0..Len(frames) -> Graphs] : Walk(own)
    BY DEF HeapInv
  <2>2. TypeInv /\ Arena(own) /\ Waits(own)
    BY <2>1 DEF HeapInv, Walk
  <2>3. Len(frames) <= Cardinality(Graphs \ {Top})
    BY <2>1, <2>2, FramesBounded
  <2>4. DOMAIN work = 1..Len(work) /\ \A i \in 1..Len(work) : work[i].frame \in 0..Len(frames)
    BY <2>2, NestedFrames DEF Pending, FramesOf
  <2>5. scan.frame \in 0..Len(frames)
    BY <2>2, ScanFacts
  <2>6. \A i, j \in 1..Len(work) : work[i].graph = work[j].graph => i = j
    BY <2>2, <2>4 DEF Waits, OwnedBy, Lined, Arena
  <2>7. scan.next > 0 => \A i \in 1..Len(work) : work[i].graph # scan.graph
    <3> SUFFICES ASSUME scan.next > 0, NEW i \in 1..Len(work), work[i].graph = scan.graph
                 PROVE  FALSE
      OBVIOUS
    <3>1. own[work[i].frame] = own[scan.frame]
      BY <2>2 DEF Waits, OwnedBy
    <3>2. work[i].frame = scan.frame
      BY <2>2, <2>4, <2>5, <3>1 DEF Arena
    <3>3. QED
      BY <2>2, <3>2 DEF Waits, Pending, FramesOf
  <2>8. QED
    BY <2>3, <2>4, <2>6, <2>7 DEF WorkIsLinear
<1>2. QED
  BY HeapInit, HeapNext, <1>1, PTL DEF Spec

(* The verdict of validate_structure is decided by the faults of all the   *)
(* graphs nested in the one the caller holds, however many there are.      *)
THEOREM FaultsAreDecided == Spec => []FaultsDecide
<1>1. HeapInv => FaultsDecide
  <2> SUFFICES ASSUME HeapInv PROVE FaultsDecide
    OBVIOUS
  <2>1. PICK own \in [0..Len(frames) -> Graphs] : Walk(own)
    BY DEF HeapInv
  <2>2. TypeInv /\ Arena(own) /\ Ended(own) /\ model \in Inputs /\ Len(frames) \in Nat
    BY <2>1, ScanFacts DEF HeapInv, Walk, TypeInv
  <2>3. ASSUME structure = Accepted, NEW g \in Inside(model)
        PROVE  LocalFault(model, g) = Sound
    <3> DEFINE seen == {own[i] : i \in 0..Len(frames)}
    <3>1. seen \in SUBSET Graphs /\ Top \in seen
      BY <2>1, <2>2 DEF Arena
    <3>2. \A i \in 0..Len(frames) : Complete(own, i)
      BY <2>2, <2>3 DEF Ended
    <3>3. ASSUME NEW i \in 0..Len(frames), NEW k \in 1..Len(model.nodes[own[i]]),
                 model.nodes[own[i]][k].holds \in Graphs
          PROVE  model.nodes[own[i]][k].holds \in seen
      <4>1. Framed(own, i, Len(model.nodes[own[i]]) + 1)
        BY <3>2 DEF Complete
      <4>2. Len(model.nodes[own[i]]) \in Nat
        BY <2>1, <2>2, ModelFacts
      <4>3. k < Len(model.nodes[own[i]]) + 1
        BY <4>2
      <4>4. PICK j \in 1..Len(frames) : own[j] = model.nodes[own[i]][k].holds
        BY <3>3, <4>1, <4>3 DEF Framed
      <4>5. QED
        BY <2>2, <4>4
    <3>4. ClosedUnderNesting(model, seen)
      <4>1. \A i \in 0..Len(frames) : DOMAIN model.nodes[own[i]] = 1..Len(model.nodes[own[i]])
        BY <2>1, <2>2, ModelFacts
      <4>2. QED
        BY <3>3, <4>1 DEF ClosedUnderNesting
    <3>5. g \in seen
      BY <2>2, <3>1, <3>4, InsideFacts
    <3>6. QED
      BY <3>2, <3>5 DEF Complete
  <2>4. ASSUME structure \notin {S!NoVerdict, Accepted}, structure.problem # TooDeep
        PROVE  \E g \in Inside(model) : LocalFault(model, g) = structure.problem
    BY <2>2, <2>4 DEF Ended, Arena
  <2>5. QED
    BY <2>3, <2>4 DEF FaultsDecide
<1>2. QED
  BY HeapInit, HeapNext, <1>1, PTL DEF Spec

-----------------------------------------------------------------------------
(* The recursive walk, called on the graph: every place that was entered   *)
(* leads on to places that were entered, but for the nodes that the open   *)
(* calls have not come to.                                                 *)
Entered(places) ==
  /\ places \in SUBSET Places /\ <<Top, 0>> \in places
  /\ \A g \in Graphs, d \in Nat : <<g, d>> \in places =>
       /\ d <= MaxDepth
       /\ \/ Below(model, g, d, places, Len(model.nodes[g]) + 1)
          \/ \E i \in 1..Len(calls) : calls[i].graph = g /\ calls[i].depth = d
  /\ \A i \in 1..Len(calls) :
       /\ <<calls[i].graph, calls[i].depth>> \in places
       /\ Below(model, calls[i].graph, calls[i].depth, places, calls[i].next)

CallsPlaced ==
  \A i \in 1..Len(calls) : <<calls[i].graph, calls[i].depth>> \in Placed(model)

DepthInv ==
  entry = "graph" =>
    /\ CallsPlaced
    /\ parameters = P!NoVerdict => \E places \in SUBSET Places : Entered(places)
    /\ parameters = P!DepthError => Deep(model)
    /\ parameters = Accepted => ~Deep(model)

LEMMA Verdicts ==
  /\ P!NoVerdict # P!DepthError /\ P!NoVerdict # Accepted /\ P!DepthError # Accepted
  /\ \A path, problem : /\ P!ParameterError(path, problem) # P!DepthError
                        /\ P!ParameterError(path, problem) # Accepted
                        /\ P!ParameterError(path, problem) # P!NoVerdict
<1>1. /\ P!NoVerdict.variant = "none" /\ Accepted.variant = "Ok"
      /\ P!DepthError.variant = "InvalidGraph"
  BY DEF P!NoVerdict, Accepted, P!DepthError
<1>2. ASSUME NEW path, NEW problem
      PROVE  P!ParameterError(path, problem).variant = "InvalidNodeParameters"
  BY DEF P!ParameterError
<1>3. QED
  BY <1>1, <1>2

LEMMA DepthInit == Init => DepthInv
<1> SUFFICES ASSUME Init, entry = "graph" PROVE DepthInv
  BY DEF DepthInv
<1>1. PICK m \in Inputs, e \in {"graph", "node"} : P!StartOn(m, e)
  BY DEF Init
<1>2. /\ model = m /\ entry = e /\ parameters = P!NoVerdict /\ Top \in Graphs
      /\ calls = <<[graph |-> Top, next |-> 1, path |-> P!EntryPath(e),
                    depth |-> IF e = "node" THEN 1 ELSE 0]>>
  BY <1>1, ModelAssumption, Zenon DEF P!StartOn
<1>3. Len(calls) = 1 /\ calls[1].graph = Top /\ calls[1].next = 1 /\ calls[1].depth = 0
  BY <1>2
<1>4. CallsPlaced
  BY <1>2, <1>3, PlacedFacts DEF CallsPlaced
<1>5. Entered({<<Top, 0>>})
  BY <1>2, <1>3, ModelAssumption DEF Entered, Below, Places
<1>6. QED
  BY <1>2, <1>4, <1>5, Verdicts DEF DepthInv, Entered

(* The next place of the innermost call.                                   *)
LEMMA InnerPlaced ==
  ASSUME TypeInv, CallsPlaced, P!Looking, P!Node.holds \in Graphs
  PROVE  <<P!Node.holds, P!Call.depth + 1>> \in Placed(model)
<1>1. calls # <<>> /\ model \in Inputs
  BY DEF P!Looking, TypeInv
<1>2. /\ P!Call = calls[Len(calls)] /\ Len(calls) \in 1..Len(calls)
      /\ P!Call.graph \in Graphs /\ P!Call.depth \in Nat
      /\ P!Call.next \in 1..Len(model.nodes[P!Call.graph])
      /\ P!Node = model.nodes[P!Call.graph][P!Call.next]
  BY <1>1, CallFacts
<1>3. <<P!Call.graph, P!Call.depth>> \in Placed(model)
  BY <1>2 DEF CallsPlaced
<1>4. QED
  BY <1>1, <1>2, <1>3, PlacedFacts

(* Going on to the next node, without entering the graph it holds or with  *)
(* the place of it added.                                                  *)
LEMMA AdvanceEntered ==
  ASSUME TypeInv, P!Looking, NEW places, Entered(places), NEW more, places \subseteq more,
         P!Node.holds \in Graphs => <<P!Node.holds, P!Call.depth + 1>> \in more
  PROVE  \A i \in 1..Len(calls) :
           Below(model, calls[i].graph, calls[i].depth, more, P!Advanced[i].next)
<1>1. calls # <<>>
  BY DEF P!Looking
<1>2. /\ P!Call = calls[Len(calls)] /\ P!Call.next \in Nat
      /\ P!Call.next \in 1..Len(model.nodes[P!Call.graph])
      /\ P!Node = model.nodes[P!Call.graph][P!Call.next]
  BY <1>1, CallFacts
<1>3. /\ P!Advanced[Len(calls)].next = P!Call.next + 1
      /\ \A i \in 1..Len(calls) : i # Len(calls) => P!Advanced[i] = calls[i]
  BY <1>1, AdvancedFacts
<1> TAKE i \in 1..Len(calls)
<1>4. Below(model, calls[i].graph, calls[i].depth, more, calls[i].next)
  BY DEF Entered, Below
<1>5. CASE i # Len(calls)
  BY <1>3, <1>4, <1>5
<1>6. CASE i = Len(calls)
  <2> DEFINE g == P!Call.graph
             d == P!Call.depth
             n == P!Call.next
             h == P!Node.holds
  <2>1. /\ n \in Nat /\ h = model.nodes[g][n].holds
        /\ h \in Graphs => <<h, d + 1>> \in more
        /\ Below(model, g, d, more, n)
    BY <1>2, <1>4, <1>6
  <2>2. P!Advanced[i].next = n + 1 /\ calls[i].graph = g /\ calls[i].depth = d
    BY <1>2, <1>3, <1>6
  <2> HIDE DEF g, d, n, h
  <2>3. Below(model, g, d, more, n + 1)
    <3> SUFFICES ASSUME NEW k \in 1..Len(model.nodes[g]), k < n + 1,
                        model.nodes[g][k].holds \in Graphs
                 PROVE  <<model.nodes[g][k].holds, d + 1>> \in more
      BY DEF Below
    <3>1. CASE k = n
      BY <3>1, <2>1
    <3>2. CASE k # n
      <4>1. k < n
        BY <3>2, <2>1
      <4>2. QED
        BY <4>1, <2>1 DEF Below
    <3>3. QED
      BY <3>1, <3>2
  <2>4. QED
    BY <2>2, <2>3
<1>7. QED
  BY <1>5, <1>6

LEMMA DepthEnter ==
  ASSUME TypeInv, DepthInv, entry = "graph", P!EnterNested
  PROVE  DepthInv'
<1> DEFINE n == Len(calls)
           h == P!Node.holds
           d == P!Call.depth
           inner == P!Inner(P!NodePath)
           advanced == P!Advanced
<1>1. /\ P!Looking /\ h \in Graphs /\ d < MaxDepth /\ calls # <<>>
      /\ calls' = Append(advanced, inner)
      /\ model' = model /\ entry' = entry /\ parameters' = parameters
      /\ parameters = P!NoVerdict
  BY DEF P!EnterNested, P!Looking
<1>2. /\ advanced \in Seq(CallRecords) /\ Len(advanced) = n
      /\ \A i \in 1..n : advanced[i].graph = calls[i].graph /\ advanced[i].depth = calls[i].depth
      /\ n \in Nat \ {0} /\ d \in Nat
  BY <1>1, AdvancedFacts, CallFacts
<1>3. inner.graph = h /\ inner.next = 1 /\ inner.depth = d + 1
  BY DEF P!Inner
<1>4. CallsPlaced /\ <<h, d + 1>> \in Placed(model)
  BY <1>1, InnerPlaced DEF DepthInv
<1>5. PICK places \in SUBSET Places : Entered(places)
  BY <1>1 DEF DepthInv
<1>p. PICK more : more = places \cup {<<h, d + 1>>}
  OBVIOUS
<1>6. \A i \in 1..n : Below(model, calls[i].graph, calls[i].depth, more, advanced[i].next)
  BY <1>1, <1>5, <1>p, AdvanceEntered
<1> HIDE DEF n, h, d, inner, advanced
<1>7. /\ Len(calls') = n + 1 /\ 1..(n + 1) = 1..n \cup {n + 1}
      /\ \A i \in 1..n : calls'[i] = advanced[i]
      /\ calls'[n + 1] = inner
  BY <1>1, <1>2
<1>8. CallsPlaced'
  <2>1. ASSUME NEW i \in 1..(n + 1)
        PROVE  <<calls'[i].graph, calls'[i].depth>> \in Placed(model)
    <3>1. CASE i \in 1..n
      BY <1>2, <1>4, <1>7, <3>1, Zenon DEF CallsPlaced, n
    <3>2. CASE i = n + 1
      BY <1>3, <1>4, <1>7, <3>2, Zenon
    <3>3. QED
      BY <1>7, <2>1, <3>1, <3>2, Zenon
  <2>2. model' = model
    BY <1>1
  <2>3. QED
    BY <1>7, <2>1, <2>2, Zenon DEF CallsPlaced
<1>9. /\ places \in SUBSET Places /\ <<Top, 0>> \in places
      /\ \A g \in Graphs, e \in Nat : <<g, e>> \in places =>
           /\ e <= MaxDepth
           /\ \/ Below(model, g, e, places, Len(model.nodes[g]) + 1)
              \/ \E i \in 1..n : calls[i].graph = g /\ calls[i].depth = e
      /\ \A i \in 1..n : <<calls[i].graph, calls[i].depth>> \in places
  BY <1>5 DEF Entered, n
<1>10. more \in SUBSET Places
  BY <1>1, <1>2, <1>9, <1>p DEF Places
<1>11. ASSUME NEW g \in Graphs, NEW e \in Nat, <<g, e>> \in more
       PROVE  /\ e <= MaxDepth
              /\ \/ Below(model, g, e, more, Len(model.nodes[g]) + 1)
                 \/ \E i \in 1..(n + 1) : calls'[i].graph = g /\ calls'[i].depth = e
  <2>1. CASE <<g, e>> = <<h, d + 1>>
    <3>1. g = h /\ e = d + 1
      BY <2>1
    <3>2. e <= MaxDepth
      BY <3>1, <1>1, <1>2, ModelAssumption
    <3>3. calls'[n + 1].graph = g /\ calls'[n + 1].depth = e /\ n + 1 \in 1..(n + 1)
      BY <3>1, <1>2, <1>3, <1>7
    <3>4. QED
      BY <3>2, <3>3
  <2>2. CASE <<g, e>> \in places
    <3>1. /\ e <= MaxDepth
          /\ \/ Below(model, g, e, places, Len(model.nodes[g]) + 1)
             \/ \E i \in 1..n : calls[i].graph = g /\ calls[i].depth = e
      BY <2>2, <1>9
    <3>2. CASE Below(model, g, e, places, Len(model.nodes[g]) + 1)
      BY <3>1, <3>2, <1>p DEF Below
    <3>3. CASE \E i \in 1..n : calls[i].graph = g /\ calls[i].depth = e
      BY <3>1, <3>3, <1>2, <1>7
    <3>4. QED
      BY <3>1, <3>2, <3>3
  <2>3. QED
    BY <1>11, <1>p, <2>1, <2>2
<1>12. ASSUME NEW i \in 1..(n + 1)
       PROVE  /\ <<calls'[i].graph, calls'[i].depth>> \in more
              /\ Below(model, calls'[i].graph, calls'[i].depth, more, calls'[i].next)
  <2>1. CASE i \in 1..n
    <3>1. calls'[i] = advanced[i] /\ advanced[i].graph = calls[i].graph
          /\ advanced[i].depth = calls[i].depth
      BY <2>1, <1>2, <1>7
    <3>2. <<calls[i].graph, calls[i].depth>> \in more
      BY <2>1, <1>9, <1>p
    <3>3. Below(model, calls[i].graph, calls[i].depth, more, advanced[i].next)
      BY <2>1, <1>6
    <3>4. QED
      BY <3>1, <3>2, <3>3
  <2>2. CASE i = n + 1
    <3>1. calls'[i].graph = h /\ calls'[i].depth = d + 1 /\ calls'[i].next = 1
      BY <2>2, <1>3, <1>7
    <3>2. Below(model, h, d + 1, more, 1)
      BY DEF Below
    <3>3. QED
      BY <3>1, <3>2, <1>p
  <2>3. 1..(n + 1) = 1..n \cup {n + 1}
    BY <1>7
  <2>4. i \in 1..n \/ i = n + 1
    BY <2>3
  <2>5. QED
    BY <2>1, <2>2, <2>4, Zenon
<1>13. Entered(more)'
  <2>1. <<Top, 0>> \in more
    BY <1>9, <1>p
  <2>2. QED
    BY <1>1, <1>7, <1>10, <1>11, <1>12, <2>1 DEF Entered
<1>14. QED
  BY <1>1, <1>8, <1>10, <1>13, Verdicts DEF DepthInv

LEMMA DepthPass ==
  ASSUME TypeInv, DepthInv, entry = "graph", P!PassNode
  PROVE  DepthInv'
<1> DEFINE n == Len(calls)
<1>1. /\ P!Looking /\ P!Node.holds \in Leaves /\ calls # <<>> /\ calls' = P!Advanced
      /\ model' = model /\ entry' = entry /\ parameters' = parameters
      /\ parameters = P!NoVerdict
  BY DEF P!PassNode, P!Looking
<1>2. /\ Len(calls') = n
      /\ \A i \in 1..n : calls'[i].graph = calls[i].graph /\ calls'[i].depth = calls[i].depth
  BY <1>1, AdvancedFacts
<1>3. PICK places \in SUBSET Places : Entered(places)
  BY <1>1 DEF DepthInv
<1>4. P!Node.holds \notin Graphs
  BY <1>1, ModelAssumption
<1>5. \A i \in 1..n : Below(model, calls[i].graph, calls[i].depth, places, calls'[i].next)
  BY <1>1, <1>3, <1>4, AdvanceEntered
<1> HIDE DEF n
<1>6. CallsPlaced'
  BY <1>1, <1>2 DEF CallsPlaced, DepthInv, n
<1>7. Entered(places)'
  <2>1. /\ places \in SUBSET Places /\ <<Top, 0>> \in places
        /\ \A g \in Graphs, e \in Nat : <<g, e>> \in places =>
             /\ e <= MaxDepth
             /\ \/ Below(model, g, e, places, Len(model.nodes[g]) + 1)
                \/ \E i \in 1..n : calls[i].graph = g /\ calls[i].depth = e
        /\ \A i \in 1..n : <<calls[i].graph, calls[i].depth>> \in places
    BY <1>3 DEF Entered, n
  <2>2. QED
    BY <1>1, <1>2, <1>5, <2>1 DEF Entered
<1>8. QED
  BY <1>1, <1>3, <1>6, <1>7, Verdicts DEF DepthInv

LEMMA DepthReturn ==
  ASSUME TypeInv, DepthInv, entry = "graph", P!Return
  PROVE  DepthInv'
<1> DEFINE n == Len(calls)
           last == P!Call
<1>1. /\ calls # <<>> /\ last.next > Len(model.nodes[last.graph]) /\ calls' = P!Front(calls)
      /\ model' = model /\ entry' = entry /\ parameters' = parameters
      /\ parameters = P!NoVerdict
  BY DEF P!Return
<1>2. /\ n \in Nat \ {0} /\ last = calls[n] /\ last.graph \in Graphs /\ last.next \in Nat
      /\ Len(model.nodes[last.graph]) \in Nat /\ calls \in Seq(CallRecords)
  BY <1>1, CallFacts DEF TypeInv, ParametersTyped
<1>3. PICK places \in SUBSET Places : Entered(places)
  BY <1>1 DEF DepthInv
<1> HIDE DEF n, last
<1>4. /\ Len(calls') = n - 1 /\ \A i \in 1..(n - 1) : calls'[i] = calls[i]
      /\ 1..n = 1..(n - 1) \cup {n}
  <2>1. calls' = SubSeq(calls, 1, n - 1)
    BY <1>1 DEF P!Front, n
  <2>2. n - 1 \in Nat /\ 1..n = 1..(n - 1) \cup {n} /\ n = Len(calls)
    BY <1>2 DEF n
  <2>3. \A i \in 1..(n - 1) : calls[i] \in CallRecords
    BY <1>2, <2>2
  <2>4. /\ Len(calls') = IF 1 <= n - 1 THEN n - 1 - 1 + 1 ELSE 0
        /\ \A i \in 1..(n - 1 - 1 + 1) : calls'[i] = calls[1 + i - 1]
    <3> DEFINE m == n - 1
    <3>1. m \in Int /\ 1 \in Int /\ \A i \in 1..m : calls[i] \in CallRecords
      BY <2>2, <2>3
    <3> HIDE DEF m
    <3>2. /\ Len(SubSeq(calls, 1, m)) = IF 1 <= m THEN m - 1 + 1 ELSE 0
          /\ \A i \in 1..(m - 1 + 1) : SubSeq(calls, 1, m)[i] = calls[1 + i - 1]
      BY <3>1, SubSeqProperties
    <3>3. QED
      BY <2>1, <3>2, Zenon DEF m
  <2>5. Len(calls') = n - 1 /\ n - 1 - 1 + 1 = n - 1 /\ \A i \in Nat : 1 + i - 1 = i
    BY <2>2, <2>4
  <2>6. QED
    BY <2>2, <2>4, <2>5
<1>5. CallsPlaced'
  BY <1>1, <1>4 DEF CallsPlaced, DepthInv, n
<1>6. Entered(places)'
  <2>1. /\ places \in SUBSET Places /\ <<Top, 0>> \in places
        /\ \A g \in Graphs, e \in Nat : <<g, e>> \in places =>
             /\ e <= MaxDepth
             /\ \/ Below(model, g, e, places, Len(model.nodes[g]) + 1)
                \/ \E i \in 1..n : calls[i].graph = g /\ calls[i].depth = e
        /\ \A i \in 1..n :
             /\ <<calls[i].graph, calls[i].depth>> \in places
             /\ Below(model, calls[i].graph, calls[i].depth, places, calls[i].next)
    BY <1>3 DEF Entered, n
  <2>2. Below(model, last.graph, last.depth, places, Len(model.nodes[last.graph]) + 1)
    <3>1. Below(model, last.graph, last.depth, places, last.next)
      BY <1>2, <1>4, <2>1
    <3>2. \A k \in 1..Len(model.nodes[last.graph]) : k < last.next
      BY <1>1, <1>2
    <3>3. QED
      BY <3>1, <3>2 DEF Below
  <2>3. ASSUME NEW g \in Graphs, NEW e \in Nat, <<g, e>> \in places
        PROVE  \/ Below(model, g, e, places, Len(model.nodes[g]) + 1)
               \/ \E i \in 1..(n - 1) : calls'[i].graph = g /\ calls'[i].depth = e
    <3>1. CASE Below(model, g, e, places, Len(model.nodes[g]) + 1)
      BY <3>1
    <3>2. ASSUME NEW i \in 1..n, calls[i].graph = g, calls[i].depth = e, i = n
          PROVE  Below(model, g, e, places, Len(model.nodes[g]) + 1)
      BY <3>2, <1>2, <2>2
    <3>3. ASSUME NEW i \in 1..n, calls[i].graph = g, calls[i].depth = e, i # n
          PROVE  \E j \in 1..(n - 1) : calls'[j].graph = g /\ calls'[j].depth = e
      BY <3>3, <1>4
    <3>4. QED
      BY <2>1, <2>3, <3>1, <3>2, <3>3
  <2>4. \A i \in 1..(n - 1) :
          /\ <<calls'[i].graph, calls'[i].depth>> \in places
          /\ Below(model, calls'[i].graph, calls'[i].depth, places, calls'[i].next)
    BY <1>4, <2>1
  <2>5. QED
    BY <1>1, <1>4, <2>1, <2>3, <2>4 DEF Entered
<1>7. QED
  BY <1>1, <1>3, <1>5, <1>6, Verdicts DEF DepthInv

LEMMA DepthReject ==
  ASSUME TypeInv, DepthInv, entry = "graph", P!RejectDeep
  PROVE  DepthInv'
<1>1. /\ P!Looking /\ P!Node.holds \in Graphs /\ P!Call.depth >= MaxDepth /\ calls # <<>>
      /\ calls' = calls /\ model' = model /\ entry' = entry /\ parameters' = P!DepthError
  BY DEF P!RejectDeep, P!Looking
<1>2. CallsPlaced /\ <<P!Node.holds, P!Call.depth + 1>> \in Placed(model)
  BY <1>1, InnerPlaced DEF DepthInv
<1>3. P!Call.depth + 1 \in Nat /\ P!Call.depth + 1 > MaxDepth
  BY <1>1, CallFacts, ModelAssumption
<1>4. Deep(model)
  BY <1>1, <1>2, <1>3 DEF Deep
<1>5. QED
  BY <1>1, <1>2, <1>4, Verdicts DEF DepthInv, CallsPlaced

LEMMA DepthAccept ==
  ASSUME TypeInv, DepthInv, entry = "graph", P!Accept
  PROVE  DepthInv'
<1>1. /\ parameters = P!NoVerdict /\ calls = <<>> /\ parameters' = Accepted
      /\ calls' = calls /\ model' = model /\ entry' = entry /\ model \in Inputs
  BY SameWords DEF P!Accept, TypeInv
<1>2. PICK places \in SUBSET Places : Entered(places)
  BY <1>1 DEF DepthInv
<1>3. Len(calls) = 0
  BY <1>1
<1>4. /\ <<Top, 0>> \in places
      /\ \A g \in Graphs, e \in Nat : <<g, e>> \in places =>
           e <= MaxDepth /\ Below(model, g, e, places, Len(model.nodes[g]) + 1)
  BY <1>2, <1>3 DEF Entered
<1>5. Placed(model) \subseteq places
  BY <1>1, <1>4, PlacedFacts DEF Leads
<1>6. ~Deep(model)
  <2> SUFFICES ASSUME NEW g \in Graphs, NEW e \in Nat, <<g, e>> \in Placed(model), e > MaxDepth
               PROVE  FALSE
    BY DEF Deep
  <2>1. e <= MaxDepth
    BY <1>4, <1>5
  <2>2. QED
    BY <2>1, ModelAssumption
<1>7. QED
  BY <1>1, <1>6, Verdicts DEF DepthInv, CallsPlaced

LEMMA DepthNext == TypeInv /\ DepthInv /\ [Next]_vars => DepthInv'
<1> SUFFICES ASSUME TypeInv, DepthInv, [Next]_vars PROVE DepthInv'
  OBVIOUS
<1>1. ASSUME model' = model, entry' = entry, calls' = calls, parameters' = parameters
      PROVE  DepthInv'
  BY <1>1 DEF DepthInv, CallsPlaced, Entered
<1>2. CASE ValidateStructure
  BY <1>1, <1>2, StructureTypedStep DEF ValidateStructure
<1>3. CASE ValidateParameters
  <2>1. P!Next /\ entry' = entry
    BY <1>3 DEF ValidateParameters, P!Next, P!EnterNested, P!RejectDeep, P!PassNode,
                P!RejectNode, P!Return, P!Accept
  <2>2. SUFFICES ASSUME entry = "graph" PROVE DepthInv'
    BY <2>1 DEF DepthInv
  <2>3. CASE P!RejectNode
    <3>1. /\ calls' = calls /\ model' = model
          /\ parameters' = P!ParameterError(P!NodePath, P!NodeFault(P!Node.holds))
      BY <2>3 DEF P!RejectNode
    <3>2. CallsPlaced
      BY <2>2 DEF DepthInv
    <3>3. /\ parameters' # P!NoVerdict /\ parameters' # P!DepthError
          /\ parameters' # Accepted
      BY <3>1, Verdicts
    <3>4. QED
      BY <3>1, <3>2, <3>3 DEF DepthInv, CallsPlaced
  <2>4. QED
    BY <2>1, <2>2, <2>3, DepthEnter, DepthPass, DepthReturn, DepthReject, DepthAccept DEF P!Next
<1>4. CASE UNCHANGED vars
  BY <1>1, <1>4 DEF vars
<1>5. QED
  BY <1>2, <1>3, <1>4 DEF Next

(* What the heap walk says of the depth of the graph.                      *)
LEMMA HeapDepth ==
  ASSUME HeapInv
  PROVE  /\ structure = Accepted => ~Deep(model)
         /\ structure \notin {S!NoVerdict, Accepted} /\ structure.problem = TooDeep => Deep(model)
<1>1. PICK own \in [0..Len(frames) -> Graphs] : Walk(own)
  BY DEF HeapInv
<1>2. /\ TypeInv /\ Arena(own) /\ Ended(own) /\ model \in Inputs /\ Forest(frames)
      /\ Len(frames) \in Nat
  BY <1>1, ScanFacts DEF HeapInv, Walk, TypeInv, StructureTyped
<1>3. \A i \in 0..Len(frames) : S!DepthOf(frames, i) \in Nat
  BY <1>2, DepthTyped
<1>4. ASSUME structure = Accepted PROVE ~Deep(model)
  <2> DEFINE seen == {<<own[i], S!DepthOf(frames, i)>> : i \in 0..Len(frames)}
  <2>1. \A i \in 0..Len(frames) : Complete(own, i) /\ S!DepthOf(frames, i) <= MaxDepth
    BY <1>2, <1>4 DEF Ended
  <2>2. seen \in SUBSET Places
    BY <1>1, <1>3 DEF Places
  <2>3. <<Top, 0>> \in seen
    <3>1. S!DepthOf(frames, 0) = 0 /\ own[0] = Top /\ 0 \in 0..Len(frames)
      BY <1>2 DEF S!DepthOf, Arena
    <3>2. QED
      BY <3>1
  <2>4. ASSUME NEW i \in 0..Len(frames)
        PROVE  Below(model, own[i], S!DepthOf(frames, i), seen, Len(model.nodes[own[i]]) + 1)
    <3> SUFFICES ASSUME NEW k \in 1..Len(model.nodes[own[i]]),
                        k < Len(model.nodes[own[i]]) + 1,
                        model.nodes[own[i]][k].holds \in Graphs
                 PROVE  <<model.nodes[own[i]][k].holds, S!DepthOf(frames, i) + 1>> \in seen
      BY DEF Below
    <3>1. PICK j \in 1..Len(frames) :
            frames[j].parent = i /\ own[j] = model.nodes[own[i]][k].holds
      BY <2>1 DEF Complete, Framed
    <3>2. frames[j].depth = S!DepthOf(frames, i) + 1
      BY <1>2, <3>1, FrameFacts
    <3>3. S!DepthOf(frames, j) = S!DepthOf(frames, i) + 1 /\ j \in 0..Len(frames)
      BY <1>2, <3>2 DEF S!DepthOf
    <3>4. QED
      BY <3>1, <3>3
  <2>5. Leads(model, seen)
    <3> SUFFICES ASSUME NEW g \in Graphs, NEW d \in Nat, <<g, d>> \in seen
                 PROVE  Below(model, g, d, seen, Len(model.nodes[g]) + 1)
      BY DEF Leads
    <3>1. PICK i \in 0..Len(frames) : <<g, d>> = <<own[i], S!DepthOf(frames, i)>>
      OBVIOUS
    <3>2. g = own[i] /\ d = S!DepthOf(frames, i)
      BY <3>1
    <3> HIDE DEF seen
    <3>3. QED
      BY <3>2, <2>4
  <2>6. Placed(model) \subseteq seen
    BY <1>2, <2>2, <2>3, <2>5, PlacedFacts
  <2>7. SUFFICES ASSUME NEW g \in Graphs, NEW d \in Nat, <<g, d>> \in Placed(model), d > MaxDepth
                 PROVE  FALSE
    BY DEF Deep
  <2>8. PICK i \in 0..Len(frames) : <<g, d>> = <<own[i], S!DepthOf(frames, i)>>
    BY <2>6, <2>7
  <2>9. d <= MaxDepth
    BY <2>1, <2>8
  <2>10. QED
    BY <2>7, <2>9, ModelAssumption
<1>5. ASSUME structure \notin {S!NoVerdict, Accepted}, structure.problem = TooDeep
      PROVE  Deep(model)
  <2>1. PICK i \in 0..Len(frames) : S!DepthOf(frames, i) > MaxDepth
    BY <1>2, <1>5 DEF Ended
  <2>2. <<own[i], S!DepthOf(frames, i)>> \in Placed(model) /\ own[i] \in Graphs
    BY <1>1, <1>2 DEF Arena
  <2>3. QED
    BY <1>3, <2>1, <2>2 DEF Deep
<1>6. QED
  BY <1>4, <1>5

(* The two validations, one counting the depth in the frames of its arena  *)
(* and the other along its open calls, draw the line at the same nesting,  *)
(* on trees of any shape and for any limit.                                *)
THEOREM DepthLimitsAgree == Spec => []SameDepthLimit
<1>1. HeapInv /\ DepthInv => SameDepthLimit
  <2> SUFFICES ASSUME HeapInv, DepthInv PROVE SameDepthLimit
    OBVIOUS
  <2>1. ASSUME entry = "graph", structure = Accepted PROVE parameters # P!DepthError
    BY <2>1, HeapDepth DEF DepthInv
  <2>2. ASSUME entry = "graph", parameters = Accepted PROVE structure.problem # TooDeep
    <3>1. ~Deep(model)
      BY <2>2 DEF DepthInv
    <3>2. S!NoVerdict.problem = Sound /\ Accepted.problem = Sound
      BY SameWords, Zenon DEF S!NoVerdict, Accepted
    <3>3. CASE structure \in {S!NoVerdict, Accepted}
      BY <3>2, <3>3, DepthNotSound
    <3>4. CASE structure \notin {S!NoVerdict, Accepted}
      BY <3>1, <3>4, HeapDepth
    <3>5. QED
      BY <3>3, <3>4
  <2>3. QED
    BY <2>1, <2>2 DEF SameDepthLimit
<1>2. HeapInv => TypeInv
  BY DEF HeapInv
<1>3. QED
  BY HeapInit, HeapNext, DepthInit, DepthNext, <1>1, <1>2, PTL DEF Spec

-----------------------------------------------------------------------------
(* The least of a set of naturals.                                         *)
LEMMA LeastOf ==
  ASSUME NEW A \in SUBSET Nat, A # {}
  PROVE  Min(A) \in A /\ \A x \in A : Min(A) <= x
<1> DEFINE R == OpToRel(<, Nat)
<1>1. IsWellFoundedOn(R, Nat)
  BY NatLessThanWellFounded
<1>2. PICK m \in A : \A y \in A : ~ (<<y, m>> \in R)
  <2> HIDE DEF R
  <2>1. A \subseteq Nat
    BY Zenon
  <2>2. QED
    BY <1>1, <2>1, WFMin, Zenon
<1>3. \A y \in A : m <= y
  <2>1. TAKE y \in A
  <2>2. y \in Nat /\ m \in Nat /\ ~(y < m)
    BY <1>2 DEF OpToRel
  <2>3. QED
    BY <2>2
<1>4. QED
  BY <1>3 DEF Min

(* The definitions by nesting, unfolded once.  Each is a function of how   *)
(* many levels are left, whose existence RecursionExists gives.            *)
InsideReports(m, more) == IF more = 0 THEN AllTooDeep ELSE Reports(m)[more - 1]

ProblemSet(m) == {LocalFault(m, g) : g \in Graphs} \cup {Sound, TooDeep}
ReportRecords(m) == [problem : ProblemSet(m), path : Seq(Names)]

LEMMA NoNames == <<>> \in Seq(Names)
  OBVIOUS

LEMMA NameBefore ==
  ASSUME NEW n \in Names, NEW path \in Seq(Names)
  PROVE  <<n>> \o path \in Seq(Names)
  OBVIOUS

LEMMA ProblemsNamed ==
  ASSUME NEW m
  PROVE  Sound \in ProblemSet(m) /\ \A g \in Graphs : LocalFault(m, g) \in ProblemSet(m)
  BY Zenon DEF ProblemSet

LEMMA RecordOf ==
  ASSUME NEW m, NEW problem \in ProblemSet(m), NEW path \in Seq(Names)
  PROVE  Reported(problem, path) \in ReportRecords(m)
<1> DEFINE B == ProblemSet(m)
           Route == Seq(Names)
<1>1. problem \in B /\ path \in Route
  OBVIOUS
<1> HIDE DEF B, Route
<1>2. Reported(problem, path) \in [problem : B, path : Route]
  BY <1>1 DEF Reported
<1>3. QED
  BY <1>2, Zenon DEF ReportRecords, B, Route

LEMMA RecordParts ==
  ASSUME NEW m, NEW r \in ReportRecords(m)
  PROVE  r.problem \in ProblemSet(m) /\ r.path \in Seq(Names)
<1> DEFINE B == ProblemSet(m)
           Route == Seq(Names)
<1>1. r \in [problem : B, path : Route]
  BY Zenon DEF ReportRecords
<1> HIDE DEF B, Route
<1>2. r.problem \in B /\ r.path \in Route
  BY <1>1
<1>3. QED
  BY <1>2, Zenon DEF B, Route

(* What is known of a graph's report when those of the graphs inside it    *)
(* are: the first of them that is a problem decides.                       *)
LEMMA ReportFacts ==
  ASSUME NEW m \in Inputs, NEW g \in Graphs, NEW inside \in [Graphs -> ReportRecords(m)]
  PROVE  /\ ReportOf(m, g, inside) \in ReportRecords(m)
         /\ LocalFault(m, g) # Sound =>
              ReportOf(m, g, inside) = Reported(LocalFault(m, g), <<>>)
         /\ LocalFault(m, g) = Sound =>
              IF \A i \in Nested(m, g) : inside[m.nodes[g][i].holds].problem = Sound
              THEN ReportOf(m, g, inside) = Reported(Sound, <<>>)
              ELSE \E i \in Nested(m, g) :
                     /\ inside[m.nodes[g][i].holds].problem # Sound
                     /\ \A j \in Nested(m, g) :
                          j < i => inside[m.nodes[g][j].holds].problem = Sound
                     /\ ReportOf(m, g, inside) =
                          Reported(inside[m.nodes[g][i].holds].problem,
                                   <<m.nodes[g][i].name>> \o inside[m.nodes[g][i].holds].path)
<1> DEFINE below(i) == inside[m.nodes[g][i].holds]
           name(i) == m.nodes[g][i].name
           N == Nested(m, g)
           fault == LocalFault(m, g)
           bad == {i \in N : below(i).problem # Sound}
           first == Min(bad)
           chosen(i) == Reported(below(i).problem, <<name(i)>> \o below(i).path)
           R == ReportOf(m, g, inside)
           All == ReportRecords(m)
<1>1. N \in SUBSET Nat
  BY ModelFacts DEF Nested
<1>2. \A i \in N : below(i) \in All /\ name(i) \in Names
  <2>1. ASSUME NEW i \in N PROVE m.nodes[g][i].holds \in Graphs /\ name(i) \in Names
    BY ModelFacts DEF Nested
  <2>2. \A h \in Graphs : inside[h] \in All
    OBVIOUS
  <2> HIDE DEF All, name
  <2>3. QED
    BY <2>1, <2>2, Zenon
<1>3. fault \in ProblemSet(m) /\ Sound \in ProblemSet(m)
  BY ProblemsNamed, Zenon
<1>4. R = IF fault # Sound THEN Reported(fault, <<>>)
          ELSE IF bad = {} THEN Reported(Sound, <<>>) ELSE chosen(first)
  BY Zenon DEF ReportOf
<1>5. bad # {} => first \in bad /\ \A j \in bad : first <= j
  <2> DEFINE B == bad
  <2>1. B \in SUBSET Nat
    BY <1>1
  <2> HIDE DEF B
  <2>2. B # {} => Min(B) \in B /\ \A j \in B : Min(B) <= j
    BY <2>1, LeastOf, Zenon
  <2>3. QED
    BY <2>2, Zenon DEF B
<1>6. \A i \in N : chosen(i) \in All
  <2>1. TAKE i \in N
  <2>2. below(i) \in All /\ name(i) \in Names
    BY <1>2, Zenon
  <2> DEFINE b == below(i)
             n == name(i)
  <2> HIDE DEF below, name
  <2>3. b.problem \in ProblemSet(m) /\ b.path \in Seq(Names)
    BY <2>2, RecordParts, Zenon
  <2>4. <<n>> \o b.path \in Seq(Names)
    BY <2>2, <2>3, NameBefore, Zenon
  <2>5. QED
    BY <2>3, <2>4, RecordOf, Zenon
<1>7. Reported(fault, <<>>) \in All /\ Reported(Sound, <<>>) \in All
  BY <1>3, NoNames, RecordOf, Zenon
<1>8. bad = {} <=> \A i \in N : below(i).problem = Sound
  <2> HIDE DEF N, below
  <2>1. \A i : i \in bad <=> i \in N /\ below(i).problem # Sound
    BY Zenon
  <2> HIDE DEF bad
  <2>2. bad = {} <=> \A i : i \notin bad
    BY Zenon
  <2>3. QED
    BY <2>1, <2>2, Zenon
<1>9. bad # {} =>
        /\ first \in N /\ below(first).problem # Sound
        /\ \A j \in N : j < first => below(j).problem = Sound
  <2>1. SUFFICES ASSUME bad # {}
                 PROVE  /\ first \in N /\ below(first).problem # Sound
                        /\ \A j \in N : j < first => below(j).problem = Sound
    BY Zenon
  <2>2. first \in bad /\ \A j \in bad : first <= j
    BY <1>5, <2>1, Zenon
  <2> HIDE DEF first, N, below
  <2>3. first \in N /\ below(first).problem # Sound
    BY <2>2, Zenon
  <2>4. ASSUME NEW j \in N, j < first PROVE below(j).problem = Sound
    <3>1. SUFFICES ASSUME below(j).problem # Sound PROVE FALSE
      BY Zenon
    <3>2. first <= j
      BY <2>2, <3>1, Zenon
    <3>3. first \in Nat /\ j \in Nat
      BY <1>1, <2>3
    <3>4. QED
      BY <2>4, <3>2, <3>3
  <2>5. QED
    BY <2>3, <2>4, Zenon
<1> HIDE DEF bad, first, N, fault, R, All, chosen, below
<1>10. R \in All
  BY <1>4, <1>6, <1>7, <1>9, Zenon
<1>11. fault # Sound => R = Reported(fault, <<>>)
  BY <1>4, Zenon
<1>12. fault = Sound =>
         IF \A i \in N : below(i).problem = Sound
         THEN R = Reported(Sound, <<>>)
         ELSE \E i \in N :
                /\ below(i).problem # Sound
                /\ \A j \in N : j < i => below(j).problem = Sound
                /\ R = chosen(i)
  <2>1. SUFFICES ASSUME fault = Sound, bad # {}
                 PROVE  /\ ~ \A i \in N : below(i).problem = Sound
                        /\ \E i \in N :
                             /\ below(i).problem # Sound
                             /\ \A j \in N : j < i => below(j).problem = Sound
                             /\ R = chosen(i)
    BY <1>4, <1>8, Zenon
  <2>2. R = chosen(first)
    BY <1>4, <2>1, Zenon
  <2>3. QED
    BY <1>9, <2>1, <2>2, Zenon
<1>13. QED
  BY <1>10, <1>11, <1>12, Zenon DEF N, fault, R, All, chosen, below

LEMMA ReportsUnfold ==
  ASSUME NEW m \in Inputs
  PROVE  \A more \in 0..MaxDepth :
           /\ InsideReports(m, more) \in [Graphs -> ReportRecords(m)]
           /\ Reports(m)[more] \in [Graphs -> ReportRecords(m)]
           /\ \A g \in Graphs : Reports(m)[more][g] = ReportOf(m, g, InsideReports(m, more))
<1> DEFINE V == [Graphs -> ReportRecords(m)]
           Row(inside) == [g \in Graphs |-> ReportOf(m, g, inside)]
           step == [x \in V \X (1..MaxDepth) |-> Row(x[1])]
           Rec(f) == [more \in 0..MaxDepth |->
                        [g \in Graphs |->
                           ReportOf(m, g, IF more = 0 THEN AllTooDeep ELSE f[more - 1])]]
           R == Reports(m)
<1>1. MaxDepth \in Nat
  BY ModelAssumption
<1>2. AllTooDeep \in V
  BY DEF AllTooDeep, Reported, ReportRecords, ProblemSet
<1>3. ASSUME NEW inside \in V PROVE Row(inside) \in V
  <2>1. \A g \in Graphs : ReportOf(m, g, inside) \in ReportRecords(m)
    BY <1>3, ReportFacts
  <2>2. QED
    BY <2>1
<1> HIDE DEF Row
<1>4. step \in [V \X (1..MaxDepth) -> V]
  <2> HIDE DEF V
  <2>1. QED
    BY <1>3
<1>5. PICK f \in [0..MaxDepth -> V] : Follows(f, Row(AllTooDeep), step, MaxDepth)
  <2> HIDE DEF step, V
  <2>1. Row(AllTooDeep) \in V
    BY <1>2, <1>3
  <2>2. QED
    BY <1>1, <1>4, <2>1, RecursionExists
<1>6. f = Rec(f)
  <2>1. f[0] = Row(AllTooDeep)
    BY <1>5 DEF Follows
  <2>2. ASSUME NEW k \in 1..MaxDepth PROVE f[k] = Row(f[k - 1])
    <3>1. k - 1 \in 0..MaxDepth
      BY <1>1
    <3>2. <<f[k - 1], k>> \in V \X (1..MaxDepth)
      BY <1>5, <3>1
    <3>3. f[k] = step[<<f[k - 1], k>>]
      <4> HIDE DEF step
      <4>1. QED
        BY <1>5 DEF Follows
    <3> HIDE DEF V
    <3>4. QED
      BY <3>2, <3>3
  <2> HIDE DEF V
  <2>3. \A k \in 0..MaxDepth : f[k] = Row(IF k = 0 THEN AllTooDeep ELSE f[k - 1])
    <3>1. TAKE k \in 0..MaxDepth
    <3>2. CASE k = 0
      BY <3>2, <2>1
    <3>3. CASE k # 0
      <4>1. k \in 1..MaxDepth
        BY <1>1, <3>3
      <4>2. QED
        BY <3>3, <4>1, <2>2
    <3>4. QED
      BY <3>2, <3>3
  <2>4. f = [k \in 0..MaxDepth |-> f[k]]
    OBVIOUS
  <2>5. QED
    BY <2>3, <2>4, Zenon DEF Row
<1>7. R = Rec(R)
  BY <1>6, Zenon DEF Reports
<1> HIDE DEF R
<1>8. \A k \in 0..MaxDepth : R[k] = Row(IF k = 0 THEN AllTooDeep ELSE R[k - 1])
  BY <1>7, Zenon DEF Row
<1>9. \A k \in 0..MaxDepth : R[k] \in V
  <2> DEFINE Reached == {k \in Nat : k <= MaxDepth => R[k] \in V}
  <2> HIDE DEF V
  <2>1. 0 \in Reached
    <3>1. R[0] = Row(AllTooDeep)
      BY <1>1, <1>8
    <3>2. QED
      BY <1>2, <1>3, <3>1
  <2>2. ASSUME NEW k \in Nat, k \in Reached PROVE k + 1 \in Reached
    <3>1. SUFFICES ASSUME k + 1 <= MaxDepth PROVE R[k + 1] \in V
      OBVIOUS
    <3>2. k + 1 \in 0..MaxDepth /\ k + 1 # 0 /\ (k + 1) - 1 = k /\ k <= MaxDepth
      BY <1>1, <3>1
    <3>3. R[k + 1] = Row(R[k]) /\ R[k] \in V
      BY <1>8, <2>2, <3>2
    <3>4. QED
      BY <1>3, <3>3
  <2>3. Nat \subseteq Reached
    <3> HIDE DEF Reached
    <3>1. QED
      BY <2>1, <2>2, SetInduction
  <2>4. QED
    BY <1>1, <2>3
<1>10. ASSUME NEW more \in 0..MaxDepth
       PROVE  InsideReports(m, more) \in V /\ R[more] = Row(InsideReports(m, more))
  <2>1. CASE more = 0
    BY <2>1, <1>2, <1>8 DEF InsideReports
  <2>2. CASE more # 0
    <3>1. more - 1 \in 0..MaxDepth
      BY <1>1, <2>2
    <3>2. InsideReports(m, more) = R[more - 1]
      BY <2>2 DEF InsideReports, R
    <3>3. QED
      BY <2>2, <3>1, <3>2, <1>8, <1>9
  <2>3. QED
    BY <2>1, <2>2
<1>11. QED
  BY <1>9, <1>10 DEF R, Row

-----------------------------------------------------------------------------
(* The path of a frame is that of the frame it hangs below, and its name:  *)
(* parents come first, so that the paths are found one frame at a time.    *)
LEMMA PathsUnfold ==
  ASSUME NEW arena, Forest(arena)
  PROVE  /\ S!PathOf(arena)[0] = <<>>
         /\ \A i \in 1..Len(arena) :
              S!PathOf(arena)[i] = Append(S!PathOf(arena)[arena[i].parent], arena[i].name)
         /\ \A i \in 0..Len(arena) : S!PathOf(arena)[i] \in Seq(Names)
<1> DEFINE n == Len(arena)
           V == [0..n -> Seq(Names)]
           none == [i \in 0..n |-> <<>>]
           Longer(h, i) == Append(h[arena[i].parent], arena[i].name)
           Filled(h, i) == [h EXCEPT ![i] = Longer(h, i)]
           step == [x \in V \X (1..n) |-> Filled(x[1], x[2])]
           Rec(h) == [i \in 0..n |-> IF i = 0 THEN <<>> ELSE Append(h[arena[i].parent], arena[i].name)]
           Route == S!PathOf(arena)
<1>1. n \in Nat
  BY DEF Forest
<1>2. none \in V
  OBVIOUS
<1>3. \A i \in 1..n : arena[i].parent \in 0..n /\ arena[i].parent < i /\ arena[i].name \in Names
  BY <1>1, FrameFacts
<1>4. ASSUME NEW h \in V, NEW i \in 1..n PROVE Longer(h, i) \in Seq(Names) /\ Filled(h, i) \in V
  <2>1. h[arena[i].parent] \in Seq(Names) /\ arena[i].name \in Names
    BY <1>3
  <2>2. Longer(h, i) \in Seq(Names)
    BY <2>1, AppendProperties
  <2> HIDE DEF Longer
  <2>3. QED
    BY <2>2
<1>5. step \in [V \X (1..n) -> V]
  <2> HIDE DEF V, Filled
  <2>1. QED
    BY <1>4
<1>6. PICK f \in [0..n -> V] : Follows(f, none, step, n)
  <2> HIDE DEF step, V, none, n
  <2>1. QED
    BY <1>1, <1>2, <1>5, RecursionExists
<1>7. f[0] = none /\ \A k \in 1..n : f[k] = Filled(f[k - 1], k) /\ f[k - 1] \in V
  <2>1. f[0] = none
    BY <1>6 DEF Follows
  <2>2. ASSUME NEW k \in 1..n PROVE f[k] = Filled(f[k - 1], k) /\ f[k - 1] \in V
    <3>1. k - 1 \in 0..n
      BY <1>1
    <3> HIDE DEF V, Filled
    <3>2. f[k - 1] \in V /\ <<f[k - 1], k>> \in V \X (1..n)
      BY <1>6, <3>1
    <3>3. f[k] = step[<<f[k - 1], k>>]
      <4> HIDE DEF step
      <4>1. QED
        BY <1>6 DEF Follows
    <3>4. QED
      BY <3>2, <3>3
  <2>3. QED
    BY <2>1, <2>2
<1> HIDE DEF Longer, none, n
<1>8. ASSUME NEW k \in 1..n
      PROVE  /\ f[k][k] = Longer(f[k - 1], k)
             /\ \A i \in 0..n : i # k => f[k][i] = f[k - 1][i]
  <2> DEFINE old == f[k - 1]
             path == Longer(f[k - 1], k)
  <2>1. f[k] = [old EXCEPT ![k] = path] /\ old \in V
    BY <1>7
  <2>2. k \in 0..n /\ DOMAIN old = 0..n
    BY <1>1, <2>1
  <2> HIDE DEF old, path, V
  <2>3. f[k][k] = path /\ \A i \in 0..n : i # k => f[k][i] = old[i]
    BY <2>1, <2>2
  <2>4. QED
    BY <2>3 DEF old, path
(* A path that was found stays.                                             *)
<1>9. \A k \in 0..n : \A i \in 0..k : f[k][i] = f[i][i]
  <2> DEFINE T == {k \in Nat : k <= n => \A i \in 0..k : f[k][i] = f[i][i]}
  <2>1. 0 \in T
    OBVIOUS
  <2>2. ASSUME NEW k \in Nat, k \in T PROVE k + 1 \in T
    <3>1. SUFFICES ASSUME k + 1 <= n, NEW i \in 0..(k + 1) PROVE f[k + 1][i] = f[i][i]
      OBVIOUS
    <3>2. CASE i = k + 1
      BY <3>2
    <3>3. CASE i # k + 1
      <4>1. i \in 0..k /\ i \in 0..n /\ k + 1 \in 1..n /\ (k + 1) - 1 = k /\ k <= n
        BY <1>1, <3>1, <3>3
      <4>2. f[k + 1][i] = f[k][i]
        BY <1>8, <3>3, <4>1
      <4>3. f[k][i] = f[i][i]
        BY <2>2, <4>1
      <4>4. QED
        BY <4>2, <4>3
    <3>4. QED
      BY <3>2, <3>3
  <2>3. Nat \subseteq T
    <3> HIDE DEF T
    <3>1. QED
      BY <2>1, <2>2, SetInduction
  <2>4. QED
    BY <1>1, <2>3
<1> DEFINE h == f[n]
<1>10. h \in V
  <2>1. n \in 0..n
    BY <1>1
  <2>2. QED
    BY <1>6, <2>1, Zenon
<1>11. h[0] = <<>>
  <2>1. n \in 0..n /\ 0 \in 0..n
    BY <1>1
  <2>2. h[0] = f[0][0]
    BY <1>9, <2>1, Zenon
  <2>3. none[0] = <<>>
    BY <2>1, Zenon DEF none
  <2>4. QED
    BY <1>7, <2>2, <2>3, Zenon
<1>12. ASSUME NEW i \in 1..n PROVE h[i] = Append(h[arena[i].parent], arena[i].name)
  <2> DEFINE p == arena[i].parent
  <2>1. p \in 0..n /\ p \in 0..(i - 1) /\ i - 1 \in 0..n /\ i \in 0..n /\ n \in 0..n
    BY <1>1, <1>3
  <2>2. h[i] = f[i][i] /\ h[p] = f[p][p] /\ f[i - 1][p] = f[p][p]
    BY <1>9, <2>1
  <2>3. f[i][i] = Append(f[i - 1][p], arena[i].name)
    BY <1>8 DEF Longer
  <2>4. QED
    BY <2>2, <2>3
<1> HIDE DEF V
<1>13. h = Rec(h)
  <2> HIDE DEF h
  <2>1. \A i \in 0..n :
          h[i] = IF i = 0 THEN <<>> ELSE Append(h[arena[i].parent], arena[i].name)
    <3>1. TAKE i \in 0..n
    <3>2. CASE i = 0
      BY <3>2, <1>11
    <3>3. CASE i # 0
      <4>1. i \in 1..n
        BY <1>1, <3>3
      <4>2. QED
        BY <3>3, <4>1, <1>12
    <3>4. QED
      BY <3>2, <3>3
  <2>2. h = [i \in 0..n |-> h[i]]
    BY <1>10 DEF V
  <2>3. QED
    BY <2>1, <2>2, Zenon
<1>14. Route = Rec(Route)
  <2> HIDE DEF h
  <2>1. \E x : x = Rec(x)
    BY <1>13
  <2>2. QED
    BY <2>1, Zenon DEF S!PathOf, n
<1> HIDE DEF Route
<1>15. \A i \in 0..n :
         Route[i] = IF i = 0 THEN <<>> ELSE Append(Route[arena[i].parent], arena[i].name)
  BY <1>14, Zenon
<1>16. /\ Route[0] = <<>>
       /\ \A i \in 1..n : Route[i] = Append(Route[arena[i].parent], arena[i].name)
  <2>1. 0 \in 0..n /\ \A i \in 1..n : i \in 0..n /\ i # 0
    BY <1>1
  <2>2. QED
    BY <1>15, <2>1
<1>17. \A i \in 0..n : Route[i] \in Seq(Names)
  <2> DEFINE T == {k \in Nat : \A i \in 0..n : i <= k => Route[i] \in Seq(Names)}
  <2>1. 0 \in T
    <3>1. \A i \in 0..n : i <= 0 => i = 0
      BY <1>1
    <3>2. <<>> \in Seq(Names)
      OBVIOUS
    <3>3. QED
      BY <1>16, <3>1, <3>2
  <2>2. ASSUME NEW k \in Nat, k \in T PROVE k + 1 \in T
    <3>1. SUFFICES ASSUME NEW i \in 0..n, i <= k + 1 PROVE Route[i] \in Seq(Names)
      BY <2>2
    <3>2. CASE i <= k
      BY <2>2, <3>2
    <3>3. CASE i = k + 1
      <4>1. i \in 1..n /\ arena[i].parent \in 0..n /\ arena[i].parent <= k
        BY <1>1, <1>3, <3>3
      <4>2. Route[arena[i].parent] \in Seq(Names) /\ arena[i].name \in Names
        BY <1>3, <2>2, <4>1
      <4>3. Route[i] = Append(Route[arena[i].parent], arena[i].name)
        BY <1>16, <4>1
      <4> DEFINE up == Route[arena[i].parent]
                 name == arena[i].name
      <4>4. up \in Seq(Names) /\ name \in Names /\ Route[i] = Append(up, name)
        BY <4>2, <4>3
      <4> HIDE DEF up, name
      <4>5. QED
        BY <4>4, AppendProperties
    <3>4. QED
      BY <3>1, <3>2, <3>3, <1>1
  <2>3. Nat \subseteq T
    <3> HIDE DEF T
    <3>1. QED
      BY <2>1, <2>2, SetInduction
  <2>4. ASSUME NEW i \in 0..n PROVE Route[i] \in Seq(Names)
    <3>1. i \in T /\ i <= i
      BY <1>1, <2>3
    <3>2. QED
      BY <3>1
  <2>5. QED
    BY <2>4
<1>18. QED
  BY <1>16, <1>17 DEF Route, n

(* A frame that is pushed moves no path.                                   *)
LEMMA PathsKept ==
  ASSUME NEW arena, Forest(arena), NEW grown, Forest(grown), Len(grown) = Len(arena) + 1,
         \A i \in 1..Len(arena) : grown[i] = arena[i]
  PROVE  \A i \in 0..Len(arena) : S!PathOf(grown)[i] = S!PathOf(arena)[i]
<1> DEFINE n == Len(arena)
           Route == S!PathOf(arena)
           Q == S!PathOf(grown)
           T == {k \in Nat : \A i \in 0..n : i <= k => Q[i] = Route[i]}
<1>1. n \in Nat
  BY DEF Forest
<1>2. Route[0] = <<>> /\ \A i \in 1..n : Route[i] = Append(Route[arena[i].parent], arena[i].name)
  BY PathsUnfold
<1>3. Q[0] = <<>> /\ \A i \in 1..n : Q[i] = Append(Q[arena[i].parent], arena[i].name)
  <2>1. \A i \in 1..n : i \in 1..Len(grown) /\ grown[i] = arena[i]
    BY <1>1
  <2>2. QED
    BY <2>1, PathsUnfold
<1>4. \A i \in 1..n : arena[i].parent \in 0..n /\ arena[i].parent < i
  BY <1>1, FrameFacts
<1> HIDE DEF Route, Q
<1>5. 0 \in T
  <2>1. \A i \in 0..n : i <= 0 => i = 0
    BY <1>1
  <2>2. QED
    BY <1>2, <1>3, <2>1
<1>6. ASSUME NEW k \in Nat, k \in T PROVE k + 1 \in T
  <2>1. SUFFICES ASSUME NEW i \in 0..n, i <= k + 1 PROVE Q[i] = Route[i]
    BY <1>6
  <2>2. CASE i <= k
    BY <1>6, <2>2
  <2>3. CASE i = k + 1
    <3>1. i \in 1..n /\ arena[i].parent \in 0..n /\ arena[i].parent <= k
      BY <1>1, <1>4, <2>3
    <3>2. QED
      BY <1>2, <1>3, <1>6, <3>1
  <2>4. QED
    BY <2>1, <2>2, <2>3, <1>1
<1>7. Nat \subseteq T
  <2> HIDE DEF T
  <2>1. QED
    BY <1>5, <1>6, SetInduction
<1>8. ASSUME NEW i \in 0..n PROVE Q[i] = Route[i]
  <2>1. i \in T /\ i <= i
    BY <1>1, <1>7
  <2>2. QED
    BY <2>1
<1>9. QED
  BY <1>8 DEF Route, Q

-----------------------------------------------------------------------------
(* The heap walk reports what the definition by nesting reports.  What a   *)
(* waiting graph, or a node that is still to be looked at, will say is     *)
(* read off the reports; the answer is said by the first of them in the    *)
(* order in which the walk comes to them.                                  *)
Told(report, path) ==
  IF report.problem = Sound THEN Accepted ELSE Wrapped(report.problem, path \o report.path)

Result(m, arena, x) ==
  Told(Reports(m)[MaxDepth - S!DepthOf(arena, x.frame)][x.graph], S!PathOf(arena)[x.frame])

NodeResult(m, arena, sc, k) ==
  LET node == m.nodes[sc.graph][k]
  IN IF node.holds \in Graphs
     THEN Told(InsideReports(m, MaxDepth - S!DepthOf(arena, sc.frame))[node.holds],
               Append(S!PathOf(arena)[sc.frame], node.name))
     ELSE Accepted

AllFine(m, arena, list) == \A i \in 1..Len(list) : Result(m, arena, list[i]) = Accepted

(* The list is popped from its end.                                        *)
Pops(m, arena, list, a) ==
  \/ a = Accepted /\ AllFine(m, arena, list)
  \/ /\ a # Accepted
     /\ \E i \in 1..Len(list) :
          /\ Result(m, arena, list[i]) = a
          /\ \A j \in 1..Len(list) : j > i => Result(m, arena, list[j]) = Accepted

(* The nested graphs that were found come before those still to be found,  *)
(* and both before the list.                                               *)
NoneInScan(m, arena, sc) ==
  /\ AllFine(m, arena, sc.nested)
  /\ \A k \in 1..Len(m.nodes[sc.graph]) :
       k >= sc.next => NodeResult(m, arena, sc, k) = Accepted

FirstFound(m, arena, sc, a) ==
  \E i \in 1..Len(sc.nested) :
    /\ Result(m, arena, sc.nested[i]) = a
    /\ \A j \in 1..Len(sc.nested) : j < i => Result(m, arena, sc.nested[j]) = Accepted

FirstUnseen(m, arena, sc, a) ==
  /\ AllFine(m, arena, sc.nested)
  /\ \E k \in 1..Len(m.nodes[sc.graph]) :
       /\ k >= sc.next /\ NodeResult(m, arena, sc, k) = a
       /\ \A l \in 1..Len(m.nodes[sc.graph]) :
            l >= sc.next /\ l < k => NodeResult(m, arena, sc, l) = Accepted

Ahead(m, arena, list, sc, a) ==
  IF sc.next = 0 THEN Pops(m, arena, list, a)
  ELSE \/ a # Accepted /\ (FirstFound(m, arena, sc, a) \/ FirstUnseen(m, arena, sc, a))
       \/ NoneInScan(m, arena, sc) /\ Pops(m, arena, list, a)

AnswerInv ==
  /\ structure = S!NoVerdict =>
       /\ Ahead(model, frames, work, scan, StructureOf(model))
       /\ scan.nested # <<>> => S!ScanDepth < MaxDepth
  /\ structure # S!NoVerdict => structure = StructureOf(model)

LEMMA SameWrapped == \A problem, path : S!Wrapped(problem, path) = Wrapped(problem, path)
  BY SameWords DEF S!Wrapped, Wrapped

LEMMA ToldFacts ==
  ASSUME NEW report, NEW path
  PROVE  /\ report.problem = Sound <=> Told(report, path) = Accepted
         /\ report.problem # Sound =>
              Told(report, path) = Wrapped(report.problem, path \o report.path)
<1>1. ASSUME report.problem # Sound
      PROVE  Told(report, path) # Accepted
                /\ Told(report, path) = Wrapped(report.problem, path \o report.path)
  <2>1. Told(report, path) = Wrapped(report.problem, path \o report.path)
    BY <1>1, Zenon DEF Told
  <2>2. Wrapped(report.problem, path \o report.path).problem = report.problem
    BY Zenon DEF Wrapped
  <2>3. Accepted.problem = Sound
    BY Zenon DEF Accepted
  <2>4. QED
    BY <1>1, <2>1, <2>2, <2>3
<1>2. ASSUME report.problem = Sound PROVE Told(report, path) = Accepted
  BY <1>2, Zenon DEF Told
<1>3. QED
  BY <1>1, <1>2

LEMMA NamesJoined ==
  ASSUME NEW path \in Seq(Names), NEW n \in Names, NEW rest \in Seq(Names)
  PROVE  path \o (<<n>> \o rest) = Append(path, n) \o rest
<1> DEFINE one == <<n>>
<1>1. one \in Seq(Names) /\ Append(path, n) = path \o one
  OBVIOUS
<1> HIDE DEF one
<1>2. path \o (one \o rest) = (path \o one) \o rest
  BY <1>1
<1>3. QED
  BY <1>1, <1>2, Zenon DEF one

(* What a graph says is said by its own fault, or by its first node that   *)
(* says something.                                                         *)
LEMMA ResultSplits ==
  ASSUME NEW m \in Inputs, NEW arena, Forest(arena), NEW g \in Graphs,
         NEW f \in 0..Len(arena), S!DepthOf(arena, f) <= MaxDepth,
         NEW x, x.graph = g, x.frame = f, NEW sc, sc.graph = g, sc.frame = f
  PROVE  /\ LocalFault(m, g) # Sound =>
              Result(m, arena, x) = Wrapped(LocalFault(m, g), S!PathOf(arena)[f])
         /\ LocalFault(m, g) = Sound =>
              \/ /\ Result(m, arena, x) = Accepted
                 /\ \A k \in 1..Len(m.nodes[g]) : NodeResult(m, arena, sc, k) = Accepted
              \/ /\ Result(m, arena, x) # Accepted
                 /\ \E k \in 1..Len(m.nodes[g]) :
                      /\ NodeResult(m, arena, sc, k) = Result(m, arena, x)
                      /\ \A l \in 1..Len(m.nodes[g]) :
                           l < k => NodeResult(m, arena, sc, l) = Accepted
<1> DEFINE more == MaxDepth - S!DepthOf(arena, f)
           path == S!PathOf(arena)[f]
           inside == InsideReports(m, more)
           R == ReportOf(m, g, inside)
           node(k) == m.nodes[g][k]
           below(k) == inside[node(k).holds]
<1>1. more \in 0..MaxDepth
  BY DepthTyped, ModelAssumption
<1>2. path \in Seq(Names)
  BY PathsUnfold
<1> HIDE DEF more, path
<1>3. inside \in [Graphs -> ReportRecords(m)] /\ Reports(m)[more][g] = R
  BY <1>1, ReportsUnfold
<1>4. Result(m, arena, x) = Told(R, path)
  BY <1>3 DEF Result, more, path
<1>5. /\ Len(m.nodes[g]) \in Nat /\ Nested(m, g) \subseteq 1..Len(m.nodes[g])
      /\ \A k \in 1..Len(m.nodes[g]) :
           node(k).name \in Names /\ (node(k).holds \in Graphs <=> k \in Nested(m, g))
  BY ModelFacts DEF Nested
<1>6. ASSUME NEW k \in 1..Len(m.nodes[g])
      PROVE  /\ k \notin Nested(m, g) => NodeResult(m, arena, sc, k) = Accepted
             /\ k \in Nested(m, g) =>
                  NodeResult(m, arena, sc, k) = Told(below(k), Append(path, node(k).name))
  BY <1>5 DEF NodeResult, path, more
<1> DEFINE N == Nested(m, g)
           fault == LocalFault(m, g)
           length == Len(m.nodes[g])
           says(k) == NodeResult(m, arena, sc, k)
           all == Result(m, arena, x)
           name(k) == node(k).name
<1>7. fault # Sound => all = Wrapped(fault, path)
  <2>1. SUFFICES ASSUME fault # Sound PROVE all = Wrapped(fault, path)
    BY Zenon
  <2>2. R = Reported(fault, <<>>)
    BY <1>3, <2>1, ReportFacts, Zenon
  <2> HIDE DEF R, fault
  <2>3. R.problem = fault /\ R.path = <<>>
    BY <2>2, Zenon DEF Reported
  <2>4. path \o <<>> = path
    BY <1>2
  <2>5. Told(R, path) = Wrapped(R.problem, path \o R.path)
    BY <2>1, <2>3, ToldFacts, Zenon
  <2>6. QED
    BY <1>4, <2>3, <2>4, <2>5, Zenon
<1>8. \A k \in N : below(k).problem \in ProblemSet(m) /\ below(k).path \in Seq(Names)
  <2>1. TAKE k \in N
  <2>2. node(k).holds \in Graphs
    BY <1>5
  <2>3. below(k) \in ReportRecords(m)
    BY <1>3, <2>2
  <2>4. QED
    BY <2>3, RecordParts, Zenon
<1>9. fault = Sound =>
        IF \A k \in N : below(k).problem = Sound
        THEN R = Reported(Sound, <<>>)
        ELSE \E k \in N :
               /\ below(k).problem # Sound
               /\ \A l \in N : l < k => below(l).problem = Sound
               /\ R = Reported(below(k).problem, <<name(k)>> \o below(k).path)
  BY <1>3, ReportFacts, Zenon
<1>10. /\ N \subseteq 1..length
       /\ \A k \in 1..length : name(k) \in Names
       /\ \A k \in 1..length :
            /\ k \notin N => says(k) = Accepted
            /\ k \in N => says(k) = Told(below(k), Append(path, name(k)))
  BY <1>5, <1>6, Zenon
<1> HIDE DEF inside, R, N, fault, length, says, all, name, below
<1>11. \A k \in 1..length : (k \in N => below(k).problem = Sound) => says(k) = Accepted
  BY <1>10, ToldFacts, Zenon
<1>12. fault = Sound /\ (\A k \in N : below(k).problem = Sound) =>
         all = Accepted /\ \A k \in 1..length : says(k) = Accepted
  <2>1. SUFFICES ASSUME fault = Sound, \A k \in N : below(k).problem = Sound
                 PROVE  all = Accepted /\ \A k \in 1..length : says(k) = Accepted
    BY Zenon
  <2>2. R = Reported(Sound, <<>>)
    BY <1>9, <2>1, Zenon
  <2>3. R.problem = Sound
    BY <2>2, Zenon DEF Reported
  <2>4. all = Accepted
    BY <1>4, <2>3, ToldFacts, Zenon DEF all
  <2>5. QED
    BY <1>11, <2>1, <2>4, Zenon
<1>13. fault = Sound /\ ~ (\A k \in N : below(k).problem = Sound) =>
         /\ all # Accepted
         /\ \E k \in 1..length :
              says(k) = all /\ \A l \in 1..length : l < k => says(l) = Accepted
  <2>1. SUFFICES ASSUME fault = Sound, ~ (\A k \in N : below(k).problem = Sound)
                 PROVE  /\ all # Accepted
                        /\ \E k \in 1..length :
                             says(k) = all /\ \A l \in 1..length : l < k => says(l) = Accepted
    BY Zenon
  <2>2. PICK k \in N :
          /\ below(k).problem # Sound
          /\ \A l \in N : l < k => below(l).problem = Sound
          /\ R = Reported(below(k).problem, <<name(k)>> \o below(k).path)
    BY <1>9, <2>1, Zenon
  <2> DEFINE b == below(k)
             n == name(k)
             longer == Append(path, n)
  <2>3. n \in Names /\ b.path \in Seq(Names) /\ b.problem # Sound
    BY <1>8, <1>10, <2>2, Zenon
  <2>4. R.problem = b.problem /\ R.path = <<n>> \o b.path
    BY <2>2, Zenon DEF Reported
  <2> HIDE DEF b, n
  <2>5. path \o (<<n>> \o b.path) = longer \o b.path
    BY <1>2, <2>3, NamesJoined, Zenon
  <2>6. all # Accepted /\ all = Wrapped(b.problem, longer \o b.path)
    BY <1>4, <2>3, <2>4, <2>5, ToldFacts, Zenon DEF all
  <2>7. says(k) = all
    <3>1. says(k) = Told(b, longer)
      BY <1>10, <2>2, Zenon DEF b, n
    <3>2. Told(b, longer) = Wrapped(b.problem, longer \o b.path)
      BY <2>3, ToldFacts, Zenon
    <3>3. QED
      BY <2>6, <3>1, <3>2, Zenon
  <2>8. \A l \in 1..length : l < k => says(l) = Accepted
    BY <1>11, <2>2, Zenon
  <2>9. k \in 1..length
    BY <1>10, <2>2, Zenon
  <2>10. QED
    BY <2>6, <2>7, <2>8, <2>9, Zenon
<1>14. QED
  BY <1>7, <1>12, <1>13, Zenon DEF fault, all, says, length, path

(* Taking the last graph off the list: it gives the answer, or the rest    *)
(* does.                                                                   *)
LEMMA TopOrRest ==
  ASSUME NEW m, NEW arena, NEW list \in Seq(S!WorkItems), list # <<>>, NEW a,
         NEW rest, rest = SubSeq(list, 1, Len(list) - 1), Pops(m, arena, list, a)
  PROVE  \/ Result(m, arena, list[Len(list)]) = Accepted /\ Pops(m, arena, rest, a)
         \/ Result(m, arena, list[Len(list)]) # Accepted /\ a = Result(m, arena, list[Len(list)])
<1> DEFINE n == Len(list)
           says(i) == Result(m, arena, list[i])
<1>1. n \in Nat \ {0} /\ n \in 1..n
  BY EmptySeq, LenProperties
<1>2. Len(rest) = n - 1 /\ \A i \in 1..(n - 1) : rest[i] = list[i]
  BY AllButLast, Zenon
<1> HIDE DEF says
<1>3. CASE a = Accepted /\ AllFine(m, arena, list)
  <2>1. \A i \in 1..n : says(i) = Accepted
    BY <1>3 DEF AllFine, says
  <2>2. AllFine(m, arena, rest)
    BY <1>1, <1>2, <2>1 DEF AllFine, says
  <2>3. QED
    BY <1>1, <1>3, <2>1, <2>2 DEF Pops, says
<1>4. CASE a # Accepted /\ \E i \in 1..n : says(i) = a /\ \A j \in 1..n : j > i => says(j) = Accepted
  <2>1. PICK i \in 1..n : says(i) = a /\ \A j \in 1..n : j > i => says(j) = Accepted
    BY <1>4
  <2>2. CASE i = n
    BY <1>4, <2>1, <2>2 DEF says
  <2>3. CASE i # n
    <3>1. says(n) = Accepted /\ i \in 1..(n - 1)
      BY <1>1, <2>1, <2>3
    <3>2. i \in 1..Len(rest) /\ Result(m, arena, rest[i]) = a
      BY <1>2, <2>1, <3>1 DEF says
    <3>3. \A j \in 1..Len(rest) : j > i => Result(m, arena, rest[j]) = Accepted
      BY <1>1, <1>2, <2>1 DEF says
    <3>4. QED
      BY <1>4, <3>1, <3>2, <3>3 DEF Pops, says
  <2>4. QED
    BY <2>2, <2>3
<1>5. QED
  BY <1>3, <1>4 DEF Pops, says

(* What the walk's own facts are while it goes on.                         *)
LEMMA AheadFacts ==
  ASSUME HeapInv, AnswerInv, structure = S!NoVerdict
  PROVE  /\ TypeInv /\ model \in Inputs /\ Forest(frames) /\ Len(frames) \in Nat
         /\ \A i \in 0..Len(frames) : S!DepthOf(frames, i) \in 0..MaxDepth
         /\ Ahead(model, frames, work, scan, StructureOf(model))
         /\ scan.nested # <<>> => S!ScanDepth < MaxDepth
         /\ scan.next = 0 => scan.nested = <<>>
<1>1. TypeInv /\ model \in Inputs /\ Forest(frames) /\ Len(frames) \in Nat
  BY ScanFacts DEF HeapInv, TypeInv, StructureTyped
<1>2. PICK own \in [0..Len(frames) -> Graphs] : Walk(own)
  BY DEF HeapInv
<1>3. Explored(own) /\ Waits(own)
  BY <1>2 DEF Walk
<1>4. \A i \in 0..Len(frames) : S!DepthOf(frames, i) \in 0..MaxDepth
  BY <1>1, <1>3, DepthTyped, ModelAssumption DEF Explored
<1>5. QED
  BY <1>1, <1>3, <1>4 DEF AnswerInv, Waits

LEMMA PopAhead ==
  ASSUME HeapInv, AnswerInv, S!Popping, NEW rest, rest = SubSeq(work, 1, Len(work) - 1)
  PROVE  /\ S!Item \in S!WorkItems /\ S!Item.graph \in Graphs /\ S!Item.frame \in 0..Len(frames)
         /\ S!DepthOf(frames, S!Item.frame) <= MaxDepth
         /\ \/ /\ Result(model, frames, S!Item) = Accepted
               /\ Pops(model, frames, rest, StructureOf(model))
            \/ /\ Result(model, frames, S!Item) # Accepted
               /\ Result(model, frames, S!Item) = StructureOf(model)
<1>1. structure = S!NoVerdict /\ scan.next = 0 /\ work # <<>>
  BY DEF S!Popping
<1>2. /\ TypeInv /\ Pops(model, frames, work, StructureOf(model)) /\ Len(frames) \in Nat
      /\ \A i \in 0..Len(frames) : S!DepthOf(frames, i) \in 0..MaxDepth
  BY <1>1, AheadFacts DEF Ahead
<1>3. Items(work, Len(frames)) /\ work \in Seq(S!WorkItems)
  BY <1>2, NestedFrames DEF TypeInv, StructureTyped
<1>4. S!Item \in S!WorkItems /\ S!Item.frame <= Len(frames)
  BY <1>1, <1>2, <1>3, ItemsChange DEF S!Item
<1>5. S!Item.graph \in Graphs /\ S!Item.frame \in 0..Len(frames)
  BY <1>2, <1>4 DEF S!WorkItems
<1>6. S!DepthOf(frames, S!Item.frame) <= MaxDepth
  BY <1>2, <1>5, ModelAssumption
<1>7. S!Item = work[Len(work)]
  BY DEF S!Item
<1>8. QED
  BY <1>1, <1>2, <1>3, <1>4, <1>5, <1>6, <1>7, TopOrRest

LEMMA AnswerRejectLocal ==
  ASSUME HeapInv, AnswerInv, S!RejectLocal
  PROVE  structure' = StructureOf(model)
<1> DEFINE fault == LocalFault(model, S!Item.graph)
           path == S!PathOf(frames)[S!Item.frame]
<1>1. S!Popping /\ structure = S!NoVerdict
      /\ S!LocalFault(model, S!Item.graph) # S!Sound
      /\ structure' = S!Wrapped(S!LocalFault(model, S!Item.graph), path)
  BY Zenon DEF S!RejectLocal, S!Popping
<1>2. fault # Sound /\ structure' = Wrapped(fault, path)
  BY <1>1, SameFault, SameWords, SameWrapped, Zenon
<1>3. model \in Inputs /\ Forest(frames)
  BY <1>1, AheadFacts
<1>4. /\ S!Item.graph \in Graphs /\ S!Item.frame \in 0..Len(frames)
      /\ S!DepthOf(frames, S!Item.frame) <= MaxDepth
      /\ Result(model, frames, S!Item) # Accepted =>
           Result(model, frames, S!Item) = StructureOf(model)
  BY <1>1, PopAhead
<1>5. Result(model, frames, S!Item) = Wrapped(fault, path)
  BY <1>2, <1>3, <1>4, ResultSplits
<1>6. Wrapped(fault, path) # Accepted
  <2>1. Wrapped(fault, path).problem = fault /\ Accepted.problem = Sound
    BY Zenon DEF Wrapped, Accepted
  <2>2. QED
    BY <1>2, <2>1
<1>7. QED
  BY <1>2, <1>4, <1>5, <1>6

LEMMA AnswerVisit ==
  ASSUME HeapInv, AnswerInv, S!Visit
  PROVE  AnswerInv'
<1> DEFINE item == S!Item
           a == StructureOf(model)
<1>1. /\ S!Popping /\ S!LocalFault(model, item.graph) = S!Sound
      /\ work' = SubSeq(work, 1, Len(work) - 1)
      /\ scan' = [graph |-> item.graph, frame |-> item.frame, next |-> 1, nested |-> <<>>]
      /\ model' = model /\ frames' = frames /\ structure' = structure
      /\ structure = S!NoVerdict
  BY Zenon DEF S!Visit, S!Popping
<1>2. LocalFault(model, item.graph) = Sound
  BY <1>1, SameFault, SameWords, Zenon
<1>3. model \in Inputs /\ Forest(frames)
  BY <1>1, AheadFacts
<1>4. /\ item.graph \in Graphs /\ item.frame \in 0..Len(frames)
      /\ S!DepthOf(frames, item.frame) <= MaxDepth
      /\ \/ Result(model, frames, item) = Accepted /\ Pops(model, frames, work', a)
         \/ Result(model, frames, item) # Accepted /\ Result(model, frames, item) = a
  BY <1>1, PopAhead
<1> HIDE DEF item, a
<1>5. /\ scan'.graph = item.graph /\ scan'.frame = item.frame /\ scan'.next = 1
      /\ scan'.nested = <<>>
  BY <1>1
<1>6. AllFine(model, frames, scan'.nested)
  <2>1. Len(scan'.nested) = 0
    BY <1>5
  <2>2. QED
    BY <2>1 DEF AllFine
<1> DEFINE says(k) == NodeResult(model, frames, scan', k)
           n == Len(model.nodes[item.graph])
<1>7. \/ /\ Result(model, frames, item) = Accepted
         /\ \A k \in 1..n : says(k) = Accepted
      \/ /\ Result(model, frames, item) # Accepted
         /\ \E k \in 1..n : says(k) = Result(model, frames, item)
                              /\ \A l \in 1..n : l < k => says(l) = Accepted
  BY <1>2, <1>3, <1>4, <1>5, ResultSplits
<1> HIDE DEF says
<1>8. \A k \in 1..n : k >= 1
  BY <1>3, <1>4, ModelFacts
<1>9. Ahead(model, frames, work', scan', a)
  <2>1. CASE Result(model, frames, item) = Accepted
    <3>1. Pops(model, frames, work', a) /\ \A k \in 1..n : says(k) = Accepted
      BY <1>4, <1>7, <2>1
    <3>2. NoneInScan(model, frames, scan')
      BY <1>5, <1>6, <3>1 DEF NoneInScan, says
    <3>3. QED
      BY <1>5, <3>1, <3>2 DEF Ahead
  <2>2. CASE Result(model, frames, item) # Accepted
    <3>1. PICK k \in 1..n : says(k) = a /\ \A l \in 1..n : l < k => says(l) = Accepted
      BY <1>4, <1>7, <2>2
    <3>2. FirstUnseen(model, frames, scan', a)
      BY <1>5, <1>6, <1>8, <3>1 DEF FirstUnseen, says
    <3>3. QED
      BY <1>4, <1>5, <2>2, <3>2 DEF Ahead
  <2>3. QED
    BY <2>1, <2>2
<1>10. QED
  BY <1>1, <1>5, <1>9 DEF AnswerInv, a

(* Looking at the next node changes only the position in the graph.        *)
LEMMA AnswerSkipLeaf ==
  ASSUME HeapInv, AnswerInv, S!SkipLeaf
  PROVE  AnswerInv'
<1> DEFINE a == StructureOf(model)
           at == scan.next
           n == Len(model.nodes[scan.graph])
           says(k) == NodeResult(model, frames, scan, k)
<1>1. /\ S!Scanning /\ S!Node.holds \in Leaves /\ structure = S!NoVerdict /\ at > 0
      /\ scan' = [scan EXCEPT !.next = at + 1]
      /\ model' = model /\ frames' = frames /\ work' = work /\ structure' = structure
  BY DEF S!SkipLeaf, S!Scanning
<1>2. /\ TypeInv /\ model \in Inputs /\ Ahead(model, frames, work, scan, a)
      /\ scan.nested # <<>> => S!ScanDepth < MaxDepth
  BY <1>1, AheadFacts
<1>3. /\ scan.graph \in Graphs /\ at \in 1..n /\ at \in Nat /\ n \in Nat
      /\ S!Node = model.nodes[scan.graph][at]
      /\ scan = [graph |-> scan.graph, frame |-> scan.frame, next |-> at, nested |-> scan.nested]
  BY <1>1, <1>2, ScanFacts
<1>4. /\ scan'.graph = scan.graph /\ scan'.frame = scan.frame /\ scan'.next = at + 1
      /\ scan'.nested = scan.nested
  BY <1>1, <1>3
<1>5. says(at) = Accepted
  <2>1. S!Node.holds \notin Graphs
    BY <1>1, ModelAssumption
  <2>2. QED
    BY <1>3, <2>1 DEF NodeResult
<1>6. \A k : NodeResult(model, frames, scan', k) = says(k)
  BY <1>4 DEF NodeResult
<1> HIDE DEF says, a
<1>7. at + 1 # 0 /\ \A k \in 1..n : k >= at /\ k # at <=> k >= at + 1
  BY <1>3
<1>8. Ahead(model, frames, work, scan', a)
  <2>1. CASE FirstFound(model, frames, scan, a) /\ a # Accepted
    <3>1. FirstFound(model, frames, scan', a)
      BY <1>4, <2>1 DEF FirstFound
    <3>2. QED
      BY <1>4, <1>7, <2>1, <3>1 DEF Ahead
  <2>2. CASE FirstUnseen(model, frames, scan, a) /\ a # Accepted
    <3>1. PICK k \in 1..n :
            /\ k >= at /\ says(k) = a
            /\ \A l \in 1..n : l >= at /\ l < k => says(l) = Accepted
      BY <2>2 DEF FirstUnseen, says
    <3>2. k >= at + 1
      BY <1>5, <1>7, <2>2, <3>1
    <3>3. \A l \in 1..n : l >= at + 1 /\ l < k => says(l) = Accepted
      BY <1>7, <3>1
    <3>4. AllFine(model, frames, scan'.nested)
      BY <1>4, <2>2 DEF FirstUnseen
    <3>5. FirstUnseen(model, frames, scan', a)
      BY <1>4, <1>6, <3>1, <3>2, <3>3, <3>4 DEF FirstUnseen
    <3>6. QED
      BY <1>4, <1>7, <2>2, <3>5 DEF Ahead
  <2>3. CASE NoneInScan(model, frames, scan) /\ Pops(model, frames, work, a)
    <3>1. NoneInScan(model, frames, scan')
      BY <1>4, <1>6, <1>7, <2>3 DEF NoneInScan, says
    <3>2. QED
      BY <1>4, <1>7, <2>3, <3>1 DEF Ahead
  <2>4. at # 0
    BY <1>3
  <2>5. QED
    BY <1>2, <2>1, <2>2, <2>3, <2>4 DEF Ahead
<1>9. S!ScanDepth' = S!ScanDepth
  BY <1>1, <1>4 DEF S!ScanDepth
<1>10. QED
  BY <1>1, <1>2, <1>4, <1>8, <1>9 DEF AnswerInv, a

(* What is said of graphs with frames is said in the longer arena too.     *)
LEMMA PushKeepsResults ==
  ASSUME TypeInv, S!Scanning, S!PushesFrame
  PROVE  /\ \A i \in 0..Len(frames) : S!PathOf(frames')[i] = S!PathOf(frames)[i]
         /\ S!PathOf(frames')[Len(frames) + 1] =
              Append(S!PathOf(frames)[scan.frame], S!Node.name)
         /\ \A list : Items(list, Len(frames)) =>
              \A i \in 1..Len(list) :
                Result(model, frames', list[i]) = Result(model, frames, list[i])
         /\ \A sc : sc.graph = scan.graph /\ sc.frame = scan.frame =>
              \A k : NodeResult(model, frames', sc, k) = NodeResult(model, frames, scan, k)
<1> DEFINE n == Len(frames)
<1>1. Forest(frames) /\ Forest(frames') /\ Len(frames') = n + 1 /\ n \in Nat
      /\ scan.frame \in 0..n
  BY PushFacts, ScanFacts DEF TypeInv, StructureTyped
<1>2. /\ \A i \in 1..n : frames'[i] = frames[i]
      /\ frames'[n + 1] = [name |-> S!Node.name, parent |-> scan.frame, depth |-> S!ScanDepth + 1]
      /\ \A i \in 0..n : S!DepthOf(frames', i) = S!DepthOf(frames, i)
  BY PushFacts
<1> DEFINE was == frames
           now == frames'
<1> HIDE DEF was, now
<1>3. \A i \in 0..n : S!PathOf(frames')[i] = S!PathOf(frames)[i]
  <2>1. Forest(was) /\ Forest(now) /\ Len(now) = Len(was) + 1
        /\ \A i \in 1..Len(was) : now[i] = was[i]
    BY <1>1, <1>2 DEF was, now
  <2>2. \A i \in 0..Len(was) : S!PathOf(now)[i] = S!PathOf(was)[i]
    BY <2>1, PathsKept
  <2>3. QED
    BY <2>2 DEF was, now
<1>4. S!PathOf(frames')[n + 1] = Append(S!PathOf(frames)[scan.frame], S!Node.name)
  <2>1. Forest(now) /\ n + 1 \in 1..Len(now) /\ now[n + 1].parent = scan.frame
        /\ now[n + 1].name = S!Node.name
    BY <1>1, <1>2 DEF now
  <2>2. S!PathOf(now)[n + 1] = Append(S!PathOf(now)[scan.frame], S!Node.name)
    BY <2>1, PathsUnfold
  <2>3. QED
    BY <1>1, <1>3, <2>2 DEF now
<1>5. ASSUME NEW list, Items(list, n), NEW i \in 1..Len(list)
      PROVE  Result(model, frames', list[i]) = Result(model, frames, list[i])
  <2>1. list[i].frame \in 0..n
    <3>1. list[i] \in S!WorkItems /\ list[i].frame <= n
      BY <1>5 DEF Items
    <3>2. QED
      BY <1>1, <3>1 DEF S!WorkItems
  <2>2. QED
    BY <1>2, <1>3, <2>1 DEF Result
<1>6. ASSUME NEW sc, sc.graph = scan.graph, sc.frame = scan.frame, NEW k
      PROVE  NodeResult(model, frames', sc, k) = NodeResult(model, frames, scan, k)
  BY <1>1, <1>2, <1>3, <1>6 DEF NodeResult
<1>7. QED
  BY <1>3, <1>4, <1>5, <1>6

LEMMA AnswerPushNested ==
  ASSUME HeapInv, AnswerInv, S!PushNested
  PROVE  AnswerInv'
<1> DEFINE a == StructureOf(model)
           at == scan.next
           n == Len(model.nodes[scan.graph])
           f == Len(frames)
           x == [graph |-> S!Node.holds, frame |-> f + 1]
           found == scan.nested
           says(k) == NodeResult(model, frames, scan, k)
<1>1. /\ S!Scanning /\ S!Node.holds \in Graphs /\ S!ScanDepth < MaxDepth /\ S!PushesFrame
      /\ structure = S!NoVerdict /\ at > 0
      /\ scan' = [scan EXCEPT !.next = at + 1, !.nested = Append(found, x)]
      /\ model' = model /\ work' = work /\ structure' = structure
  BY DEF S!PushNested, S!Scanning, S!FrameIndex
<1>2. /\ TypeInv /\ model \in Inputs /\ Ahead(model, frames, work, scan, a) /\ f \in Nat
  BY <1>1, AheadFacts
<1>3. /\ scan.graph \in Graphs /\ at \in 1..n /\ at \in Nat /\ n \in Nat
      /\ S!Node = model.nodes[scan.graph][at] /\ scan.frame \in 0..f
      /\ scan = [graph |-> scan.graph, frame |-> scan.frame, next |-> at, nested |-> found]
      /\ S!ScanDepth \in Nat
  BY <1>1, <1>2, ScanFacts
<1>4. /\ scan'.graph = scan.graph /\ scan'.frame = scan.frame /\ scan'.next = at + 1
      /\ scan'.nested = Append(found, x)
  <2>1. scan' = [graph |-> scan.graph, frame |-> scan.frame, next |-> at + 1,
                 nested |-> Append(found, x)]
    BY <1>1, <1>3
  <2>2. QED
    BY <2>1
<1>5. /\ \A i \in 0..f : S!PathOf(frames')[i] = S!PathOf(frames)[i]
      /\ S!PathOf(frames')[f + 1] = Append(S!PathOf(frames)[scan.frame], S!Node.name)
      /\ \A list : Items(list, f) => \A i \in 1..Len(list) :
           Result(model, frames', list[i]) = Result(model, frames, list[i])
      /\ \A k : NodeResult(model, frames', scan', k) = says(k)
  BY <1>1, <1>2, <1>4, PushKeepsResults
<1>6. Items(work, f) /\ Items(found, f) /\ found \in Seq(S!WorkItems)
  BY <1>2 DEF TypeInv, StructureTyped, Items
<1>7. Result(model, frames', x) = says(at)
  <2> DEFINE more == MaxDepth - S!ScanDepth
  <2>1. S!DepthOf(frames', f + 1) = S!ScanDepth + 1 /\ S!DepthOf(frames, scan.frame) = S!ScanDepth
    BY <1>1, <1>2, PushFacts DEF S!ScanDepth
  <2>2. more \in Nat /\ more # 0 /\ MaxDepth - (S!ScanDepth + 1) = more - 1
    BY <1>1, <1>3, ModelAssumption
  <2>3. InsideReports(model, more) = Reports(model)[more - 1]
    BY <2>2 DEF InsideReports
  <2>4. x.graph = S!Node.holds /\ x.frame = f + 1
    OBVIOUS
  <2>5. Result(model, frames', x) =
          Told(Reports(model)[more - 1][S!Node.holds],
               Append(S!PathOf(frames)[scan.frame], S!Node.name))
    BY <1>5, <2>1, <2>2, <2>4 DEF Result
  <2> HIDE DEF more
  <2>6. says(at) = Told(InsideReports(model, more)[S!Node.holds],
                        Append(S!PathOf(frames)[scan.frame], S!Node.name))
    BY <1>1, <1>3, <2>1 DEF NodeResult, more
  <2>7. QED
    BY <2>3, <2>5, <2>6
<1> DEFINE m == Len(found)
<1>8. /\ m \in Nat /\ Len(scan'.nested) = m + 1 /\ scan'.nested[m + 1] = x
      /\ \A i \in 1..m : scan'.nested[i] = found[i]
  <2>1. x \in S!WorkItems
    BY <1>1, <1>2 DEF S!WorkItems
  <2> HIDE DEF x
  <2>2. QED
    BY <1>4, <1>6, <2>1
<1> HIDE DEF says, a, x, m, f
<1>9. at + 1 # 0 /\ (\A k \in 1..n : k >= at /\ k # at <=> k >= at + 1)
      /\ 1..(m + 1) = 1..m \cup {m + 1} /\ at # 0 /\ \A i \in 1..m : i < m + 1 /\ ~(m + 1 < i)
  BY <1>3, <1>8
<1>10. /\ \A i \in 1..m : Result(model, frames', scan'.nested[i]) = Result(model, frames, found[i])
       /\ Result(model, frames', scan'.nested[m + 1]) = says(at)
  BY <1>5, <1>6, <1>7, <1>8 DEF m
<1>11. \A b : Pops(model, frames, work, b) => Pops(model, frames', work, b)
  BY <1>5, <1>6 DEF Pops, AllFine
<1>12. AllFine(model, frames, found) /\ says(at) = Accepted =>
         AllFine(model, frames', scan'.nested)
  BY <1>8, <1>9, <1>10 DEF AllFine, m
<1>13. Ahead(model, frames', work, scan', a)
  <2>1. CASE FirstFound(model, frames, scan, a) /\ a # Accepted
    <3>1. PICK i \in 1..m :
            /\ Result(model, frames, found[i]) = a
            /\ \A j \in 1..m : j < i => Result(model, frames, found[j]) = Accepted
      BY <2>1 DEF FirstFound, m
    <3>2. \A j \in 1..(m + 1) : j < i => Result(model, frames', scan'.nested[j]) = Accepted
      BY <1>9, <1>10, <3>1
    <3>3. i \in 1..(m + 1) /\ Result(model, frames', scan'.nested[i]) = a
      BY <1>9, <1>10, <3>1
    <3>4. FirstFound(model, frames', scan', a)
      BY <1>8, <3>2, <3>3 DEF FirstFound
    <3>5. QED
      BY <1>4, <1>9, <2>1, <3>4 DEF Ahead
  <2>2. CASE FirstUnseen(model, frames, scan, a) /\ a # Accepted
    <3>1. PICK k \in 1..n :
            /\ k >= at /\ says(k) = a
            /\ \A l \in 1..n : l >= at /\ l < k => says(l) = Accepted
      BY <2>2 DEF FirstUnseen, says
    <3>2. \A j \in 1..m : Result(model, frames, found[j]) = Accepted
      BY <2>2 DEF FirstUnseen, AllFine, m
    <3>3. CASE k = at
      <4>1. \A j \in 1..(m + 1) : j < m + 1 => Result(model, frames', scan'.nested[j]) = Accepted
        BY <1>9, <1>10, <3>2
      <4>2. m + 1 \in 1..(m + 1) /\ Result(model, frames', scan'.nested[m + 1]) = a
        BY <1>8, <1>9, <1>10, <3>1, <3>3
      <4>3. FirstFound(model, frames', scan', a)
        BY <1>8, <4>1, <4>2 DEF FirstFound
      <4>4. QED
        BY <1>4, <1>9, <2>2, <4>3 DEF Ahead
    <3>4. CASE k # at
      <4>1. k >= at + 1 /\ at < k /\ at >= at
        BY <1>3, <1>9, <3>1, <3>4
      <4>2. says(at) = Accepted
        BY <1>3, <3>1, <4>1
      <4>3. \A l \in 1..n : l >= at + 1 /\ l < k => says(l) = Accepted
        BY <1>9, <3>1
      <4>4. AllFine(model, frames', scan'.nested)
        BY <1>12, <2>2, <4>2 DEF FirstUnseen
      <4>5. FirstUnseen(model, frames', scan', a)
        BY <1>4, <1>5, <3>1, <4>1, <4>3, <4>4 DEF FirstUnseen
      <4>6. QED
        BY <1>4, <1>9, <2>2, <4>5 DEF Ahead
    <3>5. QED
      BY <3>3, <3>4
  <2>3. CASE NoneInScan(model, frames, scan) /\ Pops(model, frames, work, a)
    <3>1. says(at) = Accepted
      <4>1. at >= at
        BY <1>3
      <4>2. QED
        BY <1>3, <2>3, <4>1 DEF NoneInScan, says
    <3>2. AllFine(model, frames', scan'.nested)
      BY <1>12, <2>3, <3>1 DEF NoneInScan
    <3>3. NoneInScan(model, frames', scan')
      BY <1>4, <1>5, <1>9, <2>3, <3>2 DEF NoneInScan, says
    <3>4. QED
      BY <1>4, <1>9, <1>11, <2>3, <3>3 DEF Ahead
  <2>4. QED
    BY <1>2, <1>9, <2>1, <2>2, <2>3 DEF Ahead
<1>14. S!ScanDepth' = S!ScanDepth
  BY <1>1, <1>2, <1>3, <1>4, PushFacts DEF S!ScanDepth, f
<1>15. QED
  BY <1>1, <1>13, <1>14 DEF AnswerInv, a

(* The first graph that is too deep is the first of its graph's nodes that *)
(* is a graph: none was found there before it.                             *)
LEMMA AnswerRejectDepth ==
  ASSUME HeapInv, AnswerInv, S!RejectDepth
  PROVE  structure' = StructureOf(model)
<1> DEFINE a == StructureOf(model)
           at == scan.next
           n == Len(model.nodes[scan.graph])
           path == Append(S!PathOf(frames)[scan.frame], S!Node.name)
           says(k) == NodeResult(model, frames, scan, k)
<1>1. /\ S!Scanning /\ S!Node.holds \in Graphs /\ S!ScanDepth >= MaxDepth /\ S!PushesFrame
      /\ structure = S!NoVerdict /\ at > 0
      /\ structure' = Wrapped(TooDeep, S!PathOf(frames')[Len(frames) + 1])
  BY SameWords, SameWrapped, Zenon DEF S!RejectDepth, S!Scanning, S!FrameIndex
<1>2. /\ TypeInv /\ model \in Inputs /\ Forest(frames) /\ Ahead(model, frames, work, scan, a)
      /\ \A i \in 0..Len(frames) : S!DepthOf(frames, i) \in 0..MaxDepth
      /\ scan.nested # <<>> => S!ScanDepth < MaxDepth
  BY <1>1, AheadFacts
<1>3. /\ scan.graph \in Graphs /\ at \in 1..n /\ at \in Nat /\ n \in Nat
      /\ S!Node = model.nodes[scan.graph][at] /\ scan.frame \in 0..Len(frames)
      /\ S!ScanDepth \in Nat /\ S!Node.name \in Names
  BY <1>1, <1>2, ScanFacts
<1>4. S!ScanDepth = MaxDepth /\ S!DepthOf(frames, scan.frame) = MaxDepth
  BY <1>1, <1>2, <1>3, ModelAssumption DEF S!ScanDepth
<1>5. scan.nested = <<>>
  BY <1>2, <1>3, <1>4, ModelAssumption
<1>6. structure' = Wrapped(TooDeep, path)
  BY <1>1, <1>2, PushKeepsResults
<1>7. says(at) = Wrapped(TooDeep, path) /\ says(at) # Accepted
  <2> DEFINE r == Reported(TooDeep, <<>>)
  <2>1. MaxDepth - MaxDepth = 0
    BY ModelAssumption
  <2>2. InsideReports(model, 0)[S!Node.holds] = r
    BY <1>1 DEF InsideReports, AllTooDeep
  <2>3. says(at) = Told(r, path)
    BY <1>1, <1>3, <1>4, <2>1, <2>2 DEF NodeResult
  <2>4. r.problem = TooDeep /\ r.path = <<>> /\ r.problem # Sound
    BY DepthNotSound DEF Reported
  <2>5. path \in Seq(Names)
    <3>1. S!PathOf(frames)[scan.frame] \in Seq(Names)
      BY <1>2, <1>3, PathsUnfold
    <3>2. QED
      BY <1>3, <3>1, AppendProperties
  <2> HIDE DEF r, path, says
  <2>6. path \o r.path = path
    BY <2>4, <2>5
  <2>7. QED
    BY <2>3, <2>4, <2>6, ToldFacts
<1> HIDE DEF says, path, a
<1>8. Len(scan.nested) = 0 /\ at # 0 /\ at >= at
  BY <1>3, <1>5
<1>9. says(at) = a
  <2>1. CASE FirstFound(model, frames, scan, a)
    BY <1>8, <2>1 DEF FirstFound
  <2>2. CASE FirstUnseen(model, frames, scan, a)
    <3>1. PICK k \in 1..n :
            /\ k >= at /\ says(k) = a
            /\ \A l \in 1..n : l >= at /\ l < k => says(l) = Accepted
      BY <2>2 DEF FirstUnseen, says
    <3>2. ~(at < k)
      BY <1>3, <1>7, <1>8, <3>1
    <3>3. k = at
      BY <1>3, <3>1, <3>2
    <3>4. QED
      BY <3>1, <3>3
  <2>3. CASE NoneInScan(model, frames, scan)
    BY <1>3, <1>7, <1>8, <2>3 DEF NoneInScan, says
  <2>4. QED
    BY <1>2, <1>8, <2>1, <2>2, <2>3 DEF Ahead
<1>10. QED
  BY <1>6, <1>7, <1>9 DEF a

(* The found graphs are put onto the list in reverse, so that the first of *)
(* them is popped first.                                                   *)
LEMMA AnswerExtendWork ==
  ASSUME HeapInv, AnswerInv, S!ExtendWork
  PROVE  AnswerInv'
<1> DEFINE a == StructureOf(model)
           found == scan.nested
           m == Len(work)
           n == Len(found)
           back == S!Waiting(found)
           says(x) == Result(model, frames, x)
<1>1. /\ structure = S!NoVerdict /\ scan.next > Len(S!Nodes)
      /\ work' = work \o back /\ scan' = S!Idle
      /\ model' = model /\ frames' = frames /\ structure' = structure
  BY DEF S!ExtendWork
<1>2. /\ TypeInv /\ model \in Inputs /\ Ahead(model, frames, work, scan, a)
  BY <1>1, AheadFacts
<1>3. /\ S!Nodes = model.nodes[scan.graph] /\ Len(S!Nodes) \in Nat /\ scan.next \in Nat
      /\ scan.next # 0
  BY <1>1, <1>2, ScanFacts
<1>4. scan'.next = 0 /\ scan'.nested = <<>>
  BY <1>1 DEF S!Idle
<1>5. work \in Seq(S!WorkItems) /\ found \in Seq(S!WorkItems) /\ m \in Nat /\ n \in Nat
  BY <1>2, NestedFrames, LenProperties
<1>6. Len(work') = m + n /\ (\A i \in 1..m : work'[i] = work[i])
      /\ \A i \in 1..n : work'[m + i] = found[n - i + 1]
  <2>1. back = [i \in 1..n |-> found[n - i + 1]]
    BY DEF S!Waiting, S!Reverse
  <2>2. back \in Seq(S!WorkItems) /\ Len(back) = n
    BY <1>5, <2>1
  <2> DEFINE b == back
  <2>3. b \in Seq(S!WorkItems) /\ Len(b) = n /\ work' = work \o b
    BY <1>1, <2>2
  <2> HIDE DEF b
  <2>4. /\ Len(work \o b) = m + n
        /\ \A i \in 1..m : (work \o b)[i] = work[i]
        /\ \A i \in 1..n : (work \o b)[m + i] = b[i]
    <3>1. ASSUME NEW s \in Seq(S!WorkItems), NEW t \in Seq(S!WorkItems)
          PROVE  /\ Len(s \o t) = Len(s) + Len(t)
                 /\ \A i \in 1..Len(s) : (s \o t)[i] = s[i]
                 /\ \A i \in 1..Len(t) : (s \o t)[Len(s) + i] = t[i]
      <4>1. Len(s) \in Nat /\ Len(t) \in Nat
        BY LenProperties
      <4>2. /\ Len(s \o t) = Len(s) + Len(t)
            /\ \A i \in 1..(Len(s) + Len(t)) :
                 (s \o t)[i] = IF i <= Len(s) THEN s[i] ELSE t[i - Len(s)]
        BY ConcatProperties
      <4>3. ASSUME NEW i \in 1..Len(s) PROVE (s \o t)[i] = s[i]
        BY <4>1, <4>2
      <4>4. ASSUME NEW i \in 1..Len(t) PROVE (s \o t)[Len(s) + i] = t[i]
        <5>1. Len(s) + i \in 1..(Len(s) + Len(t)) /\ ~(Len(s) + i <= Len(s))
              /\ (Len(s) + i) - Len(s) = i
          BY <4>1
        <5>2. QED
          BY <4>2, <5>1
      <4>5. QED
        BY <4>2, <4>3, <4>4
    <3>2. work \in Seq(S!WorkItems) /\ b \in Seq(S!WorkItems) /\ Len(work) = m /\ Len(b) = n
      BY <1>5, <2>3
    <3> HIDE DEF m, n, found
    <3>3. /\ Len(work \o b) = Len(work) + Len(b)
          /\ \A i \in 1..Len(work) : (work \o b)[i] = work[i]
          /\ \A i \in 1..Len(b) : (work \o b)[Len(work) + i] = b[i]
      BY <3>1, <3>2
    <3>4. QED
      BY <3>2, <3>3
  <2>5. \A i \in 1..n : b[i] = found[n - i + 1]
    BY <2>1 DEF b
  <2>6. QED
    BY <2>3, <2>4, <2>5
<1> HIDE DEF says, a, found, m, n, back
<1>7. \A i \in 1..(m + n) : i \in 1..m \/ (i - m \in 1..n /\ m + (i - m) = i)
  BY <1>5
<1>8. \A i \in 1..n : n - i + 1 \in 1..n /\ n - (n - i + 1) + 1 = i
                        /\ m + (n - i + 1) \in 1..(m + n)
  BY <1>5
<1>9. Pops(model, frames, work', a)
  <2>1. CASE FirstFound(model, frames, scan, a) /\ a # Accepted
    <3>1. PICK i \in 1..n :
            says(found[i]) = a /\ \A j \in 1..n : j < i => says(found[j]) = Accepted
      BY <2>1 DEF FirstFound, says, found, n
    <3> DEFINE k == m + (n - i + 1)
    <3>2. k \in 1..(m + n) /\ work'[k] = found[i]
      BY <1>6, <1>8
    <3>3. ASSUME NEW j \in 1..(m + n), j > k PROVE says(work'[j]) = Accepted
      <4>1. j - m \in 1..n /\ m + (j - m) = j /\ n - (j - m) + 1 < i
        BY <1>5, <3>3
      <4>2. work'[j] = found[n - (j - m) + 1] /\ n - (j - m) + 1 \in 1..n
        BY <1>6, <1>8, <4>1
      <4>3. QED
        BY <3>1, <4>1, <4>2
    <3> HIDE DEF k
    <3>4. QED
      BY <1>6, <2>1, <3>1, <3>2, <3>3 DEF Pops, says
  <2>2. CASE NoneInScan(model, frames, scan) /\ Pops(model, frames, work, a)
    <3>1. \A i \in 1..n : says(found[i]) = Accepted
      BY <2>2 DEF NoneInScan, AllFine, says, found, n
    <3>2. ASSUME NEW j \in 1..(m + n), ~(j \in 1..m) PROVE says(work'[j]) = Accepted
      <4>1. j - m \in 1..n /\ m + (j - m) = j
        BY <1>7, <3>2
      <4>2. work'[j] = found[n - (j - m) + 1] /\ n - (j - m) + 1 \in 1..n
        BY <1>6, <1>8, <4>1
      <4>3. QED
        BY <3>1, <4>2
    <3>3. CASE a = Accepted /\ AllFine(model, frames, work)
      <4>1. \A i \in 1..m : says(work[i]) = Accepted
        BY <3>3 DEF AllFine, says, m
      <4>2. \A i \in 1..(m + n) : says(work'[i]) = Accepted
        BY <1>6, <3>2, <4>1
      <4>3. QED
        BY <1>6, <3>3, <4>2 DEF Pops, AllFine, says
    <3>4. CASE /\ a # Accepted
               /\ \E i \in 1..m : says(work[i]) = a
                                    /\ \A j \in 1..m : j > i => says(work[j]) = Accepted
      <4>1. PICK i \in 1..m : says(work[i]) = a
                                /\ \A j \in 1..m : j > i => says(work[j]) = Accepted
        BY <3>4
      <4>2. i \in 1..(m + n) /\ says(work'[i]) = a
        BY <1>5, <1>6, <4>1
      <4>3. \A j \in 1..(m + n) : j > i => says(work'[j]) = Accepted
        BY <1>6, <3>2, <4>1
      <4>4. QED
        BY <1>6, <3>4, <4>2, <4>3 DEF Pops, says
    <3>5. QED
      BY <2>2, <3>3, <3>4 DEF Pops, says, m
  <2>3. ~FirstUnseen(model, frames, scan, a)
    BY <1>1, <1>3 DEF FirstUnseen
  <2>4. QED
    BY <1>2, <1>3, <2>1, <2>2, <2>3 DEF Ahead
<1>10. QED
  BY <1>1, <1>4, <1>9 DEF AnswerInv, Ahead, a

LEMMA AnswerAccept ==
  ASSUME HeapInv, AnswerInv, S!Accept
  PROVE  structure' = StructureOf(model)
<1>1. structure = S!NoVerdict /\ scan.next = 0 /\ work = <<>> /\ structure' = Accepted
  BY SameWords DEF S!Accept
<1>2. Pops(model, frames, work, StructureOf(model))
  BY <1>1, AheadFacts DEF Ahead
<1>3. Len(work) = 0
  BY <1>1
<1>4. QED
  BY <1>1, <1>2, <1>3 DEF Pops

LEMMA AnswerInit == Init => AnswerInv
<1>1. SUFFICES ASSUME Init PROVE AnswerInv
  OBVIOUS
<1>2. PICK m \in Inputs, e \in {"graph", "node"} : S!StartOn(m) /\ P!StartOn(m, e)
  BY <1>1 DEF Init
<1>3. /\ model \in Inputs /\ frames = <<>> /\ scan = S!Idle
      /\ work = <<[graph |-> Top, frame |-> 0]>> /\ structure = S!NoVerdict
  BY <1>2, Zenon DEF S!StartOn
<1> DEFINE x == [graph |-> Top, frame |-> 0]
           top == Reports(model)[MaxDepth][Top]
<1>4. Len(work) = 1 /\ work[1] = x
  BY <1>3
<1>5. top.path \in Seq(Names)
  <2>1. MaxDepth \in 0..MaxDepth /\ Top \in Graphs
    BY ModelAssumption
  <2>2. top \in ReportRecords(model)
    BY <1>3, <2>1, ReportsUnfold
  <2>3. QED
    BY <2>2 DEF ReportRecords
<1>6. S!PathOf(frames)[0] = <<>> /\ S!DepthOf(frames, 0) = 0
  <2>1. Forest(frames)
    BY <1>1, TypeInit DEF TypeInv, StructureTyped
  <2>2. QED
    BY <2>1, PathsUnfold DEF S!DepthOf
<1> HIDE DEF top
<1>7. Result(model, frames, x) = Told(top, <<>>)
  BY <1>6, ModelAssumption DEF Result, top
<1>8. Told(top, <<>>) = StructureOf(model)
  <2>1. <<>> \o top.path = top.path
    BY <1>5
  <2>2. QED
    BY <2>1, Zenon DEF Told, StructureOf, top
<1> HIDE DEF x
<1>9. Pops(model, frames, work, StructureOf(model))
  <2>1. \A i \in 1..Len(work) : work[i] = x
    BY <1>4
  <2>2. 1 \in 1..Len(work) /\ \A j \in 1..Len(work) : ~(j > 1)
    BY <1>4
  <2>3. QED
    BY <1>7, <1>8, <2>1, <2>2 DEF Pops, AllFine
<1>10. scan.next = 0 /\ scan.nested = <<>>
  BY <1>3 DEF S!Idle
<1>11. QED
  BY <1>3, <1>9, <1>10 DEF AnswerInv, Ahead

LEMMA AnswerNext == HeapInv /\ AnswerInv /\ [Next]_vars => AnswerInv'
<1> SUFFICES ASSUME HeapInv, AnswerInv, [Next]_vars PROVE AnswerInv'
  OBVIOUS
<1>1. ASSUME structure' = StructureOf(model), model' = model, structure' # S!NoVerdict
      PROVE  AnswerInv'
  BY <1>1 DEF AnswerInv
<1>2. ASSUME structure' = structure, model' = model, frames' = frames, work' = work, scan' = scan
      PROVE  AnswerInv'
  BY <1>2 DEF AnswerInv, S!ScanDepth
<1>3. CASE S!RejectLocal
  <2>1. structure' # S!NoVerdict
    <3>1. /\ structure' = S!Wrapped(S!LocalFault(model, S!Item.graph), S!PathOf(frames)[S!Item.frame])
          /\ LocalFault(model, S!Item.graph) # Sound
      BY <1>3, SameFault, SameWords, Zenon DEF S!RejectLocal
    <3>2. QED
      BY <3>1, SameFault, ProblemReported
  <2>2. model' = model
    BY <1>3 DEF S!RejectLocal
  <2>3. QED
    BY <1>1, <1>3, <2>1, <2>2, AnswerRejectLocal
<1>4. CASE S!RejectDepth
  <2>1. structure' # S!NoVerdict
    <3>1. structure' = S!Wrapped(TooDeep, S!PathOf(frames')[S!FrameIndex])
      BY <1>4, SameWords, Zenon DEF S!RejectDepth
    <3>2. QED
      BY <3>1, DepthNotSound, ProblemReported
  <2>2. model' = model
    BY <1>4 DEF S!RejectDepth
  <2>3. QED
    BY <1>1, <1>4, <2>1, <2>2, AnswerRejectDepth
<1>5. CASE S!Accept
  <2>1. structure' # S!NoVerdict /\ model' = model
    <3>1. structure' = Accepted /\ model' = model
      BY <1>5, SameWords DEF S!Accept
    <3>2. Accepted.variant = "Ok" /\ S!NoVerdict.variant = "none"
      BY DEF Accepted, S!NoVerdict
    <3>3. QED
      BY <3>1, <3>2
  <2>2. QED
    BY <1>1, <1>5, <2>1, AnswerAccept
<1>6. CASE ValidateStructure
  BY <1>3, <1>4, <1>5, <1>6, AnswerVisit, AnswerSkipLeaf, AnswerPushNested, AnswerExtendWork
     DEF ValidateStructure, S!Next
<1>7. CASE ValidateParameters
  <2>1. structure' = structure /\ frames' = frames /\ work' = work /\ scan' = scan
    BY <1>7 DEF ValidateParameters
  <2>2. model' = model
    BY <1>7 DEF ValidateParameters, P!Next, P!EnterNested, P!RejectDeep, P!PassNode, P!RejectNode,
                P!Return, P!Accept
  <2>3. QED
    BY <1>2, <2>1, <2>2
<1>8. CASE UNCHANGED vars
  BY <1>2, <1>8 DEF vars
<1>9. QED
  BY <1>6, <1>7, <1>8 DEF Next

(* The walk over the heap, which keeps no path and pushes the nested       *)
(* graphs in reverse, returns what the recursive definition returns, with  *)
(* its path, for graphs of any shape and any limit.                        *)
THEOREM HeapWalkIsRecursive == Spec => []StructureAsRecursive
<1>1. AnswerInv => StructureAsRecursive
  BY DEF AnswerInv, StructureAsRecursive
<1>2. HeapInv /\ AnswerInv /\ [Next]_vars => HeapInv' /\ AnswerInv'
  BY HeapNext, AnswerNext
<1>3. QED
  BY HeapInit, AnswerInit, <1>1, <1>2, PTL DEF Spec

-----------------------------------------------------------------------------
(* The checks of a node, made one after the other: nothing is reported     *)
(* exactly when all the conditions hold.                                   *)
Errors ==
  {"Groups", "WeightRank", "WeightExtentPositive", "ChannelGroupDivisibility", "BiasRank",
   "BiasLength", "ExtentSign", "ExtentArity", "ExtentDType", "ExtentRank"}
Fields == {"groups", "weight", "stride", "dilation", "padding", "bias", "kernel_size"}
CheckReports == [error : Errors, field : Fields]

LEMMA OneCheck ==
  ASSUME NEW bad \in BOOLEAN, NEW error \in Errors, NEW field \in Fields
  PROVE  /\ Report(bad, error, field) \in Seq(CheckReports)
         /\ Report(bad, error, field) = Fine <=> ~bad
<1> DEFINE r == [error |-> error, field |-> field]
<1>1. r \in CheckReports
  BY DEF CheckReports
<1> HIDE DEF r
<1>2. <<r>> \in Seq(CheckReports) /\ <<r>> # <<>>
  BY <1>1
<1>3. CASE bad
  <2>1. Report(bad, error, field) = <<r>>
    BY <1>3 DEF Report, r
  <2>2. QED
    BY <1>2, <1>3, <2>1 DEF Fine
<1>4. CASE ~bad
  BY <1>4 DEF Report, Fine
<1>5. QED
  BY <1>3, <1>4

LEMMA ChecksJoined ==
  ASSUME NEW a \in Seq(CheckReports), NEW b \in Seq(CheckReports)
  PROVE  /\ a \o b \in Seq(CheckReports)
         /\ a \o b = Fine <=> a = Fine /\ b = Fine
<1>1. /\ a \o b \in Seq(CheckReports) /\ Len(a \o b) = Len(a) + Len(b)
      /\ Len(a) \in Nat /\ Len(b) \in Nat
  OBVIOUS
<1>2. \A s \in Seq(CheckReports) : s = <<>> <=> Len(s) = 0
  OBVIOUS
<1>3. a \o b = <<>> <=> Len(a) + Len(b) = 0
  BY <1>1, <1>2
<1>4. a = <<>> <=> Len(a) = 0
  BY <1>2
<1>5. b = <<>> <=> Len(b) = 0
  BY <1>2
<1>6. QED
  BY <1>1, <1>3, <1>4, <1>5 DEF Fine

LEMMA FirstOfChecks ==
  ASSUME NEW reports \in Seq(CheckReports)
  PROVE  First(reports).error = "none" <=> reports = Fine
<1>1. CASE reports = <<>>
  <2>1. First(reports) = [error |-> "none", field |-> 0]
    BY <1>1 DEF First
  <2>2. QED
    BY <1>1, <2>1 DEF Fine
<1>2. CASE reports # <<>>
  <2>1. First(reports) = reports[1] /\ reports[1] \in CheckReports
    BY <1>2 DEF First
  <2>2. "none" \notin Errors
    BY DEF Errors
  <2>3. QED
    BY <1>2, <2>1, <2>2 DEF CheckReports, Fine
<1>3. QED
  BY <1>1, <1>2

LEMMA SignsChecked ==
  ASSUME NEW extents \in Seq(Int), NEW least \in Int, NEW field \in Fields
  PROVE  /\ ExtentValues(field, extents, least) \in Seq(CheckReports)
         /\ ExtentValues(field, extents, least) = Fine <=>
              \A i \in DOMAIN extents : extents[i] >= least
<1>1. "ExtentSign" \in Errors
  BY DEF Errors
<1>2. WrongSigns(extents, least) # {} <=> ~\A i \in DOMAIN extents : extents[i] >= least
  BY DEF WrongSigns
<1> DEFINE bad == WrongSigns(extents, least) # {}
<1>3. bad \in BOOLEAN /\ ExtentValues(field, extents, least) = Report(bad, "ExtentSign", field)
  BY DEF ExtentValues
<1> HIDE DEF bad
<1>4. /\ ExtentValues(field, extents, least) \in Seq(CheckReports)
      /\ ExtentValues(field, extents, least) = Fine <=> ~bad
  BY <1>1, <1>3, OneCheck
<1>5. QED
  BY <1>2, <1>4 DEF bad

LEMMA ExtentsChecked ==
  ASSUME NEW extents \in Seq(Int), NEW arities, NEW least \in Int, NEW field \in Fields
  PROVE  /\ VecExtents(field, extents, arities, least) \in Seq(CheckReports)
         /\ VecExtents(field, extents, arities, least) = Fine <=>
              ExtentsLegal(extents, arities, least)
<1> DEFINE bad == Len(extents) \notin arities
           a == Report(bad, "ExtentArity", field)
           b == ExtentValues(field, extents, least)
<1>1. a \in Seq(CheckReports) /\ (a = Fine <=> ~bad)
  <2>1. bad \in BOOLEAN /\ "ExtentArity" \in Errors
    BY DEF Errors
  <2> HIDE DEF bad
  <2>2. QED
    BY <2>1, OneCheck
<1>2. b \in Seq(CheckReports) /\ (b = Fine <=> \A i \in DOMAIN extents : extents[i] >= least)
  BY SignsChecked
<1>3. VecExtents(field, extents, arities, least) = a \o b
  BY DEF VecExtents
<1> HIDE DEF a, b
<1>4. a \o b \in Seq(CheckReports) /\ (a \o b = Fine <=> a = Fine /\ b = Fine)
  BY <1>1, <1>2, ChecksJoined
<1>5. QED
  BY <1>1, <1>2, <1>3, <1>4 DEF ExtentsLegal

LEMMA PaddingChecked ==
  ASSUME NEW padding, padding.extents \in Seq(Int), NEW arities
  PROVE  /\ PaddingExtents(padding, arities) \in Seq(CheckReports)
         /\ PaddingExtents(padding, arities) = Fine <=>
              (padding.mode = "explicit" => ExtentsLegal(padding.extents, arities, 0))
<1>1. CASE padding.mode = "explicit"
  <2>1. PaddingExtents(padding, arities) = VecExtents("padding", padding.extents, arities, 0)
    BY <1>1 DEF PaddingExtents
  <2>2. "padding" \in Fields
    BY DEF Fields
  <2>3. QED
    BY <1>1, <2>1, <2>2, ExtentsChecked
<1>2. CASE padding.mode # "explicit"
  <2>1. PaddingExtents(padding, arities) = Fine /\ Fine \in Seq(CheckReports)
    BY <1>2 DEF PaddingExtents, Fine
  <2>2. QED
    BY <1>2, <2>1
<1>3. QED
  BY <1>1, <1>2

(* A number is a multiple of another exactly when the remainder is zero.   *)
LEMMA Divides ==
  ASSUME NEW w \in Nat, w >= 1, NEW g \in Int, g >= 1
  PROVE  w % g = 0 <=> \E each \in 1..w : each * g = w
<1> DEFINE q == w \div g
           r == w % g
<1>1. q \in Int /\ r \in 0..(g - 1) /\ w = g * q + r
  OBVIOUS
<1> HIDE DEF q, r
<1>2. ASSUME r = 0 PROVE \E each \in 1..w : each * g = w
  <2>1. w = g * q /\ q * g = w
    BY <1>1, <1>2
  <2>2. q >= 1
    BY <1>1, <2>1
  <2>3. q <= w
    BY <1>1, <2>1, <2>2
  <2>4. QED
    BY <1>1, <2>1, <2>2, <2>3
<1>3. ASSUME NEW each \in 1..w, each * g = w PROVE r = 0
  <2>1. g * (each - q) = r /\ each - q \in Int
    BY <1>1, <1>3
  <2> DEFINE d == each - q
  <2>2. d \in Int /\ g * d = r
    BY <2>1
  <2> HIDE DEF d
  <2>3. d >= 1 => g * d >= g
    BY <2>2
  <2>4. d <= -1 => g * d <= -g
    BY <2>2
  <2>5. QED
    BY <1>1, <2>2, <2>3, <2>4
<1>4. QED
  BY <1>2, <1>3 DEF r

LEMMA ConvKinds ==
  ASSUME NEW c, IsConv(c)
  PROVE  WeightRank[c.kind] \in {3, 4}
  BY DEF IsConv, WeightRank

(* What follows the conditions on the weight, each on its own.             *)
LEMMA SpatialChecked ==
  ASSUME NEW c \in Leaves, IsConv(c), c.groups >= 1, Len(c.weight) = WeightRank[c.kind],
         \A axis \in DOMAIN c.weight : c.weight[axis] >= 1
  PROVE  /\ ConvSpatial(c) \in Seq(CheckReports)
         /\ ConvSpatial(c) = Fine <=> ConvLegal(c)
<1> DEFINE arities == Arities[c.kind]
           w == c.weight[1]
           divides == w % c.groups = 0
           rank == Len(c.bias) = 1
           same == rank => c.bias[1] = w
           r1 == Report(~divides, "ChannelGroupDivisibility", "weight")
           r2 == VecExtents("stride", c.stride, arities, 1)
           r3 == VecExtents("dilation", c.dilation, arities, 1)
           r4 == PaddingExtents(c.padding, arities)
           r5 == Report(~rank, "BiasRank", "bias")
           r6 == Report(~same, "BiasLength", "bias")
<1>1. /\ c.groups \in Int /\ c.weight \in Seq(Nat) /\ c.bias \in Seq(Nat)
      /\ c.stride \in Seq(Int) /\ c.dilation \in Seq(Int) /\ c.padding.extents \in Seq(Int)
  BY LeafAssumption
<1>2. w \in Nat /\ w >= 1
  <2>1. Len(c.weight) \in {3, 4}
    BY ConvKinds
  <2>2. 1 \in DOMAIN c.weight
    BY <1>1, <2>1
  <2>3. QED
    BY <1>1, <2>2
<1>3. divides <=> \E each \in 1..w : each * c.groups = w
  <2> DEFINE g == c.groups
  <2>1. g \in Int /\ g >= 1
    BY <1>1
  <2> HIDE DEF w, g
  <2>2. w % g = 0 <=> \E each \in 1..w : each * g = w
    BY <1>2, <2>1, Divides
  <2>3. QED
    BY <2>2 DEF g
<1>4. same <=> ~(Len(c.bias) = 1 /\ c.bias # <<w>>)
  <2>1. Len(c.bias) = 1 => (c.bias = <<w>> <=> c.bias[1] = w)
    BY <1>1
  <2>2. QED
    BY <2>1
<1>5. ConvSpatial(c) = r1 \o r2 \o r3 \o r4 \o r5 \o r6
  <2>1. /\ divides \in BOOLEAN /\ (~divides) = (w % c.groups # 0)
        /\ (~rank) = (Len(c.bias) # 1)
        /\ (~same) = (Len(c.bias) = 1 /\ c.bias # <<w>>)
    BY <1>4
  <2>2. r1 = Report(w % c.groups # 0, "ChannelGroupDivisibility", "weight")
    BY <2>1
  <2>3. r5 = Report(Len(c.bias) # 1, "BiasRank", "bias")
    BY <2>1
  <2>4. r6 = Report(Len(c.bias) = 1 /\ c.bias # <<w>>, "BiasLength", "bias")
    BY <2>1
  <2> HIDE DEF r1, r2, r3, r4, r5, r6
  <2>5. QED
    BY <2>2, <2>3, <2>4 DEF ConvSpatial, r2, r3, r4
<1>6. /\ "ChannelGroupDivisibility" \in Errors /\ "BiasRank" \in Errors /\ "BiasLength" \in Errors
      /\ {"weight", "stride", "dilation", "bias"} \subseteq Fields
  BY DEF Errors, Fields
<1> HIDE DEF divides, rank, same, arities, w
<1>7. r1 \in Seq(CheckReports) /\ (r1 = Fine <=> divides)
  <2>1. (~divides) \in BOOLEAN
    BY DEF divides
  <2>2. QED
    BY <1>6, <2>1, OneCheck
<1>8. r2 \in Seq(CheckReports) /\ (r2 = Fine <=> ExtentsLegal(c.stride, arities, 1))
  BY <1>1, <1>6, ExtentsChecked
<1>9. r3 \in Seq(CheckReports) /\ (r3 = Fine <=> ExtentsLegal(c.dilation, arities, 1))
  BY <1>1, <1>6, ExtentsChecked
<1>10. /\ r4 \in Seq(CheckReports)
       /\ r4 = Fine <=> (c.padding.mode = "explicit" => ExtentsLegal(c.padding.extents, arities, 0))
  BY <1>1, PaddingChecked
<1>11. r5 \in Seq(CheckReports) /\ (r5 = Fine <=> rank)
  <2>1. (~rank) \in BOOLEAN
    BY DEF rank
  <2>2. QED
    BY <1>6, <2>1, OneCheck
<1>12. r6 \in Seq(CheckReports) /\ (r6 = Fine <=> same)
  <2>1. (~same) \in BOOLEAN
    BY DEF same
  <2>2. QED
    BY <1>6, <2>1, OneCheck
<1> HIDE DEF r1, r2, r3, r4, r5, r6
<1>13. /\ ConvSpatial(c) \in Seq(CheckReports)
       /\ ConvSpatial(c) = Fine <=>
            r1 = Fine /\ r2 = Fine /\ r3 = Fine /\ r4 = Fine /\ r5 = Fine /\ r6 = Fine
  <2>1. r1 \o r2 \in Seq(CheckReports) /\ (r1 \o r2 = Fine <=> r1 = Fine /\ r2 = Fine)
    BY <1>7, <1>8, ChecksJoined
  <2>2. /\ r1 \o r2 \o r3 \in Seq(CheckReports)
        /\ r1 \o r2 \o r3 = Fine <=> r1 \o r2 = Fine /\ r3 = Fine
    BY <1>9, <2>1, ChecksJoined
  <2>3. /\ r1 \o r2 \o r3 \o r4 \in Seq(CheckReports)
        /\ r1 \o r2 \o r3 \o r4 = Fine <=> r1 \o r2 \o r3 = Fine /\ r4 = Fine
    BY <1>10, <2>2, ChecksJoined
  <2>4. /\ r1 \o r2 \o r3 \o r4 \o r5 \in Seq(CheckReports)
        /\ r1 \o r2 \o r3 \o r4 \o r5 = Fine <=> r1 \o r2 \o r3 \o r4 = Fine /\ r5 = Fine
    BY <1>11, <2>3, ChecksJoined
  <2>5. /\ r1 \o r2 \o r3 \o r4 \o r5 \o r6 \in Seq(CheckReports)
        /\ r1 \o r2 \o r3 \o r4 \o r5 \o r6 = Fine <=>
             r1 \o r2 \o r3 \o r4 \o r5 = Fine /\ r6 = Fine
    BY <1>12, <2>4, ChecksJoined
  <2>6. QED
    BY <1>5, <2>1, <2>2, <2>3, <2>4, <2>5, Zenon
<1>14. ConvLegal(c) <=>
         /\ divides /\ rank /\ same /\ ExtentsLegal(c.stride, arities, 1)
         /\ ExtentsLegal(c.dilation, arities, 1)
         /\ c.padding.mode = "explicit" => ExtentsLegal(c.padding.extents, arities, 0)
  BY <1>3 DEF ConvLegal, rank, same, arities, w
<1>15. QED
  BY <1>7, <1>8, <1>9, <1>10, <1>11, <1>12, <1>13, <1>14, Zenon

LEMMA ConvChecked ==
  ASSUME NEW c \in Leaves, IsConv(c)
  PROVE  /\ ConvReports(c) \in Seq(CheckReports)
         /\ ConvReports(c) = Fine <=> ConvLegal(c)
<1>1. c.groups \in Int /\ c.weight \in Seq(Nat)
  BY LeafAssumption
<1>2. {"Groups", "WeightRank", "WeightExtentPositive"} \subseteq Errors
      /\ {"groups", "weight"} \subseteq Fields
  BY DEF Errors, Fields
<1>3. ASSUME NEW error \in Errors, NEW field \in Fields, ~ConvLegal(c),
             ConvReports(c) = Report(TRUE, error, field)
      PROVE  ConvReports(c) \in Seq(CheckReports) /\ (ConvReports(c) = Fine <=> ConvLegal(c))
  <2>1. TRUE \in BOOLEAN
    OBVIOUS
  <2>2. QED
    BY <1>3, <2>1, OneCheck
<1>4. CASE c.groups <= 0
  <2>1. ConvReports(c) = Report(TRUE, "Groups", "groups")
    BY <1>4, Zenon DEF ConvReports
  <2>2. ~ConvLegal(c)
    BY <1>1, <1>4 DEF ConvLegal
  <2>3. QED
    BY <1>2, <1>3, <2>1, <2>2
<1>5. CASE c.groups >= 1 /\ Len(c.weight) # WeightRank[c.kind]
  <2>1. ~(c.groups <= 0)
    BY <1>1, <1>5
  <2>2. ConvReports(c) = Report(TRUE, "WeightRank", "weight")
    BY <1>5, <2>1, Zenon DEF ConvReports
  <2>3. ~ConvLegal(c)
    BY <1>5, Zenon DEF ConvLegal
  <2>4. QED
    BY <1>2, <1>3, <2>2, <2>3
<1>6. CASE /\ c.groups >= 1 /\ Len(c.weight) = WeightRank[c.kind]
           /\ \E axis \in DOMAIN c.weight : c.weight[axis] = 0
  <2>1. ~(c.groups <= 0)
    BY <1>1, <1>6
  <2>2. ConvReports(c) = Report(TRUE, "WeightExtentPositive", "weight")
    BY <1>6, <2>1, Zenon DEF ConvReports
  <2>3. ~ConvLegal(c)
    <3>1. PICK axis \in DOMAIN c.weight : c.weight[axis] = 0
      BY <1>6
    <3>2. ~(c.weight[axis] >= 1)
      BY <3>1
    <3>3. QED
      BY <3>2, Zenon DEF ConvLegal
  <2>4. QED
    BY <1>2, <1>3, <2>2, <2>3
<1>7. CASE /\ c.groups >= 1 /\ Len(c.weight) = WeightRank[c.kind]
           /\ ~\E axis \in DOMAIN c.weight : c.weight[axis] = 0
  <2>1. ~(c.groups <= 0)
    BY <1>1, <1>7
  <2>2. ConvReports(c) = ConvSpatial(c)
    BY <1>7, <2>1, Zenon DEF ConvReports
  <2>3. \A axis \in DOMAIN c.weight : c.weight[axis] >= 1
    BY <1>1, <1>7
  <2>4. QED
    BY <1>7, <2>2, <2>3, SpatialChecked
<1>8. QED
  BY <1>1, <1>4, <1>5, <1>6, <1>7

(* A pooling field: its type, its rank, how many extents and their signs.  *)
PoolFieldLegal(t, least) ==
  t.dtype = "i64" /\ Len(t.shape) <= 1 /\ ExtentsLegal(t.values, {1, 2}, least)

LEMMA PoolFieldChecked ==
  ASSUME NEW t, t.shape \in Seq(Nat), t.values \in Seq(Int), NEW least \in Int,
         NEW field \in Fields
  PROVE  /\ PoolExtents(field, t, least) \in Seq(CheckReports)
         /\ PoolExtents(field, t, least) = Fine <=> PoolFieldLegal(t, least)
<1> DEFINE typed == t.dtype = "i64"
           flat == ~(Len(t.shape) > 1)
           some == Len(t.values) \in {1, 2}
           r1 == Report(~typed, "ExtentDType", field)
           r2 == Report(~flat, "ExtentRank", field)
           r3 == Report(~some, "ExtentArity", field)
           r4 == ExtentValues(field, t.values, least)
<1>1. {"ExtentDType", "ExtentRank", "ExtentArity"} \subseteq Errors
  BY DEF Errors
<1>2. PoolExtents(field, t, least) = r1 \o r2 \o r3 \o r4
  <2>1. (~flat) = (Len(t.shape) > 1)
    OBVIOUS
  <2>2. r2 = Report(Len(t.shape) > 1, "ExtentRank", field)
    BY <2>1
  <2> HIDE DEF r2
  <2>3. QED
    BY <2>2 DEF PoolExtents
<1>3. PoolFieldLegal(t, least) <=>
        typed /\ flat /\ some /\ \A i \in DOMAIN t.values : t.values[i] >= least
  <2>1. flat <=> Len(t.shape) <= 1
    OBVIOUS
  <2> HIDE DEF flat
  <2>2. QED
    BY <2>1 DEF PoolFieldLegal, ExtentsLegal
<1>4. (~typed) \in BOOLEAN /\ (~flat) \in BOOLEAN /\ (~some) \in BOOLEAN
  OBVIOUS
<1> HIDE DEF typed, flat, some
<1>5. r1 \in Seq(CheckReports) /\ (r1 = Fine <=> typed)
  BY <1>1, <1>4, OneCheck
<1>6. r2 \in Seq(CheckReports) /\ (r2 = Fine <=> flat)
  BY <1>1, <1>4, OneCheck
<1>7. r3 \in Seq(CheckReports) /\ (r3 = Fine <=> some)
  BY <1>1, <1>4, OneCheck
<1>8. r4 \in Seq(CheckReports) /\ (r4 = Fine <=> \A i \in DOMAIN t.values : t.values[i] >= least)
  BY SignsChecked
<1> HIDE DEF r1, r2, r3, r4
<1>9. r1 \o r2 \in Seq(CheckReports) /\ (r1 \o r2 = Fine <=> r1 = Fine /\ r2 = Fine)
  BY <1>5, <1>6, ChecksJoined
<1>10. /\ r1 \o r2 \o r3 \in Seq(CheckReports)
       /\ r1 \o r2 \o r3 = Fine <=> r1 \o r2 = Fine /\ r3 = Fine
  BY <1>7, <1>9, ChecksJoined
<1>11. /\ r1 \o r2 \o r3 \o r4 \in Seq(CheckReports)
       /\ r1 \o r2 \o r3 \o r4 = Fine <=> r1 \o r2 \o r3 = Fine /\ r4 = Fine
  BY <1>8, <1>10, ChecksJoined
<1>12. QED
  BY <1>2, <1>3, <1>5, <1>6, <1>7, <1>8, <1>9, <1>10, <1>11, Zenon

LEMMA PoolChecked ==
  ASSUME NEW p \in Leaves, IsPool(p)
  PROVE  /\ PoolReports(p) \in Seq(CheckReports)
         /\ PoolReports(p) = Fine <=> PoolLegal(p)
<1> DEFINE r1 == PoolExtents("kernel_size", p.kernel_size, 1)
           r2 == PoolExtents("stride", p.stride, 1)
           r3 == PoolExtents("padding", p.padding, 0)
<1>1. /\ p.kernel_size.shape \in Seq(Nat) /\ p.kernel_size.values \in Seq(Int)
      /\ p.stride.shape \in Seq(Nat) /\ p.stride.values \in Seq(Int)
      /\ p.padding.shape \in Seq(Nat) /\ p.padding.values \in Seq(Int)
  BY LeafAssumption
<1>2. {"kernel_size", "stride", "padding"} \subseteq Fields
  BY DEF Fields
<1>3. r1 \in Seq(CheckReports) /\ (r1 = Fine <=> PoolFieldLegal(p.kernel_size, 1))
  BY <1>1, <1>2, PoolFieldChecked
<1>4. r2 \in Seq(CheckReports) /\ (r2 = Fine <=> PoolFieldLegal(p.stride, 1))
  BY <1>1, <1>2, PoolFieldChecked
<1>5. r3 \in Seq(CheckReports) /\ (r3 = Fine <=> PoolFieldLegal(p.padding, 0))
  BY <1>1, <1>2, PoolFieldChecked
<1>6. PoolReports(p) = r1 \o r2 \o r3
  BY DEF PoolReports
<1> HIDE DEF r1, r2, r3
<1>7. r1 \o r2 \in Seq(CheckReports) /\ (r1 \o r2 = Fine <=> r1 = Fine /\ r2 = Fine)
  BY <1>3, <1>4, ChecksJoined
<1>8. /\ r1 \o r2 \o r3 \in Seq(CheckReports)
      /\ r1 \o r2 \o r3 = Fine <=> r1 \o r2 = Fine /\ r3 = Fine
  BY <1>5, <1>7, ChecksJoined
<1>9. PoolLegal(p) <=>
        /\ PoolFieldLegal(p.kernel_size, 1) /\ PoolFieldLegal(p.stride, 1)
        /\ PoolFieldLegal(p.padding, 0)
  BY DEF PoolLegal, PoolFields, PoolFieldLegal
<1>10. QED
  BY <1>3, <1>4, <1>5, <1>6, <1>7, <1>8, <1>9, Zenon

(* The instance's copies of the checks are those of NodeParameters.        *)
LEMMA SameChecks == \A node : P!NodeFault(node) = NodeFault(node)
<1>1. \A bad, error, field : P!Report(bad, error, field) = Report(bad, error, field)
  BY DEF P!Report, Report
<1>2. P!Fine = Fine
  BY DEF P!Fine, Fine
<1>3. \A field, extents, arities, least :
        /\ P!ExtentValues(field, extents, least) = ExtentValues(field, extents, least)
        /\ P!VecExtents(field, extents, arities, least) =
             VecExtents(field, extents, arities, least)
  BY <1>1 DEF P!ExtentValues, ExtentValues, P!WrongSigns, WrongSigns, P!VecExtents, VecExtents
<1>4. \A padding, arities : P!PaddingExtents(padding, arities) = PaddingExtents(padding, arities)
  BY <1>2, <1>3 DEF P!PaddingExtents, PaddingExtents
<1>5. \A field, t, least : P!PoolExtents(field, t, least) = PoolExtents(field, t, least)
  BY <1>1, <1>3 DEF P!PoolExtents, PoolExtents
<1>6. P!WeightRank = WeightRank /\ P!Arities = Arities
  BY DEF P!WeightRank, WeightRank, P!Arities, Arities
<1>7. \A c : P!ConvSpatial(c) = ConvSpatial(c)
  BY <1>1, <1>3, <1>4, <1>6 DEF P!ConvSpatial, ConvSpatial
<1>8. \A c : P!ConvReports(c) = ConvReports(c)
  BY <1>1, <1>6, <1>7 DEF P!ConvReports, ConvReports
<1>9. \A p : P!PoolReports(p) = PoolReports(p)
  BY <1>5 DEF P!PoolReports, PoolReports
<1>10. \A reports : P!First(reports) = First(reports)
  BY DEF P!First, First
<1>11. QED
  BY <1>2, <1>8, <1>9, <1>10, Zenon DEF P!NodeFault, NodeFault

LEMMA LegalNode ==
  ASSUME NEW node \in Leaves
  PROVE  P!NodeFault(node).error = "none" <=> NodeLegal(node)
<1>1. P!NodeFault(node) = NodeFault(node)
  BY SameChecks
<1>2. CASE IsConv(node)
  <2>1. NodeFault(node) = First(ConvReports(node))
    BY <1>2 DEF NodeFault, IsConv
  <2>2. ~IsPool(node)
    BY <1>2 DEF IsConv, IsPool
  <2>3. QED
    BY <1>1, <1>2, <2>1, <2>2, ConvChecked, FirstOfChecks DEF NodeLegal
<1>3. CASE IsPool(node)
  <2>1. node.kind \notin {"Conv1d", "Conv2d"}
    BY <1>3 DEF IsPool
  <2>2. NodeFault(node) = First(PoolReports(node))
    BY <1>3, <2>1 DEF NodeFault, IsPool
  <2>3. ~IsConv(node)
    BY <2>1 DEF IsConv
  <2>4. QED
    BY <1>1, <1>3, <2>2, <2>3, PoolChecked, FirstOfChecks DEF NodeLegal
<1>4. CASE ~IsConv(node) /\ ~IsPool(node)
  <2>1. NodeFault(node) = First(Fine)
    BY <1>4 DEF NodeFault, IsConv, IsPool
  <2>2. First(Fine).error = "none"
    BY DEF First, Fine
  <2>3. QED
    BY <1>1, <1>4, <2>1, <2>2 DEF NodeLegal
<1>5. QED
  BY <1>2, <1>3, <1>4

-----------------------------------------------------------------------------
(* The problems inside a graph, unfolded once.                             *)
ProblemRecords == [at : Seq(Nat), path : Seq(Names), deep : BOOLEAN]
ProblemTables == [Graphs -> SUBSET ProblemRecords]
InsideProblems(m, more) == IF more = 0 THEN OnlyTooDeep ELSE AllProblems(m)[more - 1]

LEMMA UnderSays ==
  ASSUME NEW p \in ProblemRecords, NEW i \in Nat, NEW name \in Names
  PROVE  LET q == Under(<<i>>, <<name>>, p)
         IN /\ q \in ProblemRecords /\ q.deep = p.deep /\ q.at = <<i>> \o p.at
            /\ q.path = IF p.deep THEN <<>> ELSE <<name>> \o p.path
<1> DEFINE q == Under(<<i>>, <<name>>, p)
           at == p.at
           path == p.path
<1>1. at \in Seq(Nat) /\ path \in Seq(Names) /\ p.deep \in BOOLEAN
  BY DEF ProblemRecords
<1>2. /\ q.at = <<i>> \o at /\ q.deep = p.deep
      /\ q.path = IF p.deep THEN <<>> ELSE <<name>> \o path
      /\ q = [at |-> q.at, path |-> q.path, deep |-> q.deep]
  BY DEF Under, Problem
<1> HIDE DEF at, path, q
<1>3. <<i>> \o at \in Seq(Nat) /\ <<name>> \o path \in Seq(Names) /\ <<>> \in Seq(Names)
  BY <1>1
<1>4. q \in ProblemRecords
  <2>1. q.at \in Seq(Nat) /\ q.path \in Seq(Names) /\ q.deep \in BOOLEAN
    BY <1>1, <1>2, <1>3
  <2>2. QED
    BY <1>2, <2>1 DEF ProblemRecords
<1>5. QED
  BY <1>2, <1>4 DEF at, path, q

(* The position of a problem below a node, element by element.             *)
LEMMA UnderAt ==
  ASSUME NEW p \in ProblemRecords, NEW i \in Nat, NEW name \in Names,
         NEW q, q = Under(<<i>>, <<name>>, p)
  PROVE  /\ q.at \in Seq(Nat) /\ Len(q.at) = Len(p.at) + 1 /\ q.at[1] = i
         /\ \A j \in 1..Len(p.at) : q.at[j + 1] = p.at[j]
<1> DEFINE a == p.at
           b == q.at
<1>1. b = <<i>> \o a /\ a \in Seq(Nat)
  BY UnderSays, Zenon DEF ProblemRecords
<1> HIDE DEF a, b
<1>2. b \in Seq(Nat) /\ Len(b) = Len(a) + 1 /\ b[1] = i /\ \A j \in 1..Len(a) : b[j + 1] = a[j]
  BY <1>1
<1>3. QED
  BY <1>2, Zenon DEF a, b

(* A node's problems are at positions that begin with the node's.          *)
LEMMA ProblemsAtFacts ==
  ASSUME NEW m \in Inputs, NEW g \in Graphs, NEW inside \in ProblemTables,
         NEW i \in 1..Len(m.nodes[g])
  PROVE  \A q \in ProblemsAt(m, g, i, inside) :
           q \in ProblemRecords /\ Len(q.at) >= 1 /\ q.at[1] = i
<1> DEFINE node == m.nodes[g][i]
<1>1. i \in Nat /\ node.name \in Names /\ node.holds \in Graphs \cup Leaves
  BY ModelFacts
<1>2. TAKE q \in ProblemsAt(m, g, i, inside)
<1>3. CASE node.holds \in Graphs
  <2>1. PICK p \in inside[node.holds] : q = Under(<<i>>, <<node.name>>, p)
    BY <1>2, <1>3 DEF ProblemsAt
  <2>2. p \in ProblemRecords
    BY <1>3, <2>1 DEF ProblemTables
  <2>3. Len(p.at) \in Nat
    BY <2>2 DEF ProblemRecords
  <2> DEFINE name == node.name
  <2>4. name \in Names /\ q = Under(<<i>>, <<name>>, p)
    BY <1>1, <2>1
  <2> HIDE DEF name
  <2>5. Under(<<i>>, <<name>>, p) \in ProblemRecords
    BY <1>1, <2>2, <2>4, UnderSays, Zenon
  <2>6. Len(q.at) = Len(p.at) + 1 /\ q.at[1] = i
    BY <1>1, <2>2, <2>4, UnderAt
  <2>7. QED
    BY <2>3, <2>4, <2>5, <2>6
<1>4. CASE node.holds \notin Graphs
  <2>1. q = Problem(<<i>>, <<node.name>>, FALSE)
    BY <1>2, <1>4 DEF ProblemsAt
  <2>2. q \in ProblemRecords /\ q.at = <<i>>
    BY <1>1, <2>1 DEF Problem, ProblemRecords
  <2>3. QED
    BY <2>2
<1>5. QED
  BY <1>3, <1>4

LEMMA ProblemsTyped ==
  ASSUME NEW m \in Inputs, NEW g \in Graphs, NEW inside \in ProblemTables
  PROVE  /\ ProblemsOf(m, g, inside) \in SUBSET ProblemRecords
         /\ \A q : q \in ProblemsOf(m, g, inside) <=>
              \E i \in 1..Len(m.nodes[g]) : q \in ProblemsAt(m, g, i, inside)
<1>1. DOMAIN m.nodes[g] = 1..Len(m.nodes[g])
  BY ModelFacts
<1>2. \A q : q \in ProblemsOf(m, g, inside) <=>
        \E i \in 1..Len(m.nodes[g]) : q \in ProblemsAt(m, g, i, inside)
  BY <1>1 DEF ProblemsOf
<1>3. QED
  BY <1>2, ProblemsAtFacts

LEMMA ProblemsUnfold ==
  ASSUME NEW m \in Inputs
  PROVE  \A more \in 0..MaxDepth :
           /\ InsideProblems(m, more) \in ProblemTables
           /\ AllProblems(m)[more] \in ProblemTables
           /\ \A g \in Graphs : AllProblems(m)[more][g] = ProblemsOf(m, g, InsideProblems(m, more))
<1> DEFINE V == ProblemTables
           Row(inside) == [g \in Graphs |-> ProblemsOf(m, g, inside)]
           step == [x \in V \X (1..MaxDepth) |-> Row(x[1])]
           Rec(f) == [more \in 0..MaxDepth |->
                        [g \in Graphs |->
                           ProblemsOf(m, g, IF more = 0 THEN OnlyTooDeep ELSE f[more - 1])]]
           R == AllProblems(m)
<1>1. MaxDepth \in Nat
  BY ModelAssumption
<1>2. OnlyTooDeep \in V
  <2>1. Problem(<<>>, <<>>, TRUE) \in ProblemRecords
    BY DEF Problem, ProblemRecords
  <2>2. QED
    BY <2>1 DEF OnlyTooDeep, ProblemTables
<1>3. ASSUME NEW inside \in V PROVE Row(inside) \in V
  <2>1. \A g \in Graphs : ProblemsOf(m, g, inside) \in SUBSET ProblemRecords
    BY <1>3, ProblemsTyped
  <2>2. QED
    BY <2>1 DEF ProblemTables
<1> HIDE DEF Row
<1>4. step \in [V \X (1..MaxDepth) -> V]
  <2> HIDE DEF V
  <2>1. QED
    BY <1>3
<1>5. PICK f \in [0..MaxDepth -> V] : Follows(f, Row(OnlyTooDeep), step, MaxDepth)
  <2> HIDE DEF step, V
  <2>1. Row(OnlyTooDeep) \in V
    BY <1>2, <1>3
  <2>2. QED
    BY <1>1, <1>4, <2>1, RecursionExists
<1>6. f = Rec(f)
  <2>1. f[0] = Row(OnlyTooDeep)
    BY <1>5 DEF Follows
  <2>2. ASSUME NEW k \in 1..MaxDepth PROVE f[k] = Row(f[k - 1])
    <3>1. k - 1 \in 0..MaxDepth
      BY <1>1
    <3> HIDE DEF V
    <3>2. <<f[k - 1], k>> \in V \X (1..MaxDepth)
      BY <1>5, <3>1
    <3>3. f[k] = step[<<f[k - 1], k>>]
      <4> HIDE DEF step
      <4>1. QED
        BY <1>5 DEF Follows
    <3>4. QED
      BY <3>2, <3>3
  <2> HIDE DEF V
  <2>3. \A k \in 0..MaxDepth : f[k] = Row(IF k = 0 THEN OnlyTooDeep ELSE f[k - 1])
    <3>1. TAKE k \in 0..MaxDepth
    <3>2. CASE k = 0
      BY <3>2, <2>1
    <3>3. CASE k # 0
      <4>1. k \in 1..MaxDepth
        BY <1>1, <3>3
      <4>2. QED
        BY <3>3, <4>1, <2>2
    <3>4. QED
      BY <3>2, <3>3
  <2>4. f = [k \in 0..MaxDepth |-> f[k]]
    OBVIOUS
  <2>5. QED
    BY <2>3, <2>4, Zenon DEF Row
<1>7. R = Rec(R)
  BY <1>6, Zenon DEF AllProblems
<1> HIDE DEF R
<1>8. \A k \in 0..MaxDepth : R[k] = Row(IF k = 0 THEN OnlyTooDeep ELSE R[k - 1])
  BY <1>7, Zenon DEF Row
<1>9. \A k \in 0..MaxDepth : R[k] \in V
  <2> DEFINE Reached == {k \in Nat : k <= MaxDepth => R[k] \in V}
  <2> HIDE DEF V
  <2>1. 0 \in Reached
    <3>1. R[0] = Row(OnlyTooDeep)
      BY <1>1, <1>8
    <3>2. QED
      BY <1>2, <1>3, <3>1
  <2>2. ASSUME NEW k \in Nat, k \in Reached PROVE k + 1 \in Reached
    <3>1. SUFFICES ASSUME k + 1 <= MaxDepth PROVE R[k + 1] \in V
      OBVIOUS
    <3>2. k + 1 \in 0..MaxDepth /\ k + 1 # 0 /\ (k + 1) - 1 = k /\ k <= MaxDepth
      BY <1>1, <3>1
    <3>3. R[k + 1] = Row(R[k]) /\ R[k] \in V
      BY <1>8, <2>2, <3>2
    <3>4. QED
      BY <1>3, <3>3
  <2>3. Nat \subseteq Reached
    <3> HIDE DEF Reached
    <3>1. QED
      BY <2>1, <2>2, SetInduction
  <2>4. QED
    BY <1>1, <2>3
<1>10. ASSUME NEW more \in 0..MaxDepth
       PROVE  InsideProblems(m, more) \in V /\ R[more] = Row(InsideProblems(m, more))
  <2>1. CASE more = 0
    BY <2>1, <1>2, <1>8 DEF InsideProblems
  <2>2. CASE more # 0
    <3>1. more - 1 \in 0..MaxDepth
      BY <1>1, <2>2
    <3>2. InsideProblems(m, more) = R[more - 1]
      BY <2>2 DEF InsideProblems, R
    <3>3. QED
      BY <2>2, <3>1, <3>2, <1>8, <1>9
  <2>3. QED
    BY <2>1, <2>2
<1>11. QED
  BY <1>9, <1>10 DEF R, Row

(* The first problem of the first node that has one is the graph's.        *)
LEMMA FirstHere ==
  ASSUME NEW m \in Inputs, NEW g \in Graphs, NEW inside \in ProblemTables,
         NEW i \in 1..Len(m.nodes[g]),
         \A k \in 1..Len(m.nodes[g]) : k < i => ProblemsAt(m, g, k, inside) = {},
         NEW p, FirstOf(ProblemsAt(m, g, i, inside), p)
  PROVE  FirstOf(ProblemsOf(m, g, inside), p)
<1>1. /\ p \in ProblemsAt(m, g, i, inside)
      /\ \A q \in ProblemsAt(m, g, i, inside) : q = p \/ Earlier(p.at, q.at)
  BY DEF FirstOf
<1>2. p \in ProblemRecords /\ Len(p.at) >= 1 /\ p.at[1] = i
  BY <1>1, ProblemsAtFacts
<1>3. p \in ProblemsOf(m, g, inside)
  BY <1>1, ProblemsTyped
<1>4. ASSUME NEW q \in ProblemsOf(m, g, inside) PROVE q = p \/ Earlier(p.at, q.at)
  <2>1. PICK k \in 1..Len(m.nodes[g]) : q \in ProblemsAt(m, g, k, inside)
    BY <1>4, ProblemsTyped
  <2>2. q \in ProblemRecords /\ Len(q.at) >= 1 /\ q.at[1] = k
    BY <2>1, ProblemsAtFacts
  <2>3. CASE k = i
    BY <1>1, <2>1, <2>3
  <2>4. CASE k # i
    <3>1. i < k
      <4>1. ~(k < i)
        BY <2>1
      <4>2. i \in Nat /\ k \in Nat
        BY ModelFacts
      <4>3. QED
        BY <2>4, <4>1, <4>2
    <3>2. p.at \in Seq(Nat) /\ q.at \in Seq(Nat)
      BY <1>2, <2>2 DEF ProblemRecords
    <3>3. 1 \in DOMAIN p.at \cap DOMAIN q.at
      BY <1>2, <2>2, <3>2
    <3>4. p.at[1] < q.at[1] /\ \A j \in 1..(1 - 1) : p.at[j] = q.at[j]
      BY <1>2, <2>2, <3>1
    <3>5. QED
      BY <3>3, <3>4 DEF Earlier
  <2>5. QED
    BY <2>3, <2>4
<1>5. QED
  BY <1>3, <1>4 DEF FirstOf

(* An order of positions is kept below a node.                             *)
LEMMA EarlierBelow ==
  ASSUME NEW p \in ProblemRecords, NEW q \in ProblemRecords, NEW i \in Nat, NEW name \in Names,
         Earlier(p.at, q.at),
         NEW x, x = Under(<<i>>, <<name>>, p), NEW y, y = Under(<<i>>, <<name>>, q)
  PROVE  Earlier(x.at, y.at)
<1> DEFINE a == p.at
           b == q.at
           c == x.at
           d == y.at
<1>1. /\ a \in Seq(Nat) /\ c \in Seq(Nat)
      /\ Len(c) = Len(a) + 1 /\ c[1] = i /\ \A j \in 1..Len(a) : c[j + 1] = a[j]
  <2>1. a \in Seq(Nat)
    BY DEF ProblemRecords
  <2>2. c \in Seq(Nat) /\ Len(c) = Len(a) + 1 /\ c[1] = i
    BY UnderAt
  <2>3. \A j \in 1..Len(a) : c[j + 1] = a[j]
    BY UnderAt
  <2>4. QED
    BY <2>1, <2>2, <2>3
<1>2. /\ b \in Seq(Nat) /\ d \in Seq(Nat)
      /\ Len(d) = Len(b) + 1 /\ d[1] = i /\ \A j \in 1..Len(b) : d[j + 1] = b[j]
  <2>1. b \in Seq(Nat)
    BY DEF ProblemRecords
  <2>2. d \in Seq(Nat) /\ Len(d) = Len(b) + 1 /\ d[1] = i
    BY UnderAt
  <2>3. \A j \in 1..Len(b) : d[j + 1] = b[j]
    BY UnderAt
  <2>4. QED
    BY <2>1, <2>2, <2>3
<1>3. PICK k \in DOMAIN a \cap DOMAIN b : a[k] < b[k] /\ \A j \in 1..(k - 1) : a[j] = b[j]
  BY Zenon DEF Earlier
<1> HIDE DEF a, b, c, d
<1>4. k \in 1..Len(a) /\ k \in 1..Len(b) /\ Len(a) \in Nat /\ Len(b) \in Nat
  <2>1. a \in Seq(Nat) /\ b \in Seq(Nat)
    BY <1>1, <1>2
  <2>2. DOMAIN a = 1..Len(a) /\ DOMAIN b = 1..Len(b) /\ Len(a) \in Nat /\ Len(b) \in Nat
    BY <2>1
  <2>3. QED
    BY <1>3, <2>2
<1>5. k + 1 \in DOMAIN c \cap DOMAIN d
  <2>1. /\ DOMAIN c = 1..Len(c) /\ DOMAIN d = 1..Len(d)
        /\ Len(c) = Len(a) + 1 /\ Len(d) = Len(b) + 1
    BY <1>1, <1>2
  <2>2. QED
    BY <1>4, <2>1
<1>6. c[k + 1] < d[k + 1]
  BY <1>1, <1>2, <1>3, <1>4
<1>7. ASSUME NEW j \in 1..((k + 1) - 1) PROVE c[j] = d[j]
  <2>1. CASE j = 1
    BY <1>1, <1>2, <2>1
  <2>2. CASE j # 1
    <3>1. j - 1 \in 1..Len(a) /\ j - 1 \in 1..Len(b) /\ j - 1 \in 1..(k - 1) /\ (j - 1) + 1 = j
      BY <1>4, <2>2
    <3>2. c[j] = a[j - 1] /\ d[j] = b[j - 1] /\ a[j - 1] = b[j - 1]
      BY <1>1, <1>2, <1>3, <3>1
    <3>3. QED
      BY <3>2
  <2>3. QED
    BY <2>1, <2>2
<1>8. Earlier(c, d)
  BY <1>5, <1>6, <1>7 DEF Earlier
<1>9. QED
  BY <1>8 DEF c, d

LEMMA FirstBelow ==
  ASSUME NEW m \in Inputs, NEW g \in Graphs, NEW inside \in ProblemTables,
         NEW i \in 1..Len(m.nodes[g]), m.nodes[g][i].holds \in Graphs,
         \A k \in 1..Len(m.nodes[g]) : k < i => ProblemsAt(m, g, k, inside) = {},
         NEW p, FirstOf(inside[m.nodes[g][i].holds], p)
  PROVE  FirstOf(ProblemsOf(m, g, inside), Under(<<i>>, <<m.nodes[g][i].name>>, p))
<1> DEFINE h == m.nodes[g][i].holds
           name == m.nodes[g][i].name
           top == Under(<<i>>, <<name>>, p)
<1>1. i \in Nat /\ name \in Names /\ inside[h] \in SUBSET ProblemRecords
  BY ModelFacts DEF ProblemTables
<1>2. p \in inside[h] /\ \A q \in inside[h] : q = p \/ Earlier(p.at, q.at)
  BY DEF FirstOf
<1>3. ProblemsAt(m, g, i, inside) = {Under(<<i>>, <<name>>, q) : q \in inside[h]}
  BY DEF ProblemsAt
<1>4. FirstOf(ProblemsAt(m, g, i, inside), top)
  <2>1. top \in ProblemsAt(m, g, i, inside)
    BY <1>2, <1>3
  <2>2. ASSUME NEW x \in ProblemsAt(m, g, i, inside) PROVE x = top \/ Earlier(top.at, x.at)
    <3>1. PICK q \in inside[h] : x = Under(<<i>>, <<name>>, q)
      BY <1>3, <2>2
    <3>2. CASE q = p
      BY <3>1, <3>2
    <3>3. CASE Earlier(p.at, q.at)
      <4>1. p \in ProblemRecords /\ q \in ProblemRecords
        BY <1>1, <1>2, <3>1
      <4>2. QED
        BY <1>1, <3>1, <3>3, <4>1, EarlierBelow, Zenon
    <3>4. QED
      BY <1>2, <3>2, <3>3
  <2>3. QED
    BY <2>1, <2>2 DEF FirstOf
<1> HIDE DEF top, name
<1>5. QED
  BY <1>4, FirstHere DEF top, name

-----------------------------------------------------------------------------
(* The open calls of the walk over the parameters: the first problem of    *)
(* the graph a call looks at is, below the call's path, the first problem  *)
(* of all, and there is none in what the calls have passed.                *)
ProblemsIn(m, c) == AllProblems(m)[MaxDepth - c.depth][c.graph]
ProblemsOfNode(m, c, k) == ProblemsAt(m, c.graph, k, InsideProblems(m, MaxDepth - c.depth))

Clear(m, c, upto) ==
  \A k \in 1..Len(m.nodes[c.graph]) : k < upto => ProblemsOfNode(m, c, k) = {}

Carried(m, c, all) ==
  \E at \in Seq(Nat) : \A p \in ProblemRecords :
    FirstOf(ProblemsIn(m, c), p) =>
      FirstOf(all, Problem(at \o p.at, IF p.deep THEN <<>> ELSE c.path \o p.path, p.deep))

(* The call d was made on the node before the next one of c.               *)
MadeBy(m, c, d) ==
  /\ c.next - 1 \in 1..Len(m.nodes[c.graph]) /\ d.depth = c.depth + 1
  /\ m.nodes[c.graph][c.next - 1].holds = d.graph

CallsInv(list, m, all) ==
  /\ list = <<>> => all = {}
  /\ list # <<>> /\ ProblemsIn(m, list[1]) = {} => all = {}
  /\ \A j \in 1..Len(list) :
       /\ list[j].depth <= MaxDepth /\ Carried(m, list[j], all)
       /\ j = Len(list) => Clear(m, list[j], list[j].next)
       /\ j # Len(list) =>
            Clear(m, list[j], list[j].next - 1) /\ MadeBy(m, list[j], list[j + 1])

ProblemInv ==
  /\ parameters = P!NoVerdict => CallsInv(calls, model, Problems)
  /\ ParametersAsDefined

LEMMA CallProblems ==
  ASSUME NEW m \in Inputs, NEW c \in CallRecords, c.depth <= MaxDepth
  PROVE  LET inside == InsideProblems(m, MaxDepth - c.depth)
         IN /\ inside \in ProblemTables /\ c.graph \in Graphs
            /\ ProblemsIn(m, c) = ProblemsOf(m, c.graph, inside)
            /\ \A g \in Graphs, d \in CallRecords :
                 c.depth < MaxDepth /\ d.graph = g /\ d.depth = c.depth + 1 =>
                   inside[g] = ProblemsIn(m, d)
            /\ c.depth = MaxDepth =>
                 \A g \in Graphs : inside[g] = {Problem(<<>>, <<>>, TRUE)}
<1> DEFINE more == MaxDepth - c.depth
           inside == InsideProblems(m, more)
<1>1. c.depth \in Nat /\ c.graph \in Graphs /\ MaxDepth \in Nat
  BY ModelAssumption DEF CallRecords
<1>2. more \in 0..MaxDepth
  BY <1>1
<1>3. inside \in ProblemTables /\ ProblemsIn(m, c) = ProblemsOf(m, c.graph, inside)
  <2> HIDE DEF more
  <2>1. /\ InsideProblems(m, more) \in ProblemTables
        /\ \A g \in Graphs : AllProblems(m)[more][g] = ProblemsOf(m, g, InsideProblems(m, more))
    BY <1>2, ProblemsUnfold
  <2>2. ProblemsIn(m, c) = AllProblems(m)[more][c.graph]
    BY DEF ProblemsIn, more
  <2>3. QED
    BY <1>1, <2>1, <2>2, Zenon
<1>4. ASSUME NEW g \in Graphs, NEW d \in CallRecords,
             c.depth < MaxDepth, d.graph = g, d.depth = c.depth + 1
      PROVE  inside[g] = ProblemsIn(m, d)
  <2>1. more # 0 /\ more - 1 = MaxDepth - d.depth
    BY <1>1, <1>4
  <2>2. inside = AllProblems(m)[more - 1]
    BY <2>1 DEF InsideProblems
  <2>3. QED
    BY <1>4, <2>1, <2>2 DEF ProblemsIn
<1>5. ASSUME c.depth = MaxDepth, NEW g \in Graphs PROVE inside[g] = {Problem(<<>>, <<>>, TRUE)}
  <2>1. more = 0
    BY <1>1, <1>5
  <2>2. inside = OnlyTooDeep
    BY <2>1 DEF InsideProblems
  <2>3. QED
    BY <2>2 DEF OnlyTooDeep
<1> HIDE DEF inside
<1>6. QED
  BY <1>1, <1>3, <1>4, <1>5, Zenon DEF inside

(* A call that has passed all of its graph found it without problems.      *)
LEMMA AllClear ==
  ASSUME NEW m \in Inputs, NEW c \in CallRecords, c.depth <= MaxDepth,
         NEW upto \in Nat, upto > Len(m.nodes[c.graph]), Clear(m, c, upto)
  PROVE  ProblemsIn(m, c) = {}
<1> DEFINE inside == InsideProblems(m, MaxDepth - c.depth)
<1>1. inside \in ProblemTables /\ c.graph \in Graphs
      /\ ProblemsIn(m, c) = ProblemsOf(m, c.graph, inside)
  BY CallProblems, Zenon
<1>2. Len(m.nodes[c.graph]) \in Nat
  BY <1>1, ModelFacts
<1>3. \A k \in 1..Len(m.nodes[c.graph]) : ProblemsAt(m, c.graph, k, inside) = {}
  BY <1>2 DEF Clear, ProblemsOfNode
<1> HIDE DEF inside
<1>4. \A q : q \notin ProblemsOf(m, c.graph, inside)
  BY <1>1, <1>3, ProblemsTyped
<1>5. QED
  BY <1>1, <1>4

LEMMA ConcatPositions == \A a, b, c \in Seq(Nat) : a \o (b \o c) = (a \o b) \o c
  OBVIOUS

LEMMA ConcatPaths == \A a, b, c \in Paths : a \o (b \o c) = (a \o b) \o c
  BY DEF Paths

(* Going down: what is first inside is first where the call came from.     *)
LEMMA CarriedBelow ==
  ASSUME NEW m \in Inputs, NEW c \in CallRecords, c.depth < MaxDepth, NEW all,
         Carried(m, c, all), NEW i \in 1..Len(m.nodes[c.graph]), Clear(m, c, i),
         NEW d \in CallRecords, d.graph = m.nodes[c.graph][i].holds, d.depth = c.depth + 1,
         d.path = Append(c.path, m.nodes[c.graph][i].name)
  PROVE  Carried(m, d, all)
<1> DEFINE g == c.graph
           name == m.nodes[g][i].name
           inside == InsideProblems(m, MaxDepth - c.depth)
           path == c.path
<1>1. c.depth \in Nat /\ path \in Paths /\ d.graph \in Graphs /\ c.depth <= MaxDepth
  BY ModelAssumption DEF CallRecords
<1>2. /\ inside \in ProblemTables /\ g \in Graphs /\ ProblemsIn(m, c) = ProblemsOf(m, g, inside)
      /\ inside[d.graph] = ProblemsIn(m, d)
  <2>1. /\ inside \in ProblemTables /\ g \in Graphs
        /\ ProblemsIn(m, c) = ProblemsOf(m, g, inside)
        /\ \A h \in Graphs, e \in CallRecords :
             c.depth < MaxDepth /\ e.graph = h /\ e.depth = c.depth + 1 =>
               inside[h] = ProblemsIn(m, e)
    BY <1>1, CallProblems, Zenon
  <2> HIDE DEF inside, g
  <2>2. QED
    BY <1>1, <2>1
<1>3. i \in Nat /\ name \in Names /\ name \in Names \cup {"<node>"}
  BY <1>2, ModelFacts
<1>4. PICK at \in Seq(Nat) : \A p \in ProblemRecords :
        FirstOf(ProblemsIn(m, c), p) =>
          FirstOf(all, Problem(at \o p.at, IF p.deep THEN <<>> ELSE path \o p.path, p.deep))
  BY Zenon DEF Carried
<1>5. \A k \in 1..Len(m.nodes[g]) : k < i => ProblemsAt(m, g, k, inside) = {}
  BY DEF Clear, ProblemsOfNode
<1>6. at \o <<i>> \in Seq(Nat)
  BY <1>3
<1> SUFFICES ASSUME NEW p \in ProblemRecords, FirstOf(ProblemsIn(m, d), p)
             PROVE  FirstOf(all, Problem((at \o <<i>>) \o p.at,
                                         IF p.deep THEN <<>> ELSE d.path \o p.path, p.deep))
  BY <1>6, Zenon DEF Carried
<1> DEFINE q == Under(<<i>>, <<name>>, p)
<1>7. FirstOf(ProblemsIn(m, c), q)
  <2>1. m.nodes[g][i].holds \in Graphs /\ FirstOf(inside[m.nodes[g][i].holds], p)
    BY <1>1, <1>2
  <2>2. FirstOf(ProblemsOf(m, g, inside), q)
    BY <1>2, <1>5, <2>1, FirstBelow, Zenon
  <2>3. QED
    BY <1>2, <2>2
<1>8. /\ q \in ProblemRecords /\ q.deep = p.deep /\ q.at = <<i>> \o p.at
      /\ q.path = IF p.deep THEN <<>> ELSE <<name>> \o p.path
  BY <1>3, UnderSays, Zenon
<1> HIDE DEF q
<1>9. FirstOf(all, Problem(at \o q.at, IF q.deep THEN <<>> ELSE path \o q.path, q.deep))
  BY <1>4, <1>7, <1>8, Zenon
<1>10. at \o q.at = (at \o <<i>>) \o p.at
  <2> DEFINE b == p.at
             one == <<i>>
  <2>1. b \in Seq(Nat) /\ one \in Seq(Nat)
    BY <1>3 DEF ProblemRecords
  <2> HIDE DEF b, one
  <2>2. at \o (one \o b) = (at \o one) \o b
    BY <2>1, ConcatPositions, Zenon
  <2>3. q.at = one \o b
    BY <1>8 DEF b, one
  <2>4. QED
    BY <2>2, <2>3 DEF b, one
<1>11. ASSUME ~p.deep PROVE path \o q.path = d.path \o p.path
  <2> DEFINE b == p.path
             one == <<name>>
             All == Names \cup {"<node>"}
  <2>1. b \in Seq(All) /\ one \in Seq(All) /\ path \in Seq(All) /\ name \in All
    <3>1. b \in Seq(Names)
      BY DEF ProblemRecords
    <3>2. Seq(Names) \subseteq Seq(All)
      OBVIOUS
    <3>3. one \in Seq(All)
      BY <1>3
    <3>4. path \in Seq(All)
      BY <1>1 DEF Paths
    <3>5. QED
      BY <1>3, <3>1, <3>2, <3>3, <3>4
  <2>2. q.path = one \o b /\ d.path = Append(path, name)
    BY <1>8, <1>11
  <2> HIDE DEF b, All, name, path, one
  <2>3. path \o (one \o b) = (path \o one) \o b
    BY <2>1, ConcatPaths, Zenon DEF Paths, All
  <2>4. Append(path, name) = path \o one
    <3>1. Append(path, name) = path \o <<name>>
      BY <2>1, AppendIsConcat
    <3>2. QED
      BY <3>1 DEF one
  <2>5. QED
    BY <2>2, <2>3, <2>4 DEF b
<1>12. (IF q.deep THEN <<>> ELSE path \o q.path) = IF p.deep THEN <<>> ELSE d.path \o p.path
  BY <1>8, <1>11, Zenon
<1>13. QED
  BY <1>8, <1>9, <1>10, <1>12, Zenon

(* Calls that differ only in the next node.                                *)
LEMMA CallSame ==
  ASSUME NEW m, NEW all, NEW c, NEW d, c.graph = d.graph, c.depth = d.depth, c.path = d.path
  PROVE  /\ ProblemsIn(m, c) = ProblemsIn(m, d) /\ Carried(m, c, all) = Carried(m, d, all)
         /\ \A k : ProblemsOfNode(m, c, k) = ProblemsOfNode(m, d, k)
         /\ \A upto : Clear(m, c, upto) = Clear(m, d, upto)
  BY DEF ProblemsIn, Carried, Clear, ProblemsOfNode

LEMMA NodeProblems ==
  ASSUME NEW m \in Inputs, NEW c \in CallRecords, c.depth <= MaxDepth,
         NEW k \in 1..Len(m.nodes[c.graph])
  PROVE  LET node == m.nodes[c.graph][k]
         IN /\ node.holds \in Graphs /\ c.depth < MaxDepth =>
                 \A d \in CallRecords :
                   d.graph = node.holds /\ d.depth = c.depth + 1 /\ ProblemsIn(m, d) = {} =>
                     ProblemsOfNode(m, c, k) = {}
            /\ node.holds \in Graphs /\ c.depth = MaxDepth =>
                 ProblemsOfNode(m, c, k) = {Problem(<<k>>, <<>>, TRUE)}
            /\ node.holds \in Leaves =>
                 ProblemsOfNode(m, c, k) =
                   IF NodeLegal(node.holds) THEN {} ELSE {Problem(<<k>>, <<node.name>>, FALSE)}
            /\ Problem(<<k>>, <<>>, TRUE) \in ProblemRecords
            /\ Problem(<<k>>, <<node.name>>, FALSE) \in ProblemRecords
<1> DEFINE g == c.graph
           node == m.nodes[g][k]
           h == node.holds
           inside == InsideProblems(m, MaxDepth - c.depth)
           here == ProblemsOfNode(m, c, k)
<1>1. /\ inside \in ProblemTables /\ g \in Graphs
      /\ \A f \in Graphs, d \in CallRecords :
           c.depth < MaxDepth /\ d.graph = f /\ d.depth = c.depth + 1 =>
             inside[f] = ProblemsIn(m, d)
      /\ c.depth = MaxDepth => \A f \in Graphs : inside[f] = {Problem(<<>>, <<>>, TRUE)}
  BY CallProblems, Zenon
<1>2. k \in Nat /\ node.name \in Names /\ here = ProblemsAt(m, g, k, inside)
  BY <1>1, ModelFacts DEF ProblemsOfNode
<1>3. h \in Graphs => here = {Under(<<k>>, <<node.name>>, p) : p \in inside[h]}
  BY <1>2, Zenon DEF ProblemsAt
<1> HIDE DEF inside, here
<1>4. ASSUME h \in Graphs, c.depth < MaxDepth, NEW d \in CallRecords,
             d.graph = h, d.depth = c.depth + 1, ProblemsIn(m, d) = {}
      PROVE  here = {}
  <2>1. inside[h] = {}
    BY <1>1, <1>4, Zenon
  <2>2. QED
    BY <1>3, <1>4, <2>1
<1>5. ASSUME h \in Graphs, c.depth = MaxDepth PROVE here = {Problem(<<k>>, <<>>, TRUE)}
  <2> DEFINE p == Problem(<<>>, <<>>, TRUE)
  <2>1. inside[h] = {p}
    BY <1>1, <1>5, Zenon
  <2>2. Under(<<k>>, <<node.name>>, p) = Problem(<<k>>, <<>>, TRUE)
    <3>1. p.at = <<>> /\ p.deep = TRUE
      BY DEF Problem
    <3>2. <<k>> \o <<>> = <<k>>
      BY <1>2
    <3> HIDE DEF p
    <3>3. QED
      BY <3>1, <3>2, Zenon DEF Under
  <2>3. here = {Under(<<k>>, <<node.name>>, x) : x \in inside[h]}
    BY <1>3, <1>5
  <2> DEFINE name == node.name
             below == inside[h]
  <2> HIDE DEF p, name, below
  <2>4. {Under(<<k>>, <<name>>, x) : x \in below} = {Under(<<k>>, <<name>>, p)}
    <3>1. below = {p}
      BY <2>1 DEF below
    <3>2. \A q : q \in {Under(<<k>>, <<name>>, x) : x \in below} <=> q = Under(<<k>>, <<name>>, p)
      BY <3>1, Zenon
    <3>3. QED
      BY <3>2, Zenon
  <2>5. QED
    BY <2>2, <2>3, <2>4, Zenon DEF name, below
<1>6. ASSUME h \in Leaves
      PROVE  here = IF NodeLegal(h) THEN {} ELSE {Problem(<<k>>, <<node.name>>, FALSE)}
  <2>1. h \notin Graphs
    BY <1>6, ModelAssumption
  <2>2. QED
    BY <1>2, <2>1, Zenon DEF ProblemsAt
<1>7. /\ Problem(<<k>>, <<>>, TRUE) \in ProblemRecords
      /\ Problem(<<k>>, <<node.name>>, FALSE) \in ProblemRecords
  BY <1>2 DEF Problem, ProblemRecords
<1>8. QED
  BY <1>4, <1>5, <1>6, <1>7, Zenon DEF here

(* The only problem of the next node is, below the path of the call, the   *)
(* first of all.                                                           *)
LEMMA FirstOfAll ==
  ASSUME NEW m \in Inputs, NEW c \in CallRecords, c.depth <= MaxDepth, NEW all,
         Carried(m, c, all), NEW k \in 1..Len(m.nodes[c.graph]), Clear(m, c, k),
         NEW p \in ProblemRecords, ProblemsOfNode(m, c, k) = {p}
  PROVE  \E q : /\ FirstOf(all, q) /\ q.deep = p.deep
                /\ q.path = IF p.deep THEN <<>> ELSE c.path \o p.path
<1> DEFINE inside == InsideProblems(m, MaxDepth - c.depth)
           g == c.graph
<1>1. inside \in ProblemTables /\ g \in Graphs /\ ProblemsIn(m, c) = ProblemsOf(m, g, inside)
  BY CallProblems, Zenon
<1>2. /\ ProblemsAt(m, g, k, inside) = {p}
      /\ \A i \in 1..Len(m.nodes[g]) : i < k => ProblemsAt(m, g, i, inside) = {}
  BY DEF Clear, ProblemsOfNode
<1>3. FirstOf(ProblemsAt(m, g, k, inside), p)
  BY <1>2 DEF FirstOf
<1> HIDE DEF inside
<1>4. FirstOf(ProblemsIn(m, c), p)
  <2>1. FirstOf(ProblemsOf(m, g, inside), p)
    BY <1>1, <1>2, <1>3, FirstHere, Zenon
  <2>2. QED
    BY <1>1, <2>1
<1>5. PICK at \in Seq(Nat) :
        FirstOf(all, Problem(at \o p.at, IF p.deep THEN <<>> ELSE c.path \o p.path, p.deep))
  BY <1>4, Zenon DEF Carried
<1> DEFINE path == IF p.deep THEN <<>> ELSE c.path \o p.path
           q == Problem(at \o p.at, path, p.deep)
<1> HIDE DEF path
<1>6. q.deep = p.deep /\ q.path = path
  BY DEF Problem
<1>7. FirstOf(all, q)
  BY <1>5 DEF path
<1> HIDE DEF q
<1>8. QED
  BY <1>6, <1>7, Zenon DEF path

-----------------------------------------------------------------------------
(* The walk keeps what its open calls say.                                 *)
LEMMA ProblemCalls ==
  ASSUME TypeInv, NEW all, CallsInv(calls, model, all)
  PROVE  /\ model \in Inputs /\ calls \in Seq(CallRecords) /\ Len(calls) \in Nat
         /\ \A j \in 1..Len(calls) :
              /\ calls[j] \in CallRecords /\ calls[j].graph \in Graphs /\ calls[j].next \in Nat
              /\ calls[j].depth \in Nat /\ calls[j].depth <= MaxDepth
              /\ Carried(model, calls[j], all)
<1>1. model \in Inputs /\ calls \in Seq(CallRecords)
  BY DEF TypeInv, ParametersTyped
<1>2. Len(calls) \in Nat /\ \A j \in 1..Len(calls) : calls[j] \in CallRecords
  BY <1>1
<1>3. \A j \in 1..Len(calls) : calls[j].depth <= MaxDepth /\ Carried(model, calls[j], all)
  BY Zenon DEF CallsInv
<1>4. \A c \in CallRecords : c.graph \in Graphs /\ c.next \in Nat /\ c.depth \in Nat
  BY DEF CallRecords
<1>5. QED
  BY <1>1, <1>2, <1>3, <1>4, Zenon

(* What holds of the calls once the innermost has gone on to its next      *)
(* node, except that nothing is said of the node it leaves.                *)
LEMMA ProblemAdvance ==
  ASSUME TypeInv, NEW all, CallsInv(calls, model, all), P!Looking
  PROVE  LET n == Len(calls)
             more == P!Advanced
         IN /\ n \in Nat \ {0} /\ Len(more) = n /\ more \in Seq(CallRecords)
            /\ ProblemsIn(model, more[1]) = {} => all = {}
            /\ more[n].next = P!Call.next + 1
            /\ \A k : ProblemsOfNode(model, more[n], k) = ProblemsOfNode(model, P!Call, k)
            /\ \A j \in 1..n :
                 /\ more[j].depth <= MaxDepth /\ Carried(model, more[j], all)
                 /\ Clear(model, more[j], more[j].next - 1)
                 /\ j # n => MadeBy(model, more[j], more[j + 1])
            /\ more[n].graph = P!Call.graph /\ more[n].depth = P!Call.depth
            /\ P!Call \in CallRecords /\ P!Call.depth <= MaxDepth
            /\ Carried(model, P!Call, all) /\ Clear(model, P!Call, P!Call.next)
<1> DEFINE n == Len(calls)
           more == P!Advanced
<1>1. calls # <<>>
  BY DEF P!Looking
<1>2. n \in Nat \ {0} /\ P!Call = calls[n] /\ P!Call \in CallRecords /\ P!Call.next \in Nat
  BY <1>1, CallFacts
<1>3. /\ more \in Seq(CallRecords) /\ Len(more) = n
      /\ \A i \in 1..n :
           /\ more[i].graph = calls[i].graph /\ more[i].depth = calls[i].depth
           /\ more[i].path = calls[i].path
           /\ i # n => more[i] = calls[i]
      /\ more[n].next = P!Call.next + 1
  BY <1>1, AdvancedFacts
<1>4. /\ ProblemsIn(model, calls[1]) = {} => all = {}
      /\ \A j \in 1..n :
           /\ calls[j].depth <= MaxDepth /\ Carried(model, calls[j], all)
           /\ j = n => Clear(model, calls[j], calls[j].next)
           /\ j # n =>
                Clear(model, calls[j], calls[j].next - 1) /\ MadeBy(model, calls[j], calls[j + 1])
  BY <1>1, Zenon DEF CallsInv
<1> HIDE DEF more, n
<1>5. ASSUME NEW j \in 1..n
      PROVE  /\ ProblemsIn(model, more[j]) = ProblemsIn(model, calls[j])
             /\ Carried(model, more[j], all) = Carried(model, calls[j], all)
             /\ \A k : ProblemsOfNode(model, more[j], k) = ProblemsOfNode(model, calls[j], k)
             /\ \A upto : Clear(model, more[j], upto) = Clear(model, calls[j], upto)
  <2>1. more[j].graph = calls[j].graph /\ more[j].depth = calls[j].depth
        /\ more[j].path = calls[j].path
    BY <1>3
  <2>2. QED
    BY <2>1, CallSame, Zenon
<1>6. 1 \in 1..n /\ n \in 1..n
  BY <1>2
<1>7. more[n].next - 1 = P!Call.next
  BY <1>2, <1>3
<1>8. ASSUME NEW j \in 1..n PROVE Clear(model, more[j], more[j].next - 1)
  <2>1. CASE j = n
    BY <1>2, <1>4, <1>5, <1>7, <2>1, Zenon
  <2>2. CASE j # n
    BY <1>3, <1>4, <2>2, Zenon
  <2>3. QED
    BY <2>1, <2>2
<1>9. ASSUME NEW j \in 1..n, j # n PROVE MadeBy(model, more[j], more[j + 1])
  <2>1. j + 1 \in 1..n
    BY <1>2, <1>9
  <2>2. /\ more[j] = calls[j] /\ MadeBy(model, calls[j], calls[j + 1])
        /\ more[j + 1].graph = calls[j + 1].graph /\ more[j + 1].depth = calls[j + 1].depth
    BY <1>3, <1>4, <1>9, <2>1, Zenon
  <2>3. QED
    BY <2>2, Zenon DEF MadeBy
<1>10. \A j \in 1..n : more[j].depth <= MaxDepth /\ Carried(model, more[j], all)
  BY <1>3, <1>4, <1>5, Zenon
<1>11. /\ more[n].graph = P!Call.graph /\ more[n].depth = P!Call.depth
       /\ P!Call.depth <= MaxDepth /\ Carried(model, P!Call, all)
       /\ Clear(model, P!Call, P!Call.next)
  BY <1>2, <1>3, <1>4, <1>6, Zenon
<1>12. /\ ProblemsIn(model, more[1]) = {} => all = {}
       /\ \A k : ProblemsOfNode(model, more[n], k) = ProblemsOfNode(model, P!Call, k)
  BY <1>2, <1>4, <1>5, <1>6, Zenon
<1>13. QED
  BY <1>2, <1>3, <1>8, <1>9, <1>10, <1>11, <1>12, Zenon DEF more, n

LEMMA ProblemEnter ==
  ASSUME TypeInv, NEW all, CallsInv(calls, model, all), P!EnterNested
  PROVE  CallsInv(calls', model, all)
<1> DEFINE n == Len(calls)
           more == P!Advanced
           c == P!Call
           inner == P!Inner(P!NodePath)
<1>1. /\ P!Looking /\ P!Node.holds \in Graphs /\ c.depth < MaxDepth /\ calls # <<>>
      /\ calls' = Append(more, inner)
  BY DEF P!EnterNested, P!Looking
<1>2. /\ n \in Nat \ {0} /\ Len(more) = n /\ more \in Seq(CallRecords)
      /\ ProblemsIn(model, more[1]) = {} => all = {}
      /\ more[n].next = c.next + 1 /\ more[n].graph = c.graph /\ more[n].depth = c.depth
      /\ \A j \in 1..n :
           /\ more[j].depth <= MaxDepth /\ Carried(model, more[j], all)
           /\ Clear(model, more[j], more[j].next - 1)
           /\ j # n => MadeBy(model, more[j], more[j + 1])
      /\ c \in CallRecords /\ Carried(model, c, all) /\ Clear(model, c, c.next)
  BY <1>1, ProblemAdvance, Zenon
<1>3. /\ inner.graph = P!Node.holds /\ inner.next = 1 /\ inner.depth = c.depth + 1
      /\ inner.path = Append(c.path, P!Node.name)
  BY DEF P!Inner, P!NodePath
<1>4. /\ c.next \in 1..Len(model.nodes[c.graph]) /\ P!Node = model.nodes[c.graph][c.next]
      /\ c.next \in Nat /\ c.depth \in Nat /\ model \in Inputs
  BY <1>1, CallFacts DEF TypeInv
<1>5. inner \in CallRecords
  <2>1. ParametersTyped'
    BY <1>1, ParametersTypedStep DEF P!Next
  <2>2. calls' \in Seq(CallRecords)
    BY <2>1 DEF ParametersTyped
  <2> HIDE DEF more, inner, c, n
  <2>3. Len(calls') = n + 1 /\ calls'[n + 1] = inner
    BY <1>1, <1>2
  <2>4. n + 1 \in 1..Len(calls')
    BY <1>2, <2>3
  <2>5. QED
    BY <2>2, <2>3, <2>4
<1> HIDE DEF more, inner, c, n
<1>6. Carried(model, inner, all)
  <2>1. /\ inner.graph = model.nodes[c.graph][c.next].holds
        /\ inner.path = Append(c.path, model.nodes[c.graph][c.next].name)
    BY <1>3, <1>4
  <2>2. QED
    BY <1>1, <1>2, <1>3, <1>4, <1>5, <2>1, CarriedBelow
<1>7. inner.depth <= MaxDepth
  BY <1>1, <1>3, <1>4, ModelAssumption
<1>8. Clear(model, inner, inner.next)
  <2>1. \A k \in 1..Len(model.nodes[inner.graph]) : ~(k < 1)
    <3>1. inner.graph \in Graphs
      BY <1>5 DEF CallRecords
    <3>2. Len(model.nodes[inner.graph]) \in Nat
      BY <1>4, <3>1, ModelFacts
    <3>3. QED
      BY <3>2
  <2>2. QED
    BY <1>3, <2>1, Zenon DEF Clear
<1>9. MadeBy(model, more[n], inner)
  <2>1. more[n].next - 1 = c.next
    BY <1>2, <1>4
  <2>2. QED
    BY <1>2, <1>3, <1>4, <2>1, Zenon DEF MadeBy
<1> DEFINE list == calls'
<1>10. /\ Len(list) = n + 1 /\ list[n + 1] = inner
       /\ \A j \in 1..n : list[j] = more[j]
       /\ list # <<>> /\ 1 \in 1..n
  BY <1>1, <1>2
<1> HIDE DEF list
<1>11. ASSUME NEW j \in 1..n
       PROVE  /\ j \in Nat /\ j # n + 1 /\ (j # n => j + 1 \in 1..n)
  BY <1>2
<1>12. ASSUME NEW j \in 1..Len(list)
       PROVE  /\ list[j].depth <= MaxDepth /\ Carried(model, list[j], all)
              /\ j = Len(list) => Clear(model, list[j], list[j].next)
              /\ j # Len(list) =>
                   Clear(model, list[j], list[j].next - 1) /\ MadeBy(model, list[j], list[j + 1])
  <2>1. CASE j = n + 1
    BY <1>6, <1>7, <1>8, <1>10, <2>1
  <2>2. CASE j = n
    <3>1. list[j] = more[n] /\ list[j + 1] = inner /\ n \in 1..n /\ j # Len(list)
      BY <1>2, <1>10, <2>2
    <3>2. QED
      BY <1>2, <1>9, <3>1, Zenon
  <2>3. CASE j \in 1..n /\ j # n
    <3>1. j + 1 \in 1..n /\ j # Len(list)
      BY <1>10, <1>11, <2>3
    <3>2. list[j] = more[j] /\ list[j + 1] = more[j + 1]
      BY <1>10, <2>3, <3>1
    <3>3. QED
      BY <1>2, <2>3, <3>1, <3>2, Zenon
  <2>4. j = n + 1 \/ j \in 1..n
    BY <1>2, <1>10
  <2>5. QED
    BY <2>1, <2>2, <2>3, <2>4, Zenon
<1>13. ProblemsIn(model, list[1]) = {} => all = {}
  BY <1>2, <1>10
<1>14. CallsInv(list, model, all)
  BY <1>10, <1>12, <1>13, Zenon DEF CallsInv
<1>15. QED
  BY <1>14 DEF list

LEMMA ProblemPass ==
  ASSUME TypeInv, NEW all, CallsInv(calls, model, all), P!PassNode
  PROVE  CallsInv(calls', model, all)
<1> DEFINE n == Len(calls)
           more == P!Advanced
           c == P!Call
<1>1. /\ P!Looking /\ P!Node.holds \in Leaves /\ P!NodeFault(P!Node.holds).error = "none"
      /\ calls # <<>> /\ calls' = more
  BY DEF P!PassNode, P!Looking
<1>2. /\ n \in Nat \ {0} /\ Len(more) = n
      /\ ProblemsIn(model, more[1]) = {} => all = {}
      /\ more[n].next = c.next + 1 /\ more[n].graph = c.graph
      /\ \A k : ProblemsOfNode(model, more[n], k) = ProblemsOfNode(model, c, k)
      /\ \A j \in 1..n :
           /\ more[j].depth <= MaxDepth /\ Carried(model, more[j], all)
           /\ Clear(model, more[j], more[j].next - 1)
           /\ j # n => MadeBy(model, more[j], more[j + 1])
      /\ c \in CallRecords /\ c.depth <= MaxDepth /\ Clear(model, c, c.next)
  BY <1>1, ProblemAdvance, Zenon
<1>3. /\ c.next \in 1..Len(model.nodes[c.graph]) /\ P!Node = model.nodes[c.graph][c.next]
      /\ c.next \in Nat /\ Len(model.nodes[c.graph]) \in Nat /\ model \in Inputs
  BY <1>1, CallFacts DEF TypeInv
<1> HIDE DEF more, c, n
<1>4. ProblemsOfNode(model, c, c.next) = {}
  <2>1. NodeLegal(model.nodes[c.graph][c.next].holds)
    BY <1>1, <1>3, LegalNode
  <2>2. ProblemsOfNode(model, c, c.next) =
          IF NodeLegal(model.nodes[c.graph][c.next].holds) THEN {}
          ELSE {Problem(<<c.next>>, <<model.nodes[c.graph][c.next].name>>, FALSE)}
    <3>1. model.nodes[c.graph][c.next].holds \in Leaves
      BY <1>1, <1>3
    <3>2. c \in CallRecords /\ c.depth <= MaxDepth
      BY <1>2
    <3>3. c.next \in 1..Len(model.nodes[c.graph]) /\ model \in Inputs
      BY <1>3
    <3>4. QED
      BY <3>1, <3>2, <3>3, NodeProblems, Zenon
  <2>3. QED
    BY <2>1, <2>2
<1>5. Clear(model, more[n], more[n].next)
  <2>1. ASSUME NEW k \in 1..Len(model.nodes[c.graph]), k < c.next + 1
        PROVE  ProblemsOfNode(model, c, k) = {}
    <3>1. CASE k = c.next
      BY <1>4, <3>1
    <3>2. CASE k # c.next
      <4>1. k < c.next
        BY <1>3, <2>1, <3>2
      <4>2. QED
        BY <1>2, <4>1, Zenon DEF Clear
    <3>3. QED
      BY <3>1, <3>2
  <2>2. QED
    BY <1>2, <2>1, Zenon DEF Clear
<1>6. 1 \in 1..n /\ more # <<>>
  BY <1>2
<1>7. CallsInv(more, model, all)
  BY <1>2, <1>5, <1>6, Zenon DEF CallsInv
<1>8. QED
  BY <1>1, <1>7

LEMMA ProblemReturn ==
  ASSUME TypeInv, NEW all, CallsInv(calls, model, all), P!Return
  PROVE  CallsInv(calls', model, all)
<1> DEFINE n == Len(calls)
           last == P!Call
           list == SubSeq(calls, 1, n - 1)
<1>1. /\ calls # <<>> /\ last.next > Len(model.nodes[last.graph]) /\ calls' = list
  BY DEF P!Return, P!Front
<1>2. /\ model \in Inputs /\ calls \in Seq(CallRecords) /\ n \in Nat \ {0}
      /\ last = calls[n] /\ last.next \in Nat
      /\ \A j \in 1..n :
           /\ calls[j] \in CallRecords /\ calls[j].graph \in Graphs /\ calls[j].next \in Nat
           /\ calls[j].depth \in Nat /\ calls[j].depth <= MaxDepth
           /\ Carried(model, calls[j], all)
  <2>1. n \in Nat \ {0} /\ last = calls[n] /\ last.next \in Nat
    BY <1>1, CallFacts
  <2>2. QED
    BY <2>1, ProblemCalls, Zenon
<1>3. /\ ProblemsIn(model, calls[1]) = {} => all = {}
      /\ \A j \in 1..n :
           /\ j = n => Clear(model, calls[j], calls[j].next)
           /\ j # n =>
                Clear(model, calls[j], calls[j].next - 1) /\ MadeBy(model, calls[j], calls[j + 1])
  BY <1>1, Zenon DEF CallsInv
<1> HIDE DEF n, last
<1>4. n \in 1..n /\ 1 \in 1..n
  BY <1>2
<1>5. ProblemsIn(model, calls[n]) = {}
  BY <1>1, <1>2, <1>3, <1>4, AllClear
<1>6. CASE n = 1
  <2>1. list = <<>>
    BY <1>2, <1>6
  <2> HIDE DEF list
  <2>2. all = {}
    BY <1>3, <1>5, <1>6
  <2>3. Len(list) = 0
    BY <2>1
  <2>4. CallsInv(list, model, all)
    BY <2>1, <2>2, <2>3 DEF CallsInv
  <2>5. QED
    BY <1>1, <2>4
<1>7. CASE n # 1
  <2> DEFINE l == n - 1
             c == calls[l]
             k == c.next - 1
  <2>1. l \in 1..n /\ l # n /\ l + 1 = n /\ l \in Nat \ {0}
    BY <1>2, <1>7
  <2>2. Len(list) = l /\ \A j \in 1..l : list[j] = calls[j]
    BY <1>2, <2>1
  <2> HIDE DEF l, list
  <2>3. c \in CallRecords /\ c.depth <= MaxDepth /\ c.depth \in Nat /\ c.next \in Nat
    BY <1>2, <2>1
  <2>4. /\ k \in 1..Len(model.nodes[c.graph]) /\ calls[n].depth = c.depth + 1
        /\ model.nodes[c.graph][k].holds = calls[n].graph /\ Clear(model, c, k)
    BY <1>3, <2>1, Zenon DEF MadeBy
  <2>5. calls[n] \in CallRecords /\ calls[n].graph \in Graphs /\ calls[n].depth <= MaxDepth
    BY <1>2, <1>4
  <2>6. c.depth < MaxDepth
    BY <2>3, <2>4, <2>5, ModelAssumption
  <2> HIDE DEF c, k
  <2>7. ProblemsOfNode(model, c, k) = {}
    <3>1. model.nodes[c.graph][k].holds \in Graphs
      BY <2>4, <2>5
    <3>2. \A d \in CallRecords :
            d.graph = model.nodes[c.graph][k].holds /\ d.depth = c.depth + 1
              /\ ProblemsIn(model, d) = {} =>
                ProblemsOfNode(model, c, k) = {}
      BY <1>2, <2>3, <2>4, <2>6, <3>1, NodeProblems, Zenon
    <3>3. QED
      BY <1>5, <2>4, <2>5, <3>2
  <2>8. Clear(model, c, c.next)
    <3> SUFFICES ASSUME NEW i \in 1..Len(model.nodes[c.graph]), i < c.next
                 PROVE  ProblemsOfNode(model, c, i) = {}
      BY Zenon DEF Clear
    <3>1. CASE i = k
      BY <2>7, <3>1
    <3>2. CASE i # k
      <4>1. Len(model.nodes[c.graph]) \in Nat
        <5>1. c.graph \in Graphs
          BY <2>3 DEF CallRecords
        <5>2. QED
          BY <1>2, <5>1, ModelFacts
      <4>2. i < k
        BY <2>3, <3>2, <4>1 DEF k
      <4>3. QED
        BY <2>4, <4>2, Zenon DEF Clear
    <3>3. QED
      BY <3>1, <3>2
  <2>9. ASSUME NEW j \in 1..l
        PROVE  /\ list[j] = calls[j] /\ j \in 1..n /\ j # n
               /\ (j = l => list[j] = c)
               /\ (j # l => list[j + 1] = calls[j + 1])
    <3>1. j \in 1..n /\ j # n /\ (j # l => j + 1 \in 1..l)
      BY <1>2, <2>1
    <3>2. QED
      BY <2>2, <3>1 DEF c
  <2>10. ASSUME NEW j \in 1..Len(list)
         PROVE  /\ list[j].depth <= MaxDepth /\ Carried(model, list[j], all)
                /\ j = Len(list) => Clear(model, list[j], list[j].next)
                /\ j # Len(list) =>
                     Clear(model, list[j], list[j].next - 1) /\ MadeBy(model, list[j], list[j + 1])
    <3>1. j \in 1..l
      BY <2>2
    <3>2. list[j].depth <= MaxDepth /\ Carried(model, list[j], all)
      BY <1>2, <2>9, <3>1, Zenon
    <3>3. j = Len(list) => Clear(model, list[j], list[j].next)
      BY <2>2, <2>8, <2>9, <3>1
    <3>4. j # Len(list) =>
            Clear(model, list[j], list[j].next - 1) /\ MadeBy(model, list[j], list[j + 1])
      BY <1>3, <2>2, <2>9, <3>1, Zenon
    <3>5. QED
      BY <3>2, <3>3, <3>4
  <2>11. list # <<>> /\ list[1] = calls[1]
    BY <2>1, <2>2
  <2>12. CallsInv(list, model, all)
    BY <1>3, <2>10, <2>11, Zenon DEF CallsInv
  <2>13. QED
    BY <1>1, <2>12
<1>8. QED
  BY <1>6, <1>7

(* What the walk returns when it stops, in the words of the property.      *)
Answers(verdict, all) ==
  IF all = {} THEN verdict = Accepted
  ELSE \E p \in all :
         /\ FirstOf(all, p) /\ verdict.path = p.path
         /\ verdict.variant = IF p.deep THEN "InvalidGraph" ELSE "InvalidNodeParameters"

LEMMA AnswersProblem ==
  ASSUME NEW all, NEW p, FirstOf(all, p), NEW verdict, verdict.path = p.path,
         verdict.variant = IF p.deep THEN "InvalidGraph" ELSE "InvalidNodeParameters"
  PROVE  Answers(verdict, all)
<1>1. p \in all /\ all # {}
  BY DEF FirstOf
<1>2. QED
  BY <1>1, Zenon DEF Answers

LEMMA ProblemRejectDeep ==
  ASSUME TypeInv, NEW all, CallsInv(calls, model, all), P!RejectDeep
  PROVE  Answers(parameters', all)
<1> DEFINE c == P!Call
           k == c.next
           p == Problem(<<k>>, <<>>, TRUE)
<1>1. /\ P!Looking /\ P!Node.holds \in Graphs /\ c.depth >= MaxDepth /\ calls # <<>>
      /\ parameters' = P!DepthError
  BY DEF P!RejectDeep, P!Looking
<1>2. c \in CallRecords /\ c.depth <= MaxDepth /\ Carried(model, c, all) /\ Clear(model, c, k)
  BY <1>1, ProblemAdvance, Zenon
<1>3. /\ k \in 1..Len(model.nodes[c.graph]) /\ P!Node = model.nodes[c.graph][k]
      /\ c.depth \in Nat /\ model \in Inputs
  BY <1>1, CallFacts DEF TypeInv
<1>4. c.depth = MaxDepth
  BY <1>1, <1>2, <1>3, ModelAssumption
<1> HIDE DEF c, k
<1>5. ProblemsOfNode(model, c, k) = {p} /\ p \in ProblemRecords
  <2>1. model.nodes[c.graph][k].holds \in Graphs
    BY <1>1, <1>3
  <2>2. c \in CallRecords /\ c.depth <= MaxDepth
    BY <1>2
  <2>3. k \in 1..Len(model.nodes[c.graph]) /\ model \in Inputs
    BY <1>3
  <2>4. QED
    BY <1>4, <2>1, <2>2, <2>3, NodeProblems, Zenon
<1>6. p.deep = TRUE
  BY DEF Problem
<1> HIDE DEF p
<1>7. PICK q : /\ FirstOf(all, q) /\ q.deep = p.deep
               /\ q.path = IF p.deep THEN <<>> ELSE c.path \o p.path
  BY <1>2, <1>3, <1>5, FirstOfAll, Zenon
<1>8. P!DepthError.path = <<>> /\ P!DepthError.variant = "InvalidGraph"
  BY DEF P!DepthError
<1>9. q.path = <<>> /\ q.deep = TRUE
  BY <1>6, <1>7, Zenon
<1>10. /\ parameters'.path = q.path
       /\ parameters'.variant = IF q.deep THEN "InvalidGraph" ELSE "InvalidNodeParameters"
  BY <1>1, <1>8, <1>9
<1>11. QED
  BY <1>7, <1>10, AnswersProblem, Zenon

LEMMA ProblemRejectNode ==
  ASSUME TypeInv, NEW all, CallsInv(calls, model, all), P!RejectNode
  PROVE  Answers(parameters', all)
<1> DEFINE c == P!Call
           k == c.next
           name == P!Node.name
           p == Problem(<<k>>, <<name>>, FALSE)
<1>1. /\ P!Looking /\ P!Node.holds \in Leaves /\ calls # <<>>
      /\ P!NodeFault(P!Node.holds).error # "none"
      /\ parameters' = P!ParameterError(P!NodePath, P!NodeFault(P!Node.holds))
  BY DEF P!RejectNode, P!Looking
<1>2. c \in CallRecords /\ c.depth <= MaxDepth /\ Carried(model, c, all) /\ Clear(model, c, k)
  BY <1>1, ProblemAdvance, Zenon
<1>3. /\ k \in 1..Len(model.nodes[c.graph]) /\ P!Node = model.nodes[c.graph][k]
      /\ c.depth \in Nat /\ model \in Inputs /\ c.path \in Paths /\ name \in Names
  BY <1>1, CallFacts DEF TypeInv
<1>4. P!NodePath = Append(c.path, name)
  BY DEF P!NodePath
<1> HIDE DEF c, k
<1>5. ProblemsOfNode(model, c, k) = {p} /\ p \in ProblemRecords
  <2>1. model.nodes[c.graph][k].holds \in Leaves
    BY <1>1, <1>3
  <2>2. ~NodeLegal(model.nodes[c.graph][k].holds)
    BY <1>1, <1>3, LegalNode
  <2>3. /\ ProblemsOfNode(model, c, k) =
             IF NodeLegal(model.nodes[c.graph][k].holds) THEN {}
             ELSE {Problem(<<k>>, <<model.nodes[c.graph][k].name>>, FALSE)}
        /\ Problem(<<k>>, <<model.nodes[c.graph][k].name>>, FALSE) \in ProblemRecords
    <3>1. c \in CallRecords /\ c.depth <= MaxDepth
      BY <1>2
    <3>2. k \in 1..Len(model.nodes[c.graph]) /\ model \in Inputs
      BY <1>3
    <3>3. QED
      BY <2>1, <3>1, <3>2, NodeProblems, Zenon
  <2>4. name = model.nodes[c.graph][k].name
    BY <1>3
  <2> HIDE DEF name
  <2>5. QED
    BY <2>2, <2>3, <2>4, Zenon
<1>6. p.deep = FALSE /\ p.path = <<name>>
  BY DEF Problem
<1> HIDE DEF p, name
<1>7. PICK q : /\ FirstOf(all, q) /\ q.deep = p.deep
               /\ q.path = IF p.deep THEN <<>> ELSE c.path \o p.path
  BY <1>2, <1>3, <1>5, FirstOfAll, Zenon
<1>8. q.path = P!NodePath /\ q.deep = FALSE
  <2> DEFINE path == c.path
             All == Names \cup {"<node>"}
  <2>1. path \in Seq(All) /\ name \in All
    BY <1>3 DEF Paths
  <2>2. q.path = path \o <<name>> /\ q.deep = FALSE
    BY <1>6, <1>7, Zenon
  <2> HIDE DEF path, All
  <2>3. Append(path, name) = path \o <<name>>
    BY <2>1, AppendIsConcat
  <2>4. QED
    BY <1>4, <2>2, <2>3, Zenon DEF path
<1>9. \A path, fault : /\ P!ParameterError(path, fault).path = path
                       /\ P!ParameterError(path, fault).variant = "InvalidNodeParameters"
  BY DEF P!ParameterError
<1>10. parameters'.path = P!NodePath /\ parameters'.variant = "InvalidNodeParameters"
  BY <1>1, <1>9, Zenon
<1>11. /\ parameters'.path = q.path
       /\ parameters'.variant = IF q.deep THEN "InvalidGraph" ELSE "InvalidNodeParameters"
  BY <1>8, <1>10
<1>12. QED
  BY <1>7, <1>11, AnswersProblem, Zenon

LEMMA ProblemAccept ==
  ASSUME NEW all, CallsInv(calls, model, all), P!Accept
  PROVE  Answers(parameters', all)
<1>1. calls = <<>> /\ parameters' = Accepted
  BY SameWords DEF P!Accept
<1>2. all = {}
  BY <1>1 DEF CallsInv
<1>3. QED
  BY <1>1, <1>2 DEF Answers

LEMMA ProblemInit == Init => ProblemInv
<1> SUFFICES ASSUME Init PROVE ProblemInv
  OBVIOUS
<1>1. PICK m \in Inputs, e \in {"graph", "node"} : P!StartOn(m, e)
  BY DEF Init
<1> DEFINE path == P!EntryPath(e)
           c == [graph |-> Top, next |-> 1, path |-> path, depth |-> IF e = "node" THEN 1 ELSE 0]
           here == ProblemsIn(model, c)
<1>2. /\ model = m /\ entry = e /\ parameters = P!NoVerdict /\ calls = <<c>>
  BY <1>1, Zenon DEF P!StartOn
<1>3. c.depth = Len(path) /\ c.depth <= MaxDepth /\ c.depth \in Nat
      /\ c.graph = Top /\ c.next = 1 /\ c.path = path
  BY ModelAssumption DEF P!EntryPath
<1>4. here \in SUBSET ProblemRecords
  <2>1. MaxDepth - c.depth \in 0..MaxDepth /\ Top \in Graphs
    BY <1>3, ModelAssumption
  <2> HIDE DEF c
  <2>2. AllProblems(model)[MaxDepth - c.depth] \in ProblemTables
    BY <1>2, <2>1, ProblemsUnfold
  <2>3. QED
    BY <1>3, <2>1, <2>2 DEF ProblemsIn, ProblemTables
<1>5. Problems = {Under(<<>>, path, p) : p \in here}
  <2>1. here = AllProblems(model)[MaxDepth - Len(path)][Top]
    BY <1>3 DEF ProblemsIn
  <2>2. QED
    BY <1>2, <2>1, Zenon DEF Problems
<1> HIDE DEF path
<1>6. ASSUME NEW p \in ProblemRecords
      PROVE  Under(<<>>, path, p).at = p.at
  <2> DEFINE at == p.at
  <2>1. at \in Seq(Nat)
    BY DEF ProblemRecords
  <2>2. Under(<<>>, path, p).at = <<>> \o at
    BY DEF Under, Problem
  <2> HIDE DEF at
  <2>3. <<>> \o at = at
    BY <2>1
  <2>4. QED
    BY <2>2, <2>3, Zenon DEF at
<1>7. ASSUME NEW p \in ProblemRecords, FirstOf(here, p)
      PROVE  FirstOf(Problems, Under(<<>>, path, p))
  <2> HIDE DEF here
  <2>1. p \in here /\ \A q \in here : q = p \/ Earlier(p.at, q.at)
    BY <1>7, Zenon DEF FirstOf
  <2>2. Under(<<>>, path, p) \in Problems
    BY <1>5, <2>1
  <2>3. ASSUME NEW x \in Problems
        PROVE  x = Under(<<>>, path, p) \/ Earlier(Under(<<>>, path, p).at, x.at)
    <3>1. PICK q \in here : x = Under(<<>>, path, q)
      BY <1>5, <2>3
    <3>2. q \in ProblemRecords
      BY <1>4, <3>1
    <3>3. x.at = q.at /\ Under(<<>>, path, p).at = p.at
      BY <1>6, <3>1, <3>2
    <3>4. CASE q = p
      BY <3>1, <3>4
    <3>5. CASE Earlier(p.at, q.at)
      BY <3>3, <3>5
    <3>6. QED
      BY <2>1, <3>4, <3>5
  <2>4. QED
    BY <2>2, <2>3, Zenon DEF FirstOf
<1> HIDE DEF c
<1>8. Carried(model, c, Problems)
  <2>1. <<>> \in Seq(Nat)
    OBVIOUS
  <2>2. ASSUME NEW p \in ProblemRecords, FirstOf(ProblemsIn(model, c), p)
        PROVE  FirstOf(Problems, Problem(<<>> \o p.at, IF p.deep THEN <<>> ELSE c.path \o p.path,
                                         p.deep))
    <3>1. FirstOf(Problems, Under(<<>>, path, p))
      BY <1>7, <2>2
    <3>2. QED
      BY <1>3, <3>1, Zenon DEF Under
  <2>3. QED
    BY <2>1, <2>2, Zenon DEF Carried
<1>9. Clear(model, c, c.next)
  <2>1. Top \in Graphs /\ model \in Inputs
    BY <1>2, ModelAssumption
  <2>2. Len(model.nodes[c.graph]) \in Nat
    BY <1>3, <2>1, ModelFacts
  <2>3. \A k \in 1..Len(model.nodes[c.graph]) : ~(k < c.next)
    BY <1>3, <2>2
  <2>4. QED
    BY <2>3, Zenon DEF Clear
<1>10. here = {} => Problems = {}
  <2> HIDE DEF here
  <2>1. QED
    BY <1>5
<1>11. Len(calls) = 1 /\ calls[1] = c /\ calls # <<>>
  BY <1>2
<1>12. \A j \in 1..Len(calls) : j = 1 /\ j = Len(calls)
  BY <1>11
<1>13. CallsInv(calls, model, Problems)
  <2>1. ProblemsIn(model, calls[1]) = {} => Problems = {}
    BY <1>10, <1>11
  <2>2. \A j \in 1..Len(calls) : calls[j] = c /\ j = Len(calls)
    BY <1>11, <1>12
  <2>3. QED
    BY <1>3, <1>8, <1>9, <1>11, <2>1, <2>2, Zenon DEF CallsInv
<1>14. QED
  BY <1>2, <1>13 DEF ProblemInv, ParametersAsDefined

LEMMA ProblemNext == TypeInv /\ ProblemInv /\ [Next]_vars => ProblemInv'
<1> SUFFICES ASSUME TypeInv, ProblemInv, [Next]_vars PROVE ProblemInv'
  OBVIOUS
<1> DEFINE all == Problems
<1>1. ParametersAsDefined <=> (parameters # P!NoVerdict => Answers(parameters, Problems))
  BY Zenon DEF ParametersAsDefined, Answers
<1>2. ASSUME model' = model, entry' = entry
      PROVE  /\ Problems' = all
             /\ ParametersAsDefined' <=> (parameters' # P!NoVerdict => Answers(parameters', all))
  <2>1. Problems' = Problems
    BY <1>2 DEF Problems
  <2>2. ParametersAsDefined' <=>
          (parameters' # P!NoVerdict =>
             IF Problems' = {} THEN parameters' = Accepted
             ELSE \E p \in Problems' :
                    /\ FirstOf(Problems', p)
                    /\ parameters'.path = p.path
                    /\ parameters'.variant =
                         IF p.deep THEN "InvalidGraph" ELSE "InvalidNodeParameters")
    BY DEF ParametersAsDefined
  <2>3. QED
    BY <2>1, <2>2, Zenon DEF Answers
<1> HIDE DEF all
<1>3. ASSUME model' = model, entry' = entry, calls' = calls, parameters' = parameters
      PROVE  ProblemInv'
  <2>1. CallsInv(calls, model, all)' <=> CallsInv(calls', model', all')
    OBVIOUS
  <2>2. Problems' = Problems
    BY <1>2, <1>3 DEF all
  <2>3. (parameters = P!NoVerdict => CallsInv(calls, model, Problems))'
    BY <1>3, <2>2 DEF ProblemInv
  <2>4. ParametersAsDefined'
    BY <1>1, <1>2, <1>3, Zenon DEF ProblemInv, all
  <2>5. QED
    BY <2>3, <2>4 DEF ProblemInv
<1>4. ASSUME model' = model, entry' = entry, parameters' = P!NoVerdict,
             CallsInv(calls', model, all)
      PROVE  ProblemInv'
  <2>1. Problems' = all /\ ParametersAsDefined'
    BY <1>2, <1>4
  <2>2. QED
    BY <1>4, <2>1 DEF ProblemInv
<1>5. ASSUME model' = model, entry' = entry, parameters' # P!NoVerdict, Answers(parameters', all)
      PROVE  ProblemInv'
  <2>1. ParametersAsDefined'
    BY <1>2, <1>5
  <2>2. QED
    BY <1>5, <2>1 DEF ProblemInv
<1>6. CASE ValidateStructure
  BY <1>3, <1>6, StructureTypedStep DEF ValidateStructure
<1>7. CASE ValidateParameters
  <2>1. /\ P!Next /\ model' = model /\ entry' = entry /\ parameters = P!NoVerdict
    BY <1>7 DEF ValidateParameters, P!Next, P!EnterNested, P!RejectDeep, P!PassNode,
                P!RejectNode, P!Return, P!Accept, P!Looking
  <2>2. CallsInv(calls, model, all)
    BY <2>1 DEF ProblemInv, all
  <2>3. CASE P!EnterNested
    <3>1. CallsInv(calls', model, all)
      BY <2>2, <2>3, ProblemEnter
    <3>2. parameters' = P!NoVerdict
      BY <2>1, <2>3 DEF P!EnterNested
    <3>3. QED
      BY <1>4, <2>1, <3>1, <3>2
  <2>4. CASE P!PassNode
    <3>1. CallsInv(calls', model, all)
      BY <2>2, <2>4, ProblemPass
    <3>2. parameters' = P!NoVerdict
      BY <2>1, <2>4 DEF P!PassNode
    <3>3. QED
      BY <1>4, <2>1, <3>1, <3>2
  <2>5. CASE P!Return
    <3>1. CallsInv(calls', model, all)
      BY <2>2, <2>5, ProblemReturn
    <3>2. parameters' = P!NoVerdict
      BY <2>1, <2>5 DEF P!Return
    <3>3. QED
      BY <1>4, <2>1, <3>1, <3>2
  <2>6. CASE P!RejectDeep
    <3>1. Answers(parameters', all)
      BY <2>2, <2>6, ProblemRejectDeep
    <3>2. parameters' # P!NoVerdict
      BY <2>6, Verdicts DEF P!RejectDeep
    <3>3. QED
      BY <1>5, <2>1, <3>1, <3>2
  <2>7. CASE P!RejectNode
    <3>1. Answers(parameters', all)
      BY <2>2, <2>7, ProblemRejectNode
    <3>2. parameters' # P!NoVerdict
      BY <2>7, Verdicts DEF P!RejectNode
    <3>3. QED
      BY <1>5, <2>1, <3>1, <3>2
  <2>8. CASE P!Accept
    <3>1. Answers(parameters', all)
      BY <2>2, <2>8, ProblemAccept
    <3>2. parameters' # P!NoVerdict
      BY <2>8, SameWords, Verdicts DEF P!Accept
    <3>3. QED
      BY <1>5, <2>1, <3>1, <3>2
  <2>9. QED
    BY <2>1, <2>3, <2>4, <2>5, <2>6, <2>7, <2>8, Zenon DEF P!Next
<1>8. CASE UNCHANGED vars
  BY <1>3, <1>8 DEF vars
<1>9. QED
  BY <1>6, <1>7, <1>8 DEF Next

(* The walk that stops at its first complaint reports the problem whose    *)
(* position is the least of all, with the path to it, and accepts only     *)
(* what has none: validate_parameters, on graphs of any size.              *)
THEOREM FirstProblemReported == Spec => []ParametersAsDefined
<1>1. ProblemInv => ParametersAsDefined
  BY DEF ProblemInv
<1>2. TypeInv /\ ProblemInv /\ [Next]_vars => TypeInv' /\ ProblemInv'
  BY TypeNext, ProblemNext
<1>3. QED
  BY TypeInit, ProblemInit, <1>1, <1>2, PTL DEF Spec

=============================================================================
