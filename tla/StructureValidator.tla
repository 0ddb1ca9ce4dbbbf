------------------------- MODULE StructureValidator -------------------------
(***************************************************************************)
(* NirGraph::validate_structure (src/src/graph.rs): a depth-first walk     *)
(* with a work list on the heap.  The path of a graph is not kept with it; *)
(* frames in one arena point at the frame of the enclosing graph, and a    *)
(* path is put together only for an error.  Frame 0 stands for None.       *)
(***************************************************************************)
EXTENDS GraphModel, SequencesExt

VARIABLES
  model,       \* the graph that is validated, never written
  frames,      \* the arena: name, enclosing frame and depth of a subgraph
  work,        \* the graphs still to inspect, next one last
  scan,        \* the graph whose nodes are looked at, and those found in it
  verdict      \* "none" while walking, then Accepted or a Wrapped problem

vars == <<model, frames, work, scan, verdict>>

NoVerdict == [variant |-> "none", path |-> <<>>, problem |-> Sound]

FrameRecords == [name : Names, parent : Nat, depth : Nat]
WorkItems == [graph : Graphs, frame : Nat]

(* The names from the root down to a frame.                                *)
PathOf(arena) ==
  LET path[i \in 0..Len(arena)] ==
        IF i = 0 THEN <<>> ELSE Append(path[arena[i].parent], arena[i].name)
  IN path

DepthOf(arena, i) == IF i = 0 THEN 0 ELSE arena[i].depth

(* Between two graphs no node is next.                                     *)
Idle == [graph |-> Top, frame |-> 0, next |-> 0, nested |-> <<>>]

StartOn(m) ==
  /\ model = m /\ frames = <<>>
  /\ work = <<[graph |-> Top, frame |-> 0]>> /\ scan = Idle
  /\ verdict = NoVerdict

-----------------------------------------------------------------------------
(* The graph that is popped next, and its check without its nested graphs. *)
Item == work[Len(work)]
Popping == verdict = NoVerdict /\ scan.next = 0 /\ work # <<>>

RejectLocal ==
  /\ Popping /\ LocalFault(model, Item.graph) # Sound
  /\ verdict' = Wrapped(LocalFault(model, Item.graph), PathOf(frames)[Item.frame])
  /\ work' = SubSeq(work, 1, Len(work) - 1)
  /\ UNCHANGED <<model, frames, scan>>

Visit ==
  /\ Popping /\ LocalFault(model, Item.graph) = Sound
  /\ scan' = [graph |-> Item.graph, frame |-> Item.frame, next |-> 1, nested |-> <<>>]
  /\ work' = SubSeq(work, 1, Len(work) - 1)
  /\ UNCHANGED <<model, frames, verdict>>

-----------------------------------------------------------------------------
(* The nodes of the graph, in insertion order.                             *)
Nodes == model.nodes[scan.graph]
Scanning == verdict = NoVerdict /\ scan.next > 0 /\ scan.next <= Len(Nodes)
Node == Nodes[scan.next]
ScanDepth == DepthOf(frames, scan.frame)

SkipLeaf ==
  /\ Scanning /\ Node.holds \in Leaves
  /\ scan' = [scan EXCEPT !.next = @ + 1]
  /\ UNCHANGED <<model, frames, work, verdict>>

(* The frame is pushed before the depth is looked at.                      *)
PushesFrame ==
  frames' = Append(frames, [name |-> Node.name, parent |-> scan.frame, depth |-> ScanDepth + 1])

(* The index of a frame is the length of the arena before it is pushed,    *)
(* which counts from one here.                                             *)
FrameIndex == Len(frames) + 1

PushNested ==
  /\ Scanning /\ Node.holds \in Graphs /\ ScanDepth < MaxDepth
  /\ PushesFrame
  /\ scan' = [scan EXCEPT !.next = @ + 1,
                !.nested = Append(@, [graph |-> Node.holds, frame |-> FrameIndex])]
  /\ UNCHANGED <<model, work, verdict>>

RejectDepth ==
  /\ Scanning /\ Node.holds \in Graphs /\ ScanDepth >= MaxDepth
  /\ PushesFrame
  /\ verdict' = Wrapped(TooDeep, PathOf(frames')[FrameIndex])
  /\ UNCHANGED <<model, work, scan>>

(* Mutant: they are pushed in insertion order.                             *)
WaitingForwards(found) == found

(* Mutant: they are pushed where they are found, and then again.           *)
WaitingTwice(found) == found \o Reverse(found)

(* Mutant: the last of them is forgotten.                                  *)
WaitingButOne(found) == IF found = <<>> THEN <<>> ELSE Tail(Reverse(found))

(* The nested graphs wait in the order in which the stack yields them.     *)
Waiting(found) == Reverse(found)

ExtendWork ==
  /\ verdict = NoVerdict /\ scan.next > Len(Nodes)
  /\ work' = work \o Waiting(scan.nested) /\ scan' = Idle
  /\ UNCHANGED <<model, frames, verdict>>

Accept ==
  /\ verdict = NoVerdict /\ scan.next = 0 /\ work = <<>>
  /\ verdict' = Accepted
  /\ UNCHANGED <<model, frames, work, scan>>

Next ==
  \/ RejectLocal \/ Visit \/ SkipLeaf \/ PushNested \/ RejectDepth
  \/ ExtendWork \/ Accept
=============================================================================
