----------------------------- MODULE GraphReader -----------------------------
(***************************************************************************)
(* One call of io::read_with or io::read_version_with: the traversal of an *)
(* HDF5 container that hdf5_read.rs turns into a NirGraph.  The recursion  *)
(* of read_graph_body is the pair of `frame' (the graph being decoded) and *)
(* `callers' (the graphs suspended in read_graph_node).                    *)
(*                                                                         *)
(* A container is an object store: groups map link names to links, and a   *)
(* link leads to an object.  Two links may lead to the same object.        *)
(* Datasets carry what the reader's decisions depend on and nothing else.  *)
(***************************************************************************)
EXTENDS ReadBudget, Sequences, FiniteSets

CONSTANTS
  Groups,      (* HDF5 group objects, identified by their location token    *)
  Datasets,    (* HDF5 dataset objects                                      *)
  Root,        (* the root group of a file                                  *)
  Names,       (* link names                                                *)
  NoName,      (* no node is being decoded                                  *)
  NoLink,      (* the name is not linked in the group                       *)
  Rank,        (* the byte order of link names: Names -> Nat, injective     *)
  Values,      (* what a string dataset may hold                            *)
  NoVersion,   (* the file has no /version                                  *)
  MajorOf,     (* the major a version string parses to, -1 if malformed     *)
  Reads,       (* the containers given, with the entry point and options    *)
  FieldPlan,   (* node type -> the fields its decoder reads, in order       *)
  WordSize,    (* size_of::<usize>()                                        *)
  PairSize,    (* size_of::<(String, String)>()                             *)
  MaxGraphs    (* MAX_NESTED_GRAPHS                                         *)

Objects == Groups \cup Datasets

Links == [kind : {"hard", "soft", "external"}, to : Objects]

(* `count' is the number of elements, `cost' the bytes charged for decoding *)
(* them, `bytes' the size of the decoded buffer.  `secure' is the verdict   *)
(* of validate_dataset_security; `paired' says the shape is (E, 2); a       *)
(* "wide" string exceeds every fixed capacity; `payload' is "negative" if   *)
(* an element is, and "unfit" if an element has no i64 or Tensor::new       *)
(* refuses the shape.                                                       *)
DatasetRecords ==
  [secure : BOOLEAN, class : {"string", "wide", "int", "float", "bool", "opaque"},
   rank : 0 .. 2, paired : BOOLEAN, count : Requests, cost : Requests,
   bytes : Usize, payload : {"fine", "negative", "unfit"}, value : Values]

Containers ==
  [link : [Groups -> [Names -> Links \cup {NoLink}]],
   data : [Datasets -> DatasetRecords]]

Policies == [kind : {"permissive", "present", "major"}, majors : SUBSET Nat]

(* `faulty' is the environment: whether an HDF5 call may fail of its own.   *)
CallRecords ==
  [entry : {"read", "readVersion"}, limit : [Resources -> Limits],
   policy : Policies, faulty : BOOLEAN]

Wants ==
  {"text", "tensor", "ints", "int", "extents", "extent", "padding", "metadata", "edges"}

FieldSteps ==
  [field : Names, want : Wants \ {"metadata", "edges"},
   when : {"required", "optional", "default"}, like : Names]

ASSUME ContainerAssumption ==
  /\ Groups \cap Datasets = {}
  /\ Root \in Groups
  /\ NoName \notin Names
  /\ {"version", "node", "nodes", "edges", "type", "metadata"} \subseteq Names
  /\ {"NIRGraph", "same", "valid"} \subseteq Values
  /\ NoVersion \notin Values
  /\ NoLink \notin Links
  /\ IsFiniteSet(Names)

(* A synthesized default is shaped like a field that had to be read first.  *)
DefaultsFollow(plan) ==
  \A i \in DOMAIN plan : plan[i].when = "default" =>
    \E j \in DOMAIN plan :
      j < i /\ plan[j].when = "required" /\ plan[j].field = plan[i].like

ASSUME OptionsAssumption ==
  /\ Reads \subseteq Containers \X CallRecords
  /\ MaxGraphs \in Nat \ {0}
  /\ WordSize \in Usize
  /\ PairSize \in Usize
  /\ Rank \in [Names -> Nat]
  /\ MajorOf \in [Values -> Nat \cup {-1}]
  /\ \A m, n \in Names : Rank[m] = Rank[n] => m = n
  /\ DOMAIN FieldPlan \subseteq Values
  /\ \A t \in DOMAIN FieldPlan : FieldPlan[t] \in Seq(FieldSteps) /\ DefaultsFollow(FieldPlan[t])

-----------------------------------------------------------------------------

VARIABLES
  file,      \* the container, fixed for the call
  call,      \* the entry point and its options, fixed for the call
  pc,        \* the next step
  version,   \* the decoded /version, or NoVersion
  frame,     \* the graph being decoded
  callers,   \* the graphs waiting for a nested one, outermost first
  visited,   \* tokens of the NIRGraph groups entered so far, in order
  used,      \* the four ledgers
  tree,      \* the nodes decoded so far, by their path from the root graph
  error,     \* why the read failed
  followed   \* history: the links that have been opened

vars == <<file, call, pc, version, frame, callers, visited, used, tree, error, followed>>

Linked(g, n)     == file.link[g][n] # NoLink
At(g, n)         == file.link[g][n].to
HasGroup(g, n)   == Linked(g, n) /\ At(g, n) \in Groups
HasDataset(g, n) == Linked(g, n) /\ At(g, n) \in Datasets
DataAt(g, n)     == file.data[At(g, n)]
Members(g)       == {n \in Names : Linked(g, n)}

(* validate_group_links: no soft and no external link in the group.         *)
OnlyHardLinks(g) == \A n \in Members(g) : file.link[g][n].kind = "hard"

(* The group /node.                                                         *)
TopGraph == At(Root, "node")

-----------------------------------------------------------------------------
(***************************************************************************)
(* Decoding one dataset.  A decoder is the sequence of its checks that     *)
(* refuse the dataset, in the order the code makes them; the first is the  *)
(* error of the read.                                                      *)
(***************************************************************************)
Refuse(condition, kind) == IF condition THEN <<kind>> ELSE <<>>

FirstError(refusals) == IF refusals = <<>> THEN "none" ELSE refusals[1]

FitsAlone(requested) == Admits(call.limit["bytes"], 0, requested)

Fits(requested) == Admits(call.limit["bytes"], used["bytes"], requested)

(* charge_allocation: the budget first, then the unbounded overflow error.  *)
Allocation(requested) ==
  Refuse(~Fits(requested), "ReadLimitExceeded")
    \o Refuse(requested = Overflow, "InvalidTensor")

(* dataset_element_count: only a product that fits no usize is refused.     *)
Countable(d) == Allocation(IF d.count = Overflow THEN Overflow ELSE 0)

Strings(d) == IF d.class = "string" THEN Allocation(d.cost) ELSE Refuse(TRUE, "Io")

OneString(d) == Countable(d) \o Refuse(d.count # 1, "Io") \o Strings(d)

Numbers(d) ==
  Refuse(d.class \notin {"int", "float", "bool"}, "InvalidTensor")
    \o Countable(d) \o Allocation(d.cost)
    \o Refuse(d.payload = "unfit", "InvalidTensor")

Integers64(d) == Numbers(d) \o Refuse(d.class # "int", "InvalidTensor")

(* to_usizes charges the converted list on top of the decoded one.          *)
ExtentCost(d) == CheckedAdd(d.cost, CheckedMul(d.count, WordSize))

Extents(d) ==
  Integers64(d)
    \o Refuse(~Fits(ExtentCost(d)), "ReadLimitExceeded")
    \o Refuse(d.payload = "negative", "InvalidTensor")

EdgeCount(d) == IF d.count = Overflow THEN 0 ELSE d.count \div 2

EdgeCost(d) ==
  IF d.count = 0 THEN 0 ELSE CheckedAdd(d.cost, CheckedMul(EdgeCount(d), PairSize))

EdgeList(d) ==
  IF d.count = 0 THEN <<>>
  ELSE Countable(d) \o Refuse(~d.paired, "InvalidGraph")
         \o Refuse(~Admits(call.limit["edges"], used["edges"], EdgeCount(d)),
                   "ReadCountLimitExceeded")
         \o Strings(d)
         \o Refuse(~Fits(EdgeCost(d)), "ReadLimitExceeded")

MetadataEntry(d) ==
  IF d.class \notin {"string", "wide"} THEN Numbers(d)
  ELSE CASE d.rank = 0 -> OneString(d)
         [] d.rank = 1 -> Countable(d) \o Strings(d)
         [] d.rank = 2 -> Refuse(TRUE, "InvalidTensor")

Padding(d) ==
  IF d.class \in {"string", "wide"}
  THEN OneString(d) \o Refuse(d.value \notin {"same", "valid"}, "InvalidGraph")
  ELSE Integers64(d)

(* The error decoding d as `want' ends in, "none" when it succeeds.         *)
Verdict(d, want) ==
  FirstError(Refuse(~d.secure, "InvalidGraph") \o
    CASE want = "text"     -> OneString(d)
      [] want = "tensor"   -> Numbers(d)
      [] want = "ints"     -> Integers64(d)
      [] want = "int"      -> Integers64(d) \o Refuse(d.count # 1, "InvalidTensor")
      [] want = "extents"  -> Extents(d)
      [] want = "extent"   -> Extents(d) \o Refuse(d.count # 1, "InvalidTensor")
      [] want = "padding"  -> Padding(d)
      [] want = "metadata" -> MetadataEntry(d)
      [] want = "edges"    -> EdgeList(d))

(* The bytes a successful decoding has charged.                             *)
Cost(d, want) ==
  CASE want \in {"extents", "extent"} -> ExtentCost(d)
    [] want = "edges"                 -> EdgeCost(d)
    [] OTHER                          -> d.cost

-----------------------------------------------------------------------------

NewFrame(g, path) ==
  [graph |-> g, path |-> path, nodes |-> g, todo |-> {}, name |-> NoName,
   at |-> g, type |-> "NIRGraph", field |-> 1, keys |-> {}]

Init ==
  /\ \E read \in Reads : file = read[1] /\ call = read[2]
  /\ pc = "open"
  /\ version = NoVersion
  /\ frame = NewFrame(Root, <<>>)
  /\ callers = <<>>
  /\ visited = <<>>
  /\ used = [r \in Resources |-> 0]
  /\ tree = {}
  /\ error = "none"
  /\ followed = {}

(* An error returns at once: the partial graph is dropped.                  *)
Fail(kind) ==
  /\ pc' = "failed"
  /\ error' = kind
  /\ tree' = {}
  /\ UNCHANGED <<version, frame, callers, visited, used>>

Charge(resource, amount) ==
  used' = [used EXCEPT ![resource] = Charged(call.limit[resource], @, amount)]

Follow(g, n) == followed' = followed \cup {<<g, n>>}

(* The next step when nothing but the position in the read changes.         *)
Goto(step) ==
  /\ pc' = step
  /\ UNCHANGED <<version, frame, callers, visited, used, tree, error>>

OpenFile == pc = "open" /\ Goto("rootLinks") /\ UNCHANGED followed

CheckRootLinks ==
  /\ pc = "rootLinks"
  /\ IF OnlyHardLinks(Root) THEN Goto("version") ELSE Fail("InvalidGraph")
  /\ UNCHANGED followed

LoadVersion ==
  /\ pc = "version"
  /\ \/ ~Linked(Root, "version") /\ Goto("policy") /\ UNCHANGED followed
     \/ /\ Linked(Root, "version")
        /\ Follow(Root, "version")
        /\ \/ ~HasDataset(Root, "version") /\ Fail("Io")
           \/ /\ HasDataset(Root, "version")
              /\ LET d == DataAt(Root, "version")
                 IN  IF Verdict(d, "text") # "none" THEN Fail(Verdict(d, "text"))
                     ELSE /\ version' = d.value
                          /\ Charge("bytes", Cost(d, "text"))
                          /\ pc' = "policy"
                          /\ UNCHANGED <<frame, callers, visited, tree, error>>

PolicyAccepts ==
  CASE call.policy.kind = "permissive" -> TRUE
    [] call.policy.kind = "present"    -> version # NoVersion
    [] call.policy.kind = "major"      ->
         version # NoVersion /\ MajorOf[version] \in call.policy.majors

EnforceVersionPolicyLate ==
  /\ pc = "policy"
  /\ IF call.entry = "read" THEN Goto("node")
     ELSE IF PolicyAccepts /\ version # NoVersion THEN Goto("done")
     ELSE Fail("IncompatibleVersion")
  /\ UNCHANGED followed

EnforceVersionPolicy ==
  /\ pc = "policy"
  /\ \/ ~PolicyAccepts /\ Fail("IncompatibleVersion")
     \/ PolicyAccepts /\ call.entry = "read" /\ Goto("node")
     \/ PolicyAccepts /\ call.entry = "readVersion" /\ version = NoVersion
          /\ Fail("MissingField")
     \/ PolicyAccepts /\ call.entry = "readVersion" /\ version # NoVersion
          /\ Goto("done")
  /\ UNCHANGED followed

OpenTopGraphUnchecked ==
  /\ pc = "node"
  /\ Follow(Root, "node")
  /\ IF HasGroup(Root, "node") THEN Goto("rootType") ELSE Fail("MissingField")

OpenTopGraph ==
  /\ pc = "node"
  /\ Follow(Root, "node")
  /\ \/ ~HasGroup(Root, "node") /\ Fail("MissingField")
     \/ HasGroup(Root, "node") /\ ~OnlyHardLinks(TopGraph) /\ Fail("InvalidGraph")
     \/ HasGroup(Root, "node") /\ OnlyHardLinks(TopGraph) /\ Goto("rootType")

ReadRootType ==
  /\ pc = "rootType"
  /\ Follow(TopGraph, "type")
  /\ \/ ~HasDataset(TopGraph, "type") /\ Fail("MissingField")
     \/ /\ HasDataset(TopGraph, "type")
        /\ LET d == DataAt(TopGraph, "type")
           IN  IF Verdict(d, "text") # "none" THEN Fail(Verdict(d, "text"))
               ELSE IF d.value # "NIRGraph" THEN Fail("InvalidGraph")
               ELSE /\ frame' = NewFrame(TopGraph, <<>>)
                    /\ Charge("bytes", Cost(d, "text"))
                    /\ pc' = "enter"
                    /\ UNCHANGED <<version, callers, visited, tree, error>>

-----------------------------------------------------------------------------
(* read_graph_body: the alias check, the caller's budget, the hard cap.     *)
EnterGraph ==
  /\ pc = "enter"
  /\ \/ (\E i \in DOMAIN visited : visited[i] = frame.graph) /\ Fail("InvalidGraph")
     \/ /\ \A i \in DOMAIN visited : visited[i] # frame.graph
        /\ IF ~Admits(call.limit["graphs"], used["graphs"], 1)
           THEN Fail("ReadCountLimitExceeded")
           ELSE IF Len(visited) >= MaxGraphs THEN Fail("InvalidGraph")
           ELSE /\ visited' = Append(visited, frame.graph)
                /\ Charge("graphs", 1)
                /\ pc' = "graphLinks"
                /\ UNCHANGED <<version, frame, callers, tree, error>>
  /\ UNCHANGED followed

CheckGraphLinks ==
  /\ pc = "graphLinks"
  /\ IF OnlyHardLinks(frame.graph) THEN Goto("nodes") ELSE Fail("InvalidGraph")
  /\ UNCHANGED followed

OpenNodesUncharged ==
  LET g == At(frame.graph, "nodes")
  IN  /\ pc = "nodes"
      /\ Follow(frame.graph, "nodes")
      /\ IF ~HasGroup(frame.graph, "nodes") THEN Fail("MissingField")
         ELSE IF ~OnlyHardLinks(g) THEN Fail("InvalidGraph")
         ELSE /\ frame' = [frame EXCEPT !.nodes = g, !.todo = Members(g)]
              /\ pc' = "members"
              /\ UNCHANGED <<version, callers, visited, used, tree, error>>

(* The node count is charged from the group's link count, then the links    *)
(* are checked, and only then the names are collected.                      *)
OpenNodes ==
  LET g == At(frame.graph, "nodes")
      n == Cardinality(Members(g))
  IN  /\ pc = "nodes"
      /\ Follow(frame.graph, "nodes")
      /\ \/ ~HasGroup(frame.graph, "nodes") /\ Fail("MissingField")
         \/ /\ HasGroup(frame.graph, "nodes")
            /\ IF ~Admits(call.limit["nodes"], used["nodes"], n)
               THEN Fail("ReadCountLimitExceeded")
               ELSE IF ~OnlyHardLinks(g) THEN Fail("InvalidGraph")
               ELSE /\ frame' = [frame EXCEPT !.nodes = g, !.todo = Members(g)]
                    /\ Charge("nodes", n)
                    /\ pc' = "members"
                    /\ UNCHANGED <<version, callers, visited, tree, error>>

(* Names are sorted, so the least one left is decoded next.                 *)
OpenMember ==
  /\ pc = "members"
  /\ \E n \in frame.todo :
       /\ \A m \in frame.todo : Rank[n] <= Rank[m]
       /\ Follow(frame.nodes, n)
       /\ \/ ~HasGroup(frame.nodes, n) /\ Fail("Io")
          \/ /\ HasGroup(frame.nodes, n)
             /\ IF ~OnlyHardLinks(At(frame.nodes, n)) THEN Fail("InvalidGraph")
                ELSE /\ frame' = [frame EXCEPT !.name = n, !.at = At(frame.nodes, n)]
                     /\ pc' = "nodeType"
                     /\ UNCHANGED <<version, callers, visited, used, tree, error>>

ReadNodeTypeMetadataFirst ==
  /\ pc = "nodeType"
  /\ Follow(frame.at, "type")
  /\ \/ ~HasDataset(frame.at, "type") /\ Fail("MissingField")
     \/ /\ HasDataset(frame.at, "type")
        /\ LET d == DataAt(frame.at, "type")
           IN  IF Verdict(d, "text") # "none" THEN Fail(Verdict(d, "text"))
               ELSE /\ Charge("bytes", Cost(d, "text"))
                    /\ frame' = [frame EXCEPT !.type = d.value, !.field = 1]
                    /\ pc' = "metadata"
                    /\ UNCHANGED <<version, callers, visited, tree, error>>

(* read_node: a nested graph suspends this one before its metadata is read. *)
ReadNodeType ==
  /\ pc = "nodeType"
  /\ Follow(frame.at, "type")
  /\ \/ ~HasDataset(frame.at, "type") /\ Fail("MissingField")
     \/ /\ HasDataset(frame.at, "type")
        /\ LET d == DataAt(frame.at, "type")
           IN  IF Verdict(d, "text") # "none" THEN Fail(Verdict(d, "text"))
               ELSE /\ Charge("bytes", Cost(d, "text"))
                    /\ UNCHANGED <<version, visited, tree, error>>
                    /\ \/ /\ d.value = "NIRGraph"
                          /\ callers' = Append(callers, frame)
                          /\ frame' = NewFrame(frame.at, Append(frame.path, frame.name))
                          /\ pc' = "enter"
                       \/ /\ d.value # "NIRGraph"
                          /\ frame' = [frame EXCEPT !.type = d.value, !.field = 1]
                          /\ pc' = "metadata"
                          /\ UNCHANGED callers

-----------------------------------------------------------------------------
(* read_metadata of the object frame.at: a leaf, or the graph itself once   *)
(* its nodes and edges have been read.                                      *)
OpenMetadata ==
  /\ pc = "metadata"
  /\ \/ /\ ~Linked(frame.at, "metadata")
        /\ frame' = [frame EXCEPT !.keys = {}]
        /\ pc' = "entries"
        /\ UNCHANGED <<version, callers, visited, used, tree, error, followed>>
     \/ /\ Linked(frame.at, "metadata")
        /\ Follow(frame.at, "metadata")
        /\ LET md == At(frame.at, "metadata")
           IN  IF md \notin Groups THEN Fail("Io")
               ELSE IF ~OnlyHardLinks(md) THEN Fail("InvalidGraph")
               ELSE /\ frame' = [frame EXCEPT !.keys = Members(md)]
                    /\ pc' = "entries"
                    /\ UNCHANGED <<version, callers, visited, used, tree, error>>

(* Metadata keys come in the order HDF5 lists them.                         *)
ReadEntry ==
  /\ pc = "entries"
  /\ \E k \in frame.keys :
       LET md == At(frame.at, "metadata")
       IN  /\ Follow(md, k)
           /\ \/ ~HasDataset(md, k) /\ Fail("Io")
              \/ /\ HasDataset(md, k)
                 /\ LET d == DataAt(md, k)
                    IN  IF Verdict(d, "metadata") # "none" THEN Fail(Verdict(d, "metadata"))
                        ELSE /\ frame' = [frame EXCEPT !.keys = @ \ {k}]
                             /\ Charge("bytes", Cost(d, "metadata"))
                             /\ UNCHANGED <<pc, version, callers, visited, tree, error>>

(* A leaf whose metadata is read.                                           *)
AtLeaf == pc = "entries" /\ frame.keys = {} /\ frame.name # NoName

UnknownType ==
  /\ AtLeaf
  /\ frame.type \notin DOMAIN FieldPlan
  /\ Fail("UnknownNodeType")
  /\ UNCHANGED followed

NextField == frame' = [frame EXCEPT !.field = @ + 1]

(* NodeReader::optional looks at the link, so that a link of another kind   *)
(* is an error and not an absent field.                                     *)
FieldPresent(g, n) == Linked(g, n)

(* One accessor of NodeReader.  An absent default is synthesized with the   *)
(* shape of the field it is like, and charged as that field's buffer.       *)
ReadField ==
  /\ AtLeaf
  /\ frame.type \in DOMAIN FieldPlan
  /\ frame.field \in DOMAIN FieldPlan[frame.type]
  /\ LET step == FieldPlan[frame.type][frame.field]
         like == DataAt(frame.at, step.like)
         d    == DataAt(frame.at, step.field)
     IN  \/ /\ FieldPresent(frame.at, step.field)
            /\ Follow(frame.at, step.field)
            /\ \/ ~HasDataset(frame.at, step.field) /\ Fail("Io")
               \/ /\ HasDataset(frame.at, step.field)
                  /\ IF Verdict(d, step.want) # "none" THEN Fail(Verdict(d, step.want))
                     ELSE /\ NextField
                          /\ Charge("bytes", Cost(d, step.want))
                          /\ UNCHANGED <<pc, version, callers, visited, tree, error>>
         \/ /\ ~FieldPresent(frame.at, step.field)
            /\ UNCHANGED followed
            /\ \/ step.when = "required" /\ Fail("MissingField")
               \/ /\ step.when = "optional"
                  /\ NextField
                  /\ UNCHANGED <<pc, version, callers, visited, used, tree, error>>
               \/ /\ step.when = "default"
                  /\ IF ~Fits(like.bytes) THEN Fail("ReadLimitExceeded")
                     ELSE /\ NextField
                          /\ Charge("bytes", like.bytes)
                          /\ UNCHANGED <<pc, version, callers, visited, tree, error>>

Entry(path, object, type) == [path |-> path, object |-> object, type |-> type]

DecodedKept(f) == f

DecodedSkipsRest(f) == [f EXCEPT !.todo = {}]

(* The graph f once the node it was decoding is inserted.                   *)
Decoded(f) == [f EXCEPT !.todo = @ \ {f.name}]

FinishLeaf ==
  /\ AtLeaf
  /\ frame.type \in DOMAIN FieldPlan
  /\ frame.field \notin DOMAIN FieldPlan[frame.type]
  /\ tree' = tree \cup {Entry(Append(frame.path, frame.name), frame.at, frame.type)}
  /\ frame' = Decoded(frame)
  /\ pc' = "members"
  /\ UNCHANGED <<version, callers, visited, used, error, followed>>

-----------------------------------------------------------------------------
(* The edge list is read after the last node; metadata comes after it.      *)
ReadEdges ==
  /\ pc = "members"
  /\ frame.todo = {}
  /\ Follow(frame.graph, "edges")
  /\ \/ ~HasDataset(frame.graph, "edges") /\ Fail("MissingField")
     \/ /\ HasDataset(frame.graph, "edges")
        /\ LET d == DataAt(frame.graph, "edges")
           IN  IF Verdict(d, "edges") # "none" THEN Fail(Verdict(d, "edges"))
               ELSE /\ used' = [used EXCEPT
                         !["edges"] = Charged(call.limit["edges"], @, EdgeCount(d)),
                         !["bytes"] = Charged(call.limit["bytes"], @, Cost(d, "edges"))]
                    /\ frame' = [frame EXCEPT !.name = NoName, !.at = frame.graph]
                    /\ pc' = "metadata"
                    /\ UNCHANGED <<version, callers, visited, tree, error>>

LeaveGraphPopsToken ==
  /\ pc = "entries" /\ frame.keys = {} /\ frame.name = NoName
  /\ tree' = tree \cup {Entry(frame.path, frame.graph, "NIRGraph")}
  /\ visited' = SubSeq(visited, 1, Len(visited) - 1)
  /\ IF callers = <<>>
     THEN pc' = "done" /\ UNCHANGED <<frame, callers>>
     ELSE /\ frame' = Decoded(callers[Len(callers)])
          /\ callers' = SubSeq(callers, 1, Len(callers) - 1)
          /\ pc' = "members"
  /\ UNCHANGED <<version, used, error, followed>>

(* The nested graph becomes a node of its caller, or the root is returned.  *)
LeaveGraph ==
  /\ pc = "entries"
  /\ frame.keys = {}
  /\ frame.name = NoName
  /\ tree' = tree \cup {Entry(frame.path, frame.graph, "NIRGraph")}
  /\ IF callers = <<>>
     THEN pc' = "done" /\ UNCHANGED <<frame, callers>>
     ELSE /\ frame' = Decoded(callers[Len(callers)])
          /\ callers' = SubSeq(callers, 1, Len(callers) - 1)
          /\ pc' = "members"
  /\ UNCHANGED <<version, visited, used, error, followed>>

(* Any call into HDF5 may fail of its own accord.                           *)
IoFault ==
  /\ call.faulty
  /\ pc \notin {"policy", "done", "failed"}
  /\ Fail("Io")
  /\ UNCHANGED followed

Next ==
  /\ \/ OpenFile \/ CheckRootLinks \/ LoadVersion \/ EnforceVersionPolicy
     \/ OpenTopGraph \/ ReadRootType
     \/ EnterGraph \/ CheckGraphLinks \/ OpenNodes \/ OpenMember \/ ReadNodeType
     \/ OpenMetadata \/ ReadEntry \/ UnknownType \/ ReadField \/ FinishLeaf
     \/ ReadEdges \/ LeaveGraph \/ IoFault
  /\ UNCHANGED <<file, call>>

(* The reader is one sequential call that never waits.                      *)
Spec == Init /\ [][Next]_vars /\ WF_vars(Next)

-----------------------------------------------------------------------------

Frames ==
  [graph : Groups, path : Seq(Names), nodes : Groups, todo : SUBSET Names,
   name : Names \cup {NoName}, at : Groups, type : Values, field : Nat \ {0},
   keys : SUBSET Names]

Entries == [path : Seq(Names), object : Groups, type : Values]

Steps ==
  {"open", "rootLinks", "version", "policy", "node", "rootType", "enter",
   "graphLinks", "nodes", "members", "nodeType", "metadata", "entries",
   "done", "failed"}

Errors ==
  {"none", "Io", "InvalidGraph", "InvalidTensor", "MissingField", "UnknownNodeType",
   "IncompatibleVersion", "ReadLimitExceeded", "ReadCountLimitExceeded"}

(* Every variable stays in its set.                                         *)
TypeOK ==
  /\ file \in Containers
  /\ call \in CallRecords
  /\ pc \in Steps
  /\ version \in Values \cup {NoVersion}
  /\ frame \in Frames
  /\ callers \in Seq(Frames)
  /\ visited \in Seq(Groups)
  /\ used \in [Resources -> Usize]
  /\ tree \subseteq Entries
  /\ error \in Errors
  /\ followed \subseteq Groups \X Names

(* No ledger passes the limit its caller set, in any state of the read.     *)
LimitsRespected ==
  \A r \in Resources : call.limit[r] # NoLimit => used[r] <= call.limit[r]

(* The names the reader holds and has not decoded yet, in every open graph. *)
Waitings(stack) ==
  LET waiting[n \in 0 .. Len(stack)] ==
        IF n = 0 THEN 0 ELSE waiting[n - 1] + Cardinality(stack[n].todo)
  IN  waiting

Pending == Cardinality(frame.todo) + Waitings(callers)[Len(callers)]

(* A node is charged before its name is held: at every step the node ledger *)
(* is exactly the nodes decoded plus the names waiting in any open graph.   *)
NodeLedgerExact ==
  call.limit["nodes"] # NoLimit /\ pc # "failed" =>
    used["nodes"] = Cardinality({x \in tree : x.path # <<>>}) + Pending

(* The recursion of read_graph_body, and with it the stack, is bounded by   *)
(* MAX_NESTED_GRAPHS whatever the container links to.                       *)
DepthBounded ==
  /\ Len(visited) <= MaxGraphs
  /\ Len(callers) <= MaxGraphs

(* No NIRGraph group is decoded twice, by a cycle or by an alias, so the    *)
(* groups decoded are never more than the groups in the file.               *)
GraphsDecodedOnce ==
  /\ \A i, j \in DOMAIN visited : visited[i] = visited[j] => i = j
  /\ \A x, y \in tree :
       x.type = "NIRGraph" /\ y.type = "NIRGraph" /\ x.object = y.object => x = y

(* The reader never opens a soft or external link: validate_group_links is  *)
(* called on a group before any of its members is.                          *)
OnlyHardLinksFollowed ==
  \A l \in followed : Linked(l[1], l[2]) => file.link[l[1]][l[2]].kind = "hard"

(* Nothing of the graph is opened before the version policy has accepted    *)
(* the file: an incompatible /version must not allocate node tensors.       *)
VersionFirst == <<Root, "node">> \in followed => PolicyAccepts /\ call.entry = "read"

(* A nested graph is counted against its limit before its metadata, whose   *)
(* group no count bounds, is opened: a graph that is refused by its number  *)
(* spends nothing on it, as the comment in read_node asks.                  *)
GraphsCountedFirst ==
  pc \in {"metadata", "entries"} /\ DataAt(frame.at, "type").value = "NIRGraph" =>
    /\ \E i \in DOMAIN visited : visited[i] = frame.at
    /\ call.limit["graphs"] # NoLimit => used["graphs"] = Len(visited)

(* Ledgers and the set of visited groups only grow while the call runs, and *)
(* a decoded node leaves the graph only when the whole call fails.          *)
OnlyGrows ==
  [][/\ \A r \in Resources : used'[r] >= used[r]
     /\ Len(visited') >= Len(visited)
     /\ pc' # "failed" => tree \subseteq tree']_vars

(* ReadOptions documents that hard-link aliases are rejected before they    *)
(* can charge a second time: no object of the file is decoded as two nodes. *)
AliasesChargedOnce == \A x, y \in tree : x.object = y.object => x = y

(* Every read returns, on every container: cycles included.                 *)
Terminates == <>(pc \in {"done", "failed"})

=============================================================================
