--------------------------- MODULE ReaderContract ---------------------------
(***************************************************************************)
(* What a read promises, stated on the container alone: the tree a file    *)
(* describes, and the conditions under which a read must return it.  No    *)
(* order, no ledger and no set of visited tokens appears here.             *)
(***************************************************************************)
EXTENDS GraphReader

IsGraph(o) ==
  o \in Groups /\ HasDataset(o, "type") /\ DataAt(o, "type").value = "NIRGraph"

(* An occurrence of an object is a path to it; a node is a member of the    *)
(* nodes group of the graph above it.                                       *)
HasNodes(x) == IsGraph(x.object) /\ HasGroup(x.object, "nodes")

Below(x) ==
  LET nodes == At(x.object, "nodes")
  IN  {[path |-> Append(x.path, n), object |-> At(nodes, n)] : n \in Members(nodes)}

(* What is nested `depth' graphs deep.                                      *)
Levels ==
  LET level[depth \in 0 .. MaxGraphs] ==
        IF depth = 0 THEN {[path |-> <<>>, object |-> TopGraph]}
        ELSE UNION {Below(x) : x \in {y \in level[depth - 1] : HasNodes(y)}}
  IN  level

(* A container with a cycle is cut below MaxGraphs nested graphs.           *)
Occurrences == UNION {Levels[depth] : depth \in 0 .. MaxGraphs}

GraphOccurrences == {x \in Occurrences : IsGraph(x.object)}

(* The returned graph, as the reader's `tree' represents it.                *)
Described ==
  {Entry(x.path, x.object, DataAt(x.object, "type").value) : x \in Occurrences}

-----------------------------------------------------------------------------

IsText(d) == d.secure /\ d.class = "string" /\ d.count = 1 /\ d.cost # Overflow

IsNumeric(d) ==
  /\ d.secure /\ d.class \in {"int", "float", "bool"}
  /\ d.count # Overflow /\ d.cost # Overflow /\ d.payload # "unfit"

IsExtents(d) == IsNumeric(d) /\ d.class = "int" /\ d.payload # "negative"

IsEdgeList(d) ==
  /\ d.secure /\ d.count # Overflow
  /\ d.count = 0 \/ (d.paired /\ d.class = "string" /\ d.cost # Overflow)

IsMetadata(d) ==
  \/ IsNumeric(d)
  \/ IsText(d) /\ d.rank = 0
  \/ d.secure /\ d.class = "string" /\ d.rank = 1 /\ d.count # Overflow /\ d.cost # Overflow

Is(d, want) ==
  CASE want = "text"     -> IsText(d)
    [] want = "tensor"   -> IsNumeric(d)
    [] want = "ints"     -> IsNumeric(d) /\ d.class = "int"
    [] want = "int"      -> IsNumeric(d) /\ d.class = "int" /\ d.count = 1
    [] want = "extents"  -> IsExtents(d)
    [] want = "extent"   -> IsExtents(d) /\ d.count = 1
    [] want = "padding"  -> \/ IsNumeric(d) /\ d.class = "int"
                            \/ IsText(d) /\ d.value \in {"same", "valid"}
    [] want = "metadata" -> IsMetadata(d)
    [] want = "edges"    -> IsEdgeList(d)

IsDatasetAt(g, n, want) == HasDataset(g, n) /\ Is(DataAt(g, n), want)

MetadataReadable(g) ==
  Linked(g, "metadata") =>
    /\ HasGroup(g, "metadata")
    /\ OnlyHardLinks(At(g, "metadata"))
    /\ \A k \in Members(At(g, "metadata")) : IsDatasetAt(At(g, "metadata"), k, "metadata")

Plan(g) ==
  LET t == DataAt(g, "type").value
  IN  IF t \in DOMAIN FieldPlan THEN FieldPlan[t] ELSE <<>>

FieldReadable(g, i) ==
  LET step == Plan(g)[i]
  IN  IF Linked(g, step.field) THEN IsDatasetAt(g, step.field, step.want)
      ELSE step.when # "required"

LeafReadable(g) ==
  /\ DataAt(g, "type").value \in DOMAIN FieldPlan
  /\ \A i \in DOMAIN Plan(g) : FieldReadable(g, i)

GraphReadable(g) ==
  /\ HasGroup(g, "nodes")
  /\ OnlyHardLinks(At(g, "nodes"))
  /\ IsDatasetAt(g, "edges", "edges")

ObjectReadable(o) ==
  /\ o \in Groups
  /\ OnlyHardLinks(o)
  /\ IsDatasetAt(o, "type", "text")
  /\ IF IsGraph(o) THEN GraphReadable(o) ELSE LeafReadable(o)
  /\ MetadataReadable(o)

(* Every NIRGraph group is reached by one path, and there are few enough.   *)
NoGraphAlias ==
  /\ \A x, y \in GraphOccurrences : x.object = y.object => x = y
  /\ Cardinality(GraphOccurrences) <= MaxGraphs

-----------------------------------------------------------------------------
(* The totals the four limits of ReadOptions bound, in plain arithmetic.    *)
Bytes(d, want) ==
  CASE want \in {"extents", "extent"} -> d.cost + d.count * WordSize
    [] want = "edges"                 ->
         IF d.count = 0 THEN 0 ELSE d.cost + (d.count \div 2) * PairSize
    [] OTHER                          -> d.cost

(* A part of the node at a path, and what it adds to a total.               *)
Item(path, part, amount) == [path |-> path, part |-> part, amount |-> amount]

Total(items) == Cardinality(UNION {{x} \X (1 .. x.amount) : x \in items})

TypeItem(path, o) == Item(path, <<"type", NoName>>, DataAt(o, "type").cost)

EntryItem(path, o, k) ==
  Item(path, <<"metadata", k>>, DataAt(At(o, "metadata"), k).cost)

FieldItem(path, o, i) ==
  LET step == Plan(o)[i]
  IN  Item(path, <<"field", i>>,
           IF Linked(o, step.field) THEN Bytes(DataAt(o, step.field), step.want)
           ELSE IF step.when = "default" THEN DataAt(o, step.like).bytes
           ELSE 0)

EdgeItem(path, o) ==
  Item(path, <<"edges", NoName>>, Bytes(DataAt(o, "edges"), "edges"))

Keys(o) == IF Linked(o, "metadata") THEN Members(At(o, "metadata")) ELSE {}

ItemsOf(path, o) ==
  {TypeItem(path, o)} \cup {EntryItem(path, o, k) : k \in Keys(o)}
    \cup IF IsGraph(o) THEN {EdgeItem(path, o)}
         ELSE {FieldItem(path, o, i) : i \in DOMAIN Plan(o)}

VersionItem == Item(<<>>, <<"version", NoName>>, DataAt(Root, "version").cost)

VersionItems == IF Linked(Root, "version") THEN {VersionItem} ELSE {}

(* Every dataset is decoded once for each path that leads to it.            *)
ByteItems == VersionItems \cup UNION {ItemsOf(x.path, x.object) : x \in Occurrences}

EdgesItem(path, o) == Item(path, <<"edges", NoName>>, EdgeCount(DataAt(o, "edges")))

EdgeItems == {EdgesItem(x.path, x.object) : x \in GraphOccurrences}

Within(resource, total) ==
  call.limit[resource] # NoLimit => total <= call.limit[resource]

WithinLimits ==
  /\ Within("graphs", Cardinality(GraphOccurrences))
  /\ Within("nodes", Cardinality(Occurrences) - 1)
  /\ Within("edges", Total(EdgeItems))
  /\ Within("bytes", Total(ByteItems))

VersionReadable ==
  /\ OnlyHardLinks(Root)
  /\ Linked(Root, "version") =>
       /\ IsDatasetAt(Root, "version", "text")
       /\ Within("bytes", DataAt(Root, "version").cost)

VersionAccepted ==
  CASE call.policy.kind = "permissive" -> TRUE
    [] call.policy.kind = "present"    -> Linked(Root, "version")
    [] call.policy.kind = "major"      ->
         /\ Linked(Root, "version")
         /\ MajorOf[DataAt(Root, "version").value] \in call.policy.majors

(* The calls that must succeed on this file.                                *)
Acceptable ==
  /\ VersionReadable
  /\ VersionAccepted
  /\ IF call.entry = "readVersion" THEN Linked(Root, "version")
     ELSE /\ HasGroup(Root, "node")
          /\ IsGraph(TopGraph)
          /\ \A x \in Occurrences : ObjectReadable(x.object)
          /\ NoGraphAlias
          /\ WithinLimits

(* A call that returns a graph was one that had to succeed, and a call that *)
(* fails while HDF5 works was one that had to fail: the order of the checks,*)
(* the early returns and the ledgers decide exactly what the contract says. *)
AcceptsExactly ==
  /\ pc = "done" => Acceptable
  /\ pc = "failed" /\ ~call.faulty => ~Acceptable

(* What is returned is what the file describes, node for node.              *)
ReturnsDescribed == pc = "done" /\ call.entry = "read" => tree = Described

=============================================================================
