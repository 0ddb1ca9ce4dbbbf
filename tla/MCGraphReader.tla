---------------------------- MODULE MCGraphReader ----------------------------
(***************************************************************************)
(* Small containers for the reader.  Three NIRGraph groups (top, mid, low) *)
(* and in some a fourth (deep), a nodes group for each, one IF leaf, one   *)
(* Flatten leaf, one metadata group; each family of containers meets the   *)
(* calls that are of interest for it.                                      *)
(***************************************************************************)
EXTENDS ReaderContract, NodeSchema

MCGroups   == {"file", "top", "mid", "low", "deep", "topNodes", "midNodes", "lowNodes",
               "deepNodes", "leaf", "flat", "meta"}
MCDatasets == {"graphType", "leafType", "flatType", "edgeList", "versionText",
               "tensor", "reset", "dims", "note"}
MCNames    == {"version", "node", "nodes", "edges", "type", "metadata",
               "a", "b", "k", "v_threshold", "v_reset", "r",
               "start_dim", "end_dim", "input_type"}
MCRank     == [n \in MCNames |->
                 CASE n = "a" -> 1 [] n = "b" -> 2 [] n = "edges" -> 3
                   [] n = "end_dim" -> 4 [] n = "input_type" -> 5 [] n = "k" -> 6
                   [] n = "metadata" -> 7 [] n = "node" -> 8 [] n = "nodes" -> 9
                   [] n = "r" -> 10 [] n = "start_dim" -> 11 [] n = "type" -> 12
                   [] n = "v_reset" -> 13 [] n = "v_threshold" -> 14 [] n = "version" -> 15]
MCValues   == {"NIRGraph", "IF", "Flatten", "Mystery", "same", "valid", "1.0.8", "x.y"}
MCMajorOf  == [v \in MCValues |-> IF v = "1.0.8" THEN 1 ELSE -1]
MCPlan     == [t \in {"IF", "Flatten"} |-> Fields(t)]

(* What the proofs assume of a field plan holds of every node type.         *)
ASSUME SchemaAssumption == \A t \in LeafTypes : DefaultsFollow(Fields(t))

-----------------------------------------------------------------------------
(* Containers are written as sets of links <<group, name, object, kind>>.   *)
Hard(g, n, o) == <<g, n, o, "hard">>

Store(links, contents) ==
  [link |-> [g \in MCGroups |-> [n \in MCNames |->
               LET here == {l \in links : l[1] = g /\ l[2] = n}
               IN  IF here = {} THEN NoLink
                   ELSE LET l == CHOOSE l \in here : TRUE
                        IN  [kind |-> l[4], to |-> l[3]]]],
   data |-> contents]

Data(class, count, cost, value) ==
  [secure |-> TRUE, class |-> class, rank |-> 0, paired |-> TRUE, count |-> count,
   cost |-> cost, bytes |-> cost, payload |-> "fine", value |-> value]

Contents ==
  [graphType |-> Data("string", 1, 1, "NIRGraph"), leafType |-> Data("string", 1, 1, "IF"),
   flatType |-> Data("string", 1, 1, "Flatten"), edgeList |-> Data("string", 4, 2, "x.y"),
   versionText |-> Data("string", 1, 1, "1.0.8"), tensor |-> Data("float", 2, 2, "x.y"),
   reset |-> Data("float", 1, 3, "x.y"), dims |-> Data("int", 1, 1, "x.y"),
   note |-> Data("string", 1, 1, "x.y")]

GraphLinks(g, nodes) ==
  {Hard(g, "type", "graphType"), Hard(g, "nodes", nodes), Hard(g, "edges", "edgeList")}

Skeleton ==
  {Hard("file", "version", "versionText"), Hard("file", "node", "top"),
   Hard("leaf", "type", "leafType"), Hard("leaf", "v_threshold", "tensor"),
   Hard("leaf", "r", "tensor"), Hard("flat", "type", "flatType")}

ThreeGraphs ==
  Skeleton \cup GraphLinks("top", "topNodes") \cup GraphLinks("mid", "midNodes")
    \cup GraphLinks("low", "lowNodes")

(* A member of a nodes group: absent, a hard link, or a soft link.          *)
Slot(g, n) ==
  {{}, {<<g, n, "leaf", "soft">>}}
    \cup {{Hard(g, n, o)} : o \in {"leaf", "top", "mid", "low"}}

(* Every way to nest, share and cycle three graphs with two members each.   *)
NestedFiles ==
  {Store(ThreeGraphs \cup s[1] \cup s[2] \cup s[3] \cup s[4] \cup s[5], Contents) :
     s \in Slot("topNodes", "a") \X Slot("topNodes", "b") \X Slot("midNodes", "a")
             \X {{}, {Hard("midNodes", "b", "low")}, {Hard("midNodes", "b", "leaf")}}
             \X {{}, {Hard("lowNodes", "a", "leaf")}, {Hard("lowNodes", "a", "mid")}}}

(* Two graphs that share one nodes group.                                   *)
SharedNodesFiles ==
  {Store(Skeleton \cup GraphLinks("top", "topNodes") \cup GraphLinks("mid", "midNodes")
           \cup GraphLinks("low", "midNodes")
           \cup {Hard("topNodes", "a", "mid"), Hard("topNodes", "b", "low"),
                 Hard("midNodes", "a", o)}, Contents) : o \in {"leaf", "flat", "low"}}

-----------------------------------------------------------------------------
Unlimited == [r \in Resources |-> NoLimit]
Limited(r, n) == [Unlimited EXCEPT ![r] = n]
Permissive == [kind |-> "permissive", majors |-> {}]
Read(limit) == 
  [entry |-> "read", limit |-> limit, policy |-> Permissive, faulty |-> FALSE]

(* Four graphs, one more than the cap, in a chain and beside each other.    *)
CrowdedFiles ==
  {Store(ThreeGraphs \cup GraphLinks("deep", "deepNodes") \cup s, Contents) :
     s \in {{Hard("topNodes", "a", "mid"), Hard("midNodes", "a", "low"),
             Hard("lowNodes", "a", "deep")},
            {Hard("topNodes", "a", "mid"), Hard("topNodes", "b", "low"),
             Hard("midNodes", "a", "deep")}}}

NestedCalls == {Read(Unlimited), Read(Limited("graphs", 2)), Read(Limited("nodes", 3))}
TopologyFiles == NestedFiles \cup SharedNodesFiles \cup CrowdedFiles

SharedReads == SharedNodesFiles \X {Read(Limited("nodes", 4)), Read(Unlimited)}

-----------------------------------------------------------------------------
(* Containers with one fault, or a few, in an otherwise readable file.      *)
Whole ==
  Skeleton \cup GraphLinks("top", "topNodes") \cup GraphLinks("mid", "midNodes")
    \cup {Hard("topNodes", "a", "leaf"), Hard("topNodes", "b", "mid"),
          Hard("midNodes", "a", "flat"),
          Hard("leaf", "v_reset", "reset"), Hard("flat", "input_type", "dims"),
          Hard("leaf", "metadata", "meta"), Hard("meta", "k", "note")}

Without(l) == Store(Whole \ {l}, Contents)
Redirected(l, o) == Store((Whole \ {l}) \cup {<<l[1], l[2], o, "hard">>}, Contents)
Relinked(l, kind) == Store((Whole \ {l}) \cup {<<l[1], l[2], l[3], kind>>}, Contents)

LinkFaults ==
  UNION {{Without(l), Redirected(l, "note"), Redirected(l, "flat"),
          Relinked(l, "soft"), Relinked(l, "external")} : l \in Whole}

Spoil(d) ==
  {[Contents EXCEPT ![d].secure = FALSE], [Contents EXCEPT ![d].class = "opaque"],
   [Contents EXCEPT ![d].class = "wide"],
   [Contents EXCEPT ![d].class = "string"], [Contents EXCEPT ![d].class = "int"],
   [Contents EXCEPT ![d].count = 0], [Contents EXCEPT ![d].count = 3],
   [Contents EXCEPT ![d].count = Overflow, ![d].cost = Overflow],
   [Contents EXCEPT ![d].cost = Overflow], [Contents EXCEPT ![d].paired = FALSE],
   [Contents EXCEPT ![d].payload = "negative"], [Contents EXCEPT ![d].payload = "unfit"],
   [Contents EXCEPT ![d].rank = 1], [Contents EXCEPT ![d].rank = 2],
   [Contents EXCEPT ![d].value = "Mystery"], [Contents EXCEPT ![d].value = "NIRGraph"]}

DataFaults == UNION {{Store(Whole, c) : c \in Spoil(d)} : d \in MCDatasets}

FaultyFiles == LinkFaults \cup DataFaults \cup {Store(Whole, Contents)}

FaultyCalls ==
  {[entry |-> e, limit |-> Unlimited, policy |-> p, faulty |-> FALSE] : e \in {"read", "readVersion"},
     p \in {Permissive, [kind |-> "present", majors |-> {}], [kind |-> "major", majors |-> {1}],
            [kind |-> "major", majors |-> {0}]}}

(* Every limit that can bite on a readable file with nesting.               *)
BudgetFiles ==
  {Store(Whole, Contents), Without(Hard("leaf", "v_reset", "reset")),
   Store(ThreeGraphs \cup {Hard("topNodes", "a", "mid"), Hard("topNodes", "b", "low"),
                           Hard("midNodes", "a", "leaf"), Hard("lowNodes", "a", "leaf")},
         Contents)}

BudgetCalls ==
  {[entry |-> "read", policy |-> Permissive, faulty |-> f,
    limit |-> [bytes |-> b, nodes |-> n, edges |-> e, graphs |-> g]] :
     b \in (0 .. 30) \cup {NoLimit}, n \in {2, 3, NoLimit},
     e \in {3, 4, NoLimit}, g \in {1, 2, NoLimit}, f \in BOOLEAN}

-----------------------------------------------------------------------------
(* The families together, each with its calls.                              *)
MCReads ==
  (TopologyFiles \X NestedCalls) \cup (FaultyFiles \X FaultyCalls)
    \cup (BudgetFiles \X BudgetCalls)

=============================================================================
