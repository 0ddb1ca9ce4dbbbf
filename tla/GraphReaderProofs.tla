------------------------- MODULE GraphReaderProofs -------------------------
(***************************************************************************)
(* Proofs about GraphReader, for every family of containers and of calls.  *)
(***************************************************************************)
EXTENDS ReaderContract, SequenceTheorems, FiniteSetTheorems, Induction, TLAPS

Amounts  == Nat \cup {Overflow}
Kinds    == Errors \ {"none"}
Refusals == Seq(Kinds)

(* A charge that a ledger admits leaves it a usize, within its limit.       *)
LEMMA ChargeIsSafe ==
  ASSUME NEW limit \in Limits, NEW u \in Usize, NEW q \in Amounts,
         limit # NoLimit => u <= limit, Admits(limit, u, q)
  PROVE  /\ Charged(limit, u, q) \in Usize
         /\ Charged(limit, u, q) >= u
         /\ limit # NoLimit => Charged(limit, u, q) <= limit
  BY UsizeAssumption, OverflowAssumption, NoLimitAssumption
     DEF Limits, Usize, Admits, Charged, CheckedAdd, Amounts

-----------------------------------------------------------------------------
(***************************************************************************)
(* The verdict on a dataset: every decoder is a sequence of refusals, and  *)
(* when it is empty the byte ledger admits what the decoding charges.      *)
(***************************************************************************)

(* The first of a list of refusals is an error.                            *)
LEMMA FirstErrorIsError ==
  ASSUME NEW s \in Refusals
  PROVE  /\ FirstError(s) \in Errors
         /\ FirstError(s) = "none" <=> s = <<>>
  BY DEF FirstError, Refusals, Kinds, Errors

(* A condition refuses with its error or with nothing.                     *)
LEMMA RefuseIsRefusals ==
  ASSUME NEW c, NEW k \in Kinds
  PROVE  /\ Refuse(c, k) \in Refusals
         /\ Refuse(c, k) = <<>> <=> ~c
  BY DEF Refuse, Refusals

(* Checks made one after the other are checks.                             *)
LEMMA ConcatIsRefusals ==
  ASSUME NEW s \in Refusals, NEW t \in Refusals
  PROVE  /\ s \o t \in Refusals
         /\ s \o t = <<>> <=> s = <<>> /\ t = <<>>
  BY DEF Refusals

(* What is known of every dataset's description.                           *)
LEMMA DatasetFacts ==
  ASSUME NEW d \in DatasetRecords
  PROVE  /\ d.count \in Amounts /\ d.cost \in Amounts
         /\ d.bytes \in Usize
         /\ d.value \in Values
  BY UsizeAssumption DEF DatasetRecords, Requests, Usize, Amounts

(* The refusals of charge_allocation.                                      *)
LEMMA AllocationIsRefusals ==
  ASSUME NEW q
  PROVE  /\ Allocation(q) \in Refusals
         /\ Allocation(q) = <<>> <=> Fits(q) /\ q # Overflow
<1>1. {"ReadLimitExceeded", "InvalidTensor"} \subseteq Kinds
  BY DEF Kinds, Errors
<1> DEFINE s == Refuse(~Fits(q), "ReadLimitExceeded")
           t == Refuse(q = Overflow, "InvalidTensor")
<1>2. s \in Refusals /\ (s = <<>> <=> Fits(q))
  BY <1>1, RefuseIsRefusals
<1>3. t \in Refusals /\ (t = <<>> <=> q # Overflow)
  BY <1>1, RefuseIsRefusals
<1> HIDE DEF s, t
<1>4. s \o t \in Refusals /\ (s \o t = <<>> <=> s = <<>> /\ t = <<>>)
  BY <1>2, <1>3, ConcatIsRefusals
<1> QED
  BY <1>2, <1>3, <1>4 DEF s, t, Allocation

(* The refusals of dataset_element_count.                                  *)
LEMMA CountableIsRefusals ==
  ASSUME NEW d
  PROVE  /\ Countable(d) \in Refusals
         /\ Countable(d) = <<>> <=> d.count # Overflow /\ Fits(0)
  BY AllocationIsRefusals, OverflowAssumption DEF Countable

(* The refusals of reading a list of strings.                              *)
LEMMA StringsIsRefusals ==
  ASSUME NEW d
  PROVE  /\ Strings(d) \in Refusals
         /\ Strings(d) = <<>> <=> d.class = "string" /\ Fits(d.cost) /\ d.cost # Overflow
<1>1. /\ Refuse(TRUE, "Io") \in Refusals
      /\ Refuse(TRUE, "Io") # <<>>
  BY DEF Refuse, Refusals, Kinds, Errors
<1> QED
  BY <1>1, AllocationIsRefusals DEF Strings

(* The refusals of reading one string.                                     *)
LEMMA OneStringIsRefusals ==
  ASSUME NEW d
  PROVE  /\ OneString(d) \in Refusals
         /\ OneString(d) = <<>> <=>
              /\ d.count # Overflow /\ Fits(0) /\ d.count = 1
              /\ d.class = "string" /\ Fits(d.cost) /\ d.cost # Overflow
<1> DEFINE s == Countable(d)
           t == Refuse(d.count # 1, "Io")
           u == Strings(d)
<1>1. s \in Refusals /\ (s = <<>> <=> d.count # Overflow /\ Fits(0))
  BY CountableIsRefusals
<1>2. t \in Refusals /\ (t = <<>> <=> ~(d.count # 1))
  <2>1. "Io" \in Kinds
    BY DEF Kinds, Errors
  <2> QED
    BY <2>1, RefuseIsRefusals
<1>3. u \in Refusals /\ (u = <<>> <=> d.class = "string" /\ Fits(d.cost) /\ d.cost # Overflow)
  BY StringsIsRefusals
<1> HIDE DEF s, t, u
<1>4. s \o t \in Refusals /\ (s \o t = <<>> <=> s = <<>> /\ t = <<>>)
  BY <1>1, <1>2, ConcatIsRefusals
<1>5. /\ (s \o t) \o u \in Refusals
      /\ (s \o t) \o u = <<>> <=> s = <<>> /\ t = <<>> /\ u = <<>>
  BY <1>3, <1>4, ConcatIsRefusals
<1>6. OneString(d) = (s \o t) \o u
  BY DEF s, t, u, OneString
<1> QED
  BY <1>1, <1>2, <1>3, <1>5, <1>6

(* The refusals of reading a tensor.                                       *)
LEMMA NumbersIsRefusals ==
  ASSUME NEW d
  PROVE  /\ Numbers(d) \in Refusals
         /\ Numbers(d) = <<>> <=>
              /\ d.class \in {"int", "float", "bool"} /\ d.count # Overflow /\ Fits(0)
              /\ Fits(d.cost) /\ d.cost # Overflow /\ d.payload # "unfit"
<1> DEFINE s == Refuse(d.class \notin {"int", "float", "bool"}, "InvalidTensor")
           t == Countable(d)
           u == Allocation(d.cost)
           v == Refuse(d.payload = "unfit", "InvalidTensor")
<1>1. /\ s \in Refusals /\ (s = <<>> <=> ~(d.class \notin {"int", "float", "bool"}))
      /\ v \in Refusals /\ (v = <<>> <=> ~(d.payload = "unfit"))
  <2>1. "InvalidTensor" \in Kinds
    BY DEF Kinds, Errors
  <2> QED
    BY <2>1, RefuseIsRefusals
<1>2. t \in Refusals /\ (t = <<>> <=> d.count # Overflow /\ Fits(0))
  BY CountableIsRefusals
<1>3. u \in Refusals /\ (u = <<>> <=> Fits(d.cost) /\ d.cost # Overflow)
  BY AllocationIsRefusals
<1> HIDE DEF s, t, u, v
<1>4. s \o t \in Refusals /\ (s \o t = <<>> <=> s = <<>> /\ t = <<>>)
  BY <1>1, <1>2, ConcatIsRefusals
<1>5. /\ (s \o t) \o u \in Refusals
      /\ (s \o t) \o u = <<>> <=> s = <<>> /\ t = <<>> /\ u = <<>>
  BY <1>3, <1>4, ConcatIsRefusals
<1>6. /\ ((s \o t) \o u) \o v \in Refusals
      /\ ((s \o t) \o u) \o v = <<>> <=> s = <<>> /\ t = <<>> /\ u = <<>> /\ v = <<>>
  BY <1>1, <1>5, ConcatIsRefusals
<1>7. Numbers(d) = ((s \o t) \o u) \o v
  BY DEF s, t, u, v, Numbers
<1> QED
  BY <1>1, <1>2, <1>3, <1>6, <1>7

(* A decoder followed by one more check.                                    *)
LEMMA ThenRefuse ==
  ASSUME NEW s \in Refusals, NEW c, NEW k \in Kinds
  PROVE  /\ s \o Refuse(c, k) \in Refusals
         /\ s \o Refuse(c, k) = <<>> <=> s = <<>> /\ ~c
  BY RefuseIsRefusals, ConcatIsRefusals

(* The refusals of reading integers.                                       *)
LEMMA Integers64IsRefusals ==
  ASSUME NEW d
  PROVE  /\ Integers64(d) \in Refusals
         /\ Integers64(d) = <<>> <=> Numbers(d) = <<>> /\ d.class = "int"
         /\ Integers64(d) = <<>> => Fits(d.cost)
<1>1. "InvalidTensor" \in Kinds
  BY DEF Kinds, Errors
<1> QED
  BY <1>1, NumbersIsRefusals, ThenRefuse DEF Integers64

(* The refusals of reading extents and their second buffer.                *)
LEMMA ExtentsIsRefusals ==
  ASSUME NEW d
  PROVE  /\ Extents(d) \in Refusals
         /\ Extents(d) = <<>> <=>
              Integers64(d) = <<>> /\ Fits(ExtentCost(d)) /\ d.payload # "negative"
<1> DEFINE s == Integers64(d) \o Refuse(~Fits(ExtentCost(d)), "ReadLimitExceeded")
<1>1. "InvalidTensor" \in Kinds /\ "ReadLimitExceeded" \in Kinds
  BY DEF Kinds, Errors
<1>2. s \in Refusals /\ (s = <<>> <=> Integers64(d) = <<>> /\ ~~Fits(ExtentCost(d)))
  BY <1>1, Integers64IsRefusals, ThenRefuse
<1> HIDE DEF s
<1>3. /\ s \o Refuse(d.payload = "negative", "InvalidTensor") \in Refusals
      /\ s \o Refuse(d.payload = "negative", "InvalidTensor") = <<>>
           <=> s = <<>> /\ d.payload # "negative"
  BY <1>1, <1>2, ThenRefuse
<1> QED
  BY <1>2, <1>3 DEF s, Extents

(* The refusals of reading an edge list.                                   *)
LEMMA EdgeListIsRefusals ==
  ASSUME NEW d
  PROVE  /\ EdgeList(d) \in Refusals
         /\ EdgeList(d) = <<>> <=>
              \/ d.count = 0
              \/ /\ d.count # Overflow /\ Fits(0) /\ d.paired
                 /\ Admits(call.limit["edges"], used["edges"], EdgeCount(d))
                 /\ d.class = "string" /\ Fits(d.cost) /\ d.cost # Overflow
                 /\ Fits(EdgeCost(d))
<1> DEFINE admitted == Admits(call.limit["edges"], used["edges"], EdgeCount(d))
           s == Countable(d) \o Refuse(~d.paired, "InvalidGraph")
           t == Refuse(~admitted, "ReadCountLimitExceeded")
           u == Strings(d)
           v == Refuse(~Fits(EdgeCost(d)), "ReadLimitExceeded")
<1>1. {"InvalidGraph", "ReadCountLimitExceeded", "ReadLimitExceeded"} \subseteq Kinds
  BY DEF Kinds, Errors
<1>2. s \in Refusals /\ (s = <<>> <=> d.count # Overflow /\ Fits(0) /\ d.paired)
  <2>1. /\ Countable(d) \in Refusals
        /\ Countable(d) = <<>> <=> d.count # Overflow /\ Fits(0)
    BY CountableIsRefusals
  <2>2. s \in Refusals /\ (s = <<>> <=> Countable(d) = <<>> /\ ~~d.paired)
    BY <1>1, <2>1, ThenRefuse
  <2> QED
    BY <2>1, <2>2
<1>3. t \in Refusals /\ (t = <<>> <=> admitted)
  BY <1>1, RefuseIsRefusals
<1>4. u \in Refusals /\ (u = <<>> <=> d.class = "string" /\ Fits(d.cost) /\ d.cost # Overflow)
  BY StringsIsRefusals
<1>5. v \in Refusals /\ (v = <<>> <=> Fits(EdgeCost(d)))
  BY <1>1, RefuseIsRefusals
<1>6. <<>> \in Refusals
  BY DEF Refusals
<1> HIDE DEF s, t, u, v
<1>7. s \o t \in Refusals /\ (s \o t = <<>> <=> s = <<>> /\ t = <<>>)
  BY <1>2, <1>3, ConcatIsRefusals
<1>8. /\ (s \o t) \o u \in Refusals
      /\ (s \o t) \o u = <<>> <=> s = <<>> /\ t = <<>> /\ u = <<>>
  BY <1>4, <1>7, ConcatIsRefusals
<1>9. /\ ((s \o t) \o u) \o v \in Refusals
      /\ ((s \o t) \o u) \o v = <<>> <=> s = <<>> /\ t = <<>> /\ u = <<>> /\ v = <<>>
  BY <1>5, <1>8, ConcatIsRefusals
<1>10. EdgeList(d) = IF d.count = 0 THEN <<>> ELSE ((s \o t) \o u) \o v
  BY DEF s, t, u, v, EdgeList
<1> QED
  BY <1>2, <1>3, <1>4, <1>5, <1>6, <1>9, <1>10

(* The refusals of reading one metadata entry.                             *)
LEMMA MetadataIsRefusals ==
  ASSUME NEW d \in DatasetRecords
  PROVE  /\ MetadataEntry(d) \in Refusals
         /\ MetadataEntry(d) = <<>> <=>
              \/ Numbers(d) = <<>>
              \/ d.rank = 0 /\ OneString(d) = <<>>
              \/ d.rank = 1 /\ Countable(d) = <<>> /\ Strings(d) = <<>>
         /\ MetadataEntry(d) = <<>> => Fits(d.cost)
<1>1. d.rank \in {0, 1, 2}
  BY DEF DatasetRecords
<1>2. /\ Refuse(TRUE, "InvalidTensor") \in Refusals
      /\ Refuse(TRUE, "InvalidTensor") # <<>>
  BY DEF Refuse, Refusals, Kinds, Errors
<1>3. /\ Countable(d) \o Strings(d) \in Refusals
      /\ Countable(d) \o Strings(d) = <<>> <=> Countable(d) = <<>> /\ Strings(d) = <<>>
  BY CountableIsRefusals, StringsIsRefusals, ConcatIsRefusals
<1>4. /\ Numbers(d) \in Refusals /\ OneString(d) \in Refusals
      /\ Numbers(d) = <<>> => d.class \in {"int", "float", "bool"} /\ Fits(d.cost)
      /\ OneString(d) = <<>> => d.class = "string" /\ Fits(d.cost)
      /\ Strings(d) = <<>> => d.class = "string" /\ Fits(d.cost)
  BY NumbersIsRefusals, OneStringIsRefusals, StringsIsRefusals
<1>5. CASE d.class \notin {"string", "wide"}
  BY <1>4, <1>5 DEF MetadataEntry
<1>6. CASE d.class \in {"string", "wide"}
  <2>1. Numbers(d) # <<>>
    BY <1>4, <1>6
  <2>2. CASE d.rank = 0
    BY <1>4, <1>6, <2>1, <2>2 DEF MetadataEntry
  <2>3. CASE d.rank = 1
    <3>1. MetadataEntry(d) = Countable(d) \o Strings(d)
      BY <1>6, <2>3 DEF MetadataEntry
    <3> QED
      BY <1>3, <1>4, <2>1, <2>3, <3>1
  <2>4. CASE d.rank = 2
    <3>1. d.rank # 0 /\ d.rank # 1
      BY <2>4
    <3>2. MetadataEntry(d) = Refuse(TRUE, "InvalidTensor")
      BY <1>6, <2>4, <3>1 DEF MetadataEntry
    <3> QED
      BY <1>2, <2>1, <3>1, <3>2
  <2> QED
    BY <1>1, <2>2, <2>3, <2>4
<1> QED
  BY <1>5, <1>6

(* The refusals of reading a padding.                                      *)
LEMMA PaddingIsRefusals ==
  ASSUME NEW d
  PROVE  /\ Padding(d) \in Refusals
         /\ Padding(d) = <<>> <=>
              \/ OneString(d) = <<>> /\ d.value \in {"same", "valid"}
              \/ Integers64(d) = <<>>
         /\ Padding(d) = <<>> => Fits(d.cost)
<1>1. "InvalidGraph" \in Kinds
  BY DEF Kinds, Errors
<1> QED
  BY <1>1, OneStringIsRefusals, Integers64IsRefusals, ThenRefuse DEF Padding

(* What a dataset costs is a countable amount or an overflow.              *)
LEMMA CostIsAmount ==
  ASSUME NEW d \in DatasetRecords, NEW want
  PROVE  /\ Cost(d, want) \in Amounts
         /\ EdgeCount(d) \in Nat
<1>1. d.count \in Amounts /\ d.cost \in Amounts /\ WordSize \in Nat /\ PairSize \in Nat
  BY DatasetFacts, OptionsAssumption, UsizeAssumption DEF Usize
<1>2. EdgeCount(d) \in Nat
  BY <1>1 DEF EdgeCount, Amounts
<1>3. ASSUME NEW a \in Amounts, NEW b \in Amounts PROVE CheckedAdd(a, b) \in Amounts
  BY DEF CheckedAdd, Amounts
<1>4. ASSUME NEW a \in Amounts, NEW b \in Nat PROVE CheckedMul(a, b) \in Amounts
  <2>1. CASE a \in Nat
    <3>1. a * b \in Nat
      BY <2>1
    <3> QED
      BY <2>1, <3>1 DEF CheckedMul, Amounts
  <2>2. CASE a = Overflow
    BY <2>2 DEF CheckedMul, Amounts
  <2> QED
    BY <2>1, <2>2 DEF Amounts
<1>5. ExtentCost(d) \in Amounts
  BY <1>1, <1>3, <1>4 DEF ExtentCost
<1>6. CheckedMul(EdgeCount(d), PairSize) \in Amounts
  BY <1>1, <1>2, <1>4 DEF Amounts
<1>7. EdgeCost(d) \in Amounts
  BY <1>1, <1>3, <1>6 DEF EdgeCost, Amounts
<1> QED
  BY <1>1, <1>2, <1>5, <1>7 DEF Cost

(* The checks of a decoder, after the one that refuses an insecure dataset. *)
Checks(d, want) ==
  CASE want = "text"     -> OneString(d)
    [] want = "tensor"   -> Numbers(d)
    [] want = "ints"     -> Integers64(d)
    [] want = "int"      -> Integers64(d) \o Refuse(d.count # 1, "InvalidTensor")
    [] want = "extents"  -> Extents(d)
    [] want = "extent"   -> Extents(d) \o Refuse(d.count # 1, "InvalidTensor")
    [] want = "padding"  -> Padding(d)
    [] want = "metadata" -> MetadataEntry(d)
    [] want = "edges"    -> EdgeList(d)

(* The two decoders that want a single number.                             *)
LEMMA SinglesAreRefusals ==
  ASSUME NEW d
  PROVE  /\ Checks(d, "int") \in Refusals /\ Checks(d, "extent") \in Refusals
         /\ Checks(d, "int") = <<>> <=> Integers64(d) = <<>> /\ d.count = 1
         /\ Checks(d, "extent") = <<>> <=> Extents(d) = <<>> /\ d.count = 1
<1> DEFINE one(s) == s \o Refuse(d.count # 1, "InvalidTensor")
<1>1. "InvalidTensor" \in Kinds
  BY DEF Kinds, Errors
<1>2. Integers64(d) \in Refusals /\ Extents(d) \in Refusals
  BY Integers64IsRefusals, ExtentsIsRefusals
<1>3. \A s \in Refusals : one(s) \in Refusals /\ (one(s) = <<>> <=> s = <<>> /\ ~(d.count # 1))
  BY <1>1, ThenRefuse
<1>4. Checks(d, "int") = one(Integers64(d)) /\ Checks(d, "extent") = one(Extents(d))
  BY DEF Checks
<1> HIDE DEF one
<1> QED
  BY <1>2, <1>3, <1>4

(* A dataset decodes when it is secure and every check lets it pass.       *)
LEMMA VerdictIsChecks ==
  ASSUME NEW d \in DatasetRecords, NEW want \in Wants
  PROVE  /\ Verdict(d, want) \in Errors
         /\ Verdict(d, want) = "none" <=> d.secure /\ Checks(d, want) = <<>>
<1> DEFINE s == Refuse(~d.secure, "InvalidGraph")
           t == Checks(d, want)
<1>1. s \in Refusals /\ (s = <<>> <=> ~~d.secure)
  <2>1. "InvalidGraph" \in Kinds
    BY DEF Kinds, Errors
  <2> QED
    BY <2>1, RefuseIsRefusals
<1>2. t \in Refusals
  <2>1. CASE want \in {"text", "tensor", "ints", "extents"}
    BY <2>1, OneStringIsRefusals, NumbersIsRefusals, Integers64IsRefusals,
       ExtentsIsRefusals DEF Checks
  <2>2. CASE want \in {"padding", "metadata", "edges"}
    BY <2>2, PaddingIsRefusals, MetadataIsRefusals, EdgeListIsRefusals DEF Checks
  <2>3. CASE want \in {"int", "extent"}
    BY <2>3, SinglesAreRefusals
  <2> QED
    BY <2>1, <2>2, <2>3 DEF Wants
<1>3. Verdict(d, want) = FirstError(s \o t)
  BY DEF Checks, Verdict
<1> HIDE DEF s, t
<1>4. s \o t \in Refusals /\ (s \o t = <<>> <=> s = <<>> /\ t = <<>>)
  BY <1>1, <1>2, ConcatIsRefusals
<1>5. /\ FirstError(s \o t) \in Errors
      /\ FirstError(s \o t) = "none" <=> s \o t = <<>>
  BY <1>4, FirstErrorIsError
<1>6. Verdict(d, want) = "none" <=> d.secure /\ t = <<>>
  BY <1>1, <1>3, <1>4, <1>5
<1> QED
  BY <1>3, <1>5, <1>6 DEF t

(* A dataset that decodes is one whose whole cost the byte ledger admits,   *)
(* and an edge list is admitted by the edge ledger too.                     *)
LEMMA VerdictIsSafe ==
  ASSUME NEW d \in DatasetRecords, NEW want \in Wants
  PROVE  /\ Verdict(d, want) \in Errors
         /\ Verdict(d, want) = "none" =>
              \/ Fits(Cost(d, want))
                 /\ (want = "edges" =>
                       Admits(call.limit["edges"], used["edges"], EdgeCount(d)))
              \/ want = "edges" /\ d.count = 0
<1>1. CASE want \in {"text", "tensor", "ints"}
  BY <1>1, VerdictIsChecks, OneStringIsRefusals, NumbersIsRefusals, Integers64IsRefusals
     DEF Checks, Cost
<1>2. CASE want \in {"padding", "metadata"}
  BY <1>2, VerdictIsChecks, PaddingIsRefusals, MetadataIsRefusals DEF Checks, Cost
<1>3. CASE want \in {"int", "extent"}
  BY <1>3, VerdictIsChecks, SinglesAreRefusals, Integers64IsRefusals, ExtentsIsRefusals
     DEF Cost
<1>4. CASE want = "extents"
  BY <1>4, VerdictIsChecks, ExtentsIsRefusals DEF Checks, Cost
<1>5. CASE want = "edges"
  BY <1>5, VerdictIsChecks, EdgeListIsRefusals DEF Checks, Cost
<1> QED
  BY <1>1, <1>2, <1>3, <1>4, <1>5 DEF Wants

-----------------------------------------------------------------------------
(***************************************************************************)
(* Types and ledgers.  What a step opens, it knows to be there: the parts  *)
(* of SafeInv beside TypeOK say what earlier steps have established of the *)
(* container, and are what makes TypeOK inductive.                         *)
(***************************************************************************)
NodeNamed == pc = "nodeType" => frame.name \in Names

TopGraphFound == pc = "rootType" => HasGroup(Root, "node")

EntriesFound == pc = "entries" /\ frame.keys # {} => HasGroup(frame.at, "metadata")

(* Every required field before the current one was read from a dataset.     *)
FieldsRead ==
  pc \in {"metadata", "entries"} /\ frame.name # NoName /\ frame.type \in DOMAIN FieldPlan =>
    \A j \in DOMAIN FieldPlan[frame.type] :
      j < frame.field /\ FieldPlan[frame.type][j].when = "required" =>
        HasDataset(frame.at, FieldPlan[frame.type][j].field)

SafeInv ==
  /\ TypeOK
  /\ LimitsRespected
  /\ NodeNamed
  /\ TopGraphFound
  /\ EntriesFound
  /\ FieldsRead

(* The links and the contents of a container.                               *)
LEMMA ContainerFacts ==
  ASSUME TypeOK
  PROVE  /\ \A g \in Groups, n \in Names : Linked(g, n) => At(g, n) \in Objects
         /\ \A g \in Groups, n \in Names : HasGroup(g, n) => At(g, n) \in Groups
         /\ \A g \in Groups, n \in Names :
              HasDataset(g, n) => DataAt(g, n) \in DatasetRecords
         /\ \A g \in Groups : Members(g) \in SUBSET Names
<1>1. file \in Containers
  BY ContainerAssumption DEF TypeOK
<1>2. \A g \in Groups, n \in Names : file.link[g][n] \in Links \cup {NoLink}
  BY <1>1 DEF Containers
<1>3. \A d \in Datasets : file.data[d] \in DatasetRecords
  BY <1>1 DEF Containers
<1> QED
  BY <1>2, <1>3 DEF Linked, At, HasGroup, HasDataset, DataAt, Members, Links

(* The names the reader looks up are names of the container.               *)
LEMMA KnownNames ==
  {"version", "node", "nodes", "edges", "type", "metadata"} \subseteq Names
  BY ContainerAssumption

(* What is known of the call's limits and policy.                          *)
LEMMA CallFacts ==
  ASSUME call \in CallRecords
  PROVE  \A r \in Resources : call.limit[r] \in Limits
  BY OptionsAssumption DEF CallRecords

(* A group has a countable number of members.                              *)
LEMMA MemberCount ==
  ASSUME TypeOK, NEW g
  PROVE  Cardinality(Members(g)) \in Nat
<1>1. Members(g) \subseteq Names
  BY DEF Members
<1> QED
  BY <1>1, ContainerAssumption, FS_Subset, FS_CardinalityType

(* An admitted charge keeps the ledgers in their type and in their limits.  *)
LEMMA ChargeKeepsLedgers ==
  ASSUME SafeInv, NEW r \in Resources, NEW q \in Amounts,
         Admits(call.limit[r], used[r], q), Charge(r, q), UNCHANGED call
  PROVE  /\ used' \in [Resources -> Usize]
         /\ LimitsRespected'
         /\ \A x \in Resources : used'[x] >= used[x]
<1> DEFINE charged == Charged(call.limit[r], used[r], q)
<1>1. used \in [Resources -> Usize] /\ call.limit[r] \in Limits
  BY CallFacts DEF SafeInv, TypeOK
<1>2. call.limit[r] # NoLimit => used[r] <= call.limit[r]
  BY DEF SafeInv, LimitsRespected
<1>3. /\ charged \in Usize
      /\ charged >= used[r]
      /\ call.limit[r] # NoLimit => charged <= call.limit[r]
  BY <1>1, <1>2, ChargeIsSafe
<1> HIDE DEF charged
<1>4. used' = [used EXCEPT ![r] = charged]
  BY DEF Charge, charged
<1>5. \A x \in Resources : used[x] >= used[x]
  BY <1>1 DEF Usize
<1> QED
  BY <1>1, <1>3, <1>4, <1>5 DEF SafeInv, LimitsRespected

(* Decoding a dataset that passes its checks charges the byte ledger.       *)
LEMMA DecodeKeepsLedgers ==
  ASSUME SafeInv, NEW d \in DatasetRecords, NEW want \in Wants \ {"edges"},
         Verdict(d, want) = "none", Charge("bytes", Cost(d, want)), UNCHANGED call
  PROVE  /\ used' \in [Resources -> Usize]
         /\ LimitsRespected'
         /\ \A x \in Resources : used'[x] >= used[x]
<1>1. Admits(call.limit["bytes"], used["bytes"], Cost(d, want))
  BY VerdictIsSafe DEF Fits
<1>2. Cost(d, want) \in Amounts /\ "bytes" \in Resources
  BY CostIsAmount DEF Resources
<1> QED
  BY <1>1, <1>2, ChargeKeepsLedgers

(* A failing step changes nothing the invariant speaks of.                  *)
LEMMA FailIsSafe ==
  ASSUME SafeInv, UNCHANGED <<file, call>>, NEW k \in Errors, Fail(k),
         followed' \subseteq Groups \X Names
  PROVE  SafeInv'
<1>1. UNCHANGED <<version, frame, callers, visited, used>>
  BY DEF Fail
<1>2. TypeOK'
  BY <1>1 DEF SafeInv, TypeOK, Fail, Steps, Errors, Entries
<1>3. LimitsRespected'
  BY <1>1 DEF SafeInv, LimitsRespected
<1> QED
  BY <1>2, <1>3
     DEF SafeInv, Fail, NodeNamed, TopGraphFound, EntriesFound, FieldsRead

(* A step that moves on and keeps frame and ledgers as they are.            *)
LEMMA GotoIsSafe ==
  ASSUME SafeInv, UNCHANGED <<file, call>>, NEW step \in Steps, Goto(step),
         step \notin {"nodeType", "metadata", "entries"},
         step = "rootType" => HasGroup(Root, "node"),
         followed' \subseteq Groups \X Names
  PROVE  SafeInv'
<1>1. UNCHANGED <<version, frame, callers, visited, used, tree, error>>
  BY DEF Goto
<1>2. TypeOK'
  BY <1>1 DEF SafeInv, TypeOK, Goto
<1>3. LimitsRespected'
  BY <1>1 DEF SafeInv, LimitsRespected
<1> QED
  BY <1>2, <1>3
     DEF SafeInv, Goto, NodeNamed, TopGraphFound, EntriesFound, FieldsRead, HasGroup, Linked, At

(* Following a link leaves the other variables typed.                      *)
LEMMA FollowKeepsType ==
  ASSUME TypeOK, NEW g \in Groups, NEW n \in Names, Follow(g, n)
  PROVE  followed' \subseteq Groups \X Names
  BY DEF TypeOK, Follow

(* The steps before the first graph keep the invariant.                    *)
LEMMA EnvelopeIsSafe ==
  ASSUME SafeInv, UNCHANGED <<file, call>>,
         \/ OpenFile \/ CheckRootLinks \/ LoadVersion \/ EnforceVersionPolicy
         \/ OpenTopGraph \/ ReadRootType
  PROVE  SafeInv'
<1> USE DEF Steps, Errors
<1>0. /\ TypeOK /\ Root \in Groups
      /\ {"version", "node", "type"} \subseteq Names
      /\ followed \subseteq Groups \X Names
      /\ "text" \in Wants \ {"edges"}
  BY ContainerAssumption DEF SafeInv, TypeOK, Wants
<1>1. CASE OpenFile
  BY <1>0, <1>1, GotoIsSafe DEF OpenFile
<1>2. CASE CheckRootLinks
  BY <1>0, <1>2, GotoIsSafe, FailIsSafe DEF CheckRootLinks
<1>3. CASE LoadVersion
  <2>1. CASE ~Linked(Root, "version")
    BY <1>0, <1>3, <2>1, GotoIsSafe DEF LoadVersion
  <2>2. CASE Linked(Root, "version")
    <3> DEFINE d == DataAt(Root, "version")
    <3>1. followed' \subseteq Groups \X Names
      BY <1>0, <1>3, <2>2, FollowKeepsType DEF LoadVersion
    <3>2. CASE ~HasDataset(Root, "version")
      BY <1>3, <2>2, <3>1, <3>2, FailIsSafe DEF LoadVersion
    <3>3. CASE HasDataset(Root, "version")
      <4>1. d \in DatasetRecords
        BY <1>0, <3>3, ContainerFacts
      <4>2. Verdict(d, "text") \in Errors /\ d.value \in Values
        BY <1>0, <4>1, VerdictIsSafe, DatasetFacts
      <4>3. CASE Verdict(d, "text") # "none"
        BY <1>3, <2>2, <3>1, <3>3, <4>2, <4>3, FailIsSafe DEF LoadVersion
      <4>4. CASE Verdict(d, "text") = "none"
        <5>1. /\ version' = d.value /\ pc' = "policy"
              /\ Charge("bytes", Cost(d, "text"))
              /\ UNCHANGED <<frame, callers, visited, tree, error>>
          BY <1>3, <2>2, <3>3, <4>4 DEF LoadVersion
        <5>2. used' \in [Resources -> Usize] /\ LimitsRespected'
          BY <1>0, <4>1, <4>4, <5>1, DecodeKeepsLedgers
        <5>3. TypeOK'
          BY <3>1, <4>2, <5>1, <5>2 DEF SafeInv, TypeOK
        <5> QED
          BY <5>1, <5>2, <5>3
             DEF SafeInv, NodeNamed, TopGraphFound, EntriesFound, FieldsRead
      <4> QED
        BY <4>3, <4>4
    <3> QED
      BY <3>2, <3>3
  <2> QED
    BY <2>1, <2>2
<1>4. CASE EnforceVersionPolicy
  BY <1>0, <1>4, GotoIsSafe, FailIsSafe DEF EnforceVersionPolicy
<1>5. CASE OpenTopGraph
  <2>1. followed' \subseteq Groups \X Names
    BY <1>0, <1>5, FollowKeepsType DEF OpenTopGraph
  <2> QED
    BY <1>5, <2>1, GotoIsSafe, FailIsSafe DEF OpenTopGraph
<1>6. CASE ReadRootType
  <2> DEFINE d == DataAt(TopGraph, "type")
  <2>1. TopGraph \in Groups
    BY <1>0, <1>6, ContainerFacts DEF ReadRootType, SafeInv, TopGraphFound, TopGraph
  <2>2. followed' \subseteq Groups \X Names
    BY <1>0, <1>6, <2>1, FollowKeepsType DEF ReadRootType
  <2>3. CASE ~HasDataset(TopGraph, "type")
    BY <1>6, <2>2, <2>3, FailIsSafe DEF ReadRootType
  <2>4. CASE HasDataset(TopGraph, "type")
    <3>1. d \in DatasetRecords
      BY <1>0, <2>1, <2>4, ContainerFacts
    <3>2. Verdict(d, "text") \in Errors
      BY <1>0, <3>1, VerdictIsSafe
    <3>3. CASE Verdict(d, "text") # "none"
      BY <1>6, <2>2, <2>4, <3>2, <3>3, FailIsSafe DEF ReadRootType
    <3>4. CASE Verdict(d, "text") = "none" /\ d.value # "NIRGraph"
      BY <1>6, <2>2, <2>4, <3>4, FailIsSafe DEF ReadRootType
    <3>5. CASE Verdict(d, "text") = "none" /\ d.value = "NIRGraph"
      <4>1. /\ frame' = NewFrame(TopGraph, <<>>) /\ pc' = "enter"
            /\ Charge("bytes", Cost(d, "text"))
            /\ UNCHANGED <<version, callers, visited, tree, error>>
        BY <1>6, <2>4, <3>5 DEF ReadRootType
      <4>2. used' \in [Resources -> Usize] /\ LimitsRespected'
        BY <1>0, <3>1, <3>5, <4>1, DecodeKeepsLedgers
      <4>3. frame' \in Frames
        BY <2>1, <4>1, ContainerAssumption DEF NewFrame, Frames
      <4>4. TypeOK'
        BY <2>2, <4>1, <4>2, <4>3 DEF SafeInv, TypeOK
      <4> QED
        BY <4>1, <4>2, <4>4
           DEF SafeInv, NodeNamed, TopGraphFound, EntriesFound, FieldsRead
    <3> QED
      BY <3>3, <3>4, <3>5
  <2> QED
    BY <2>3, <2>4
<1> QED
  BY <1>1, <1>2, <1>3, <1>4, <1>5, <1>6

(* The frame once the type of a leaf is known.                              *)
LEMMA LeafFrame ==
  ASSUME NEW f \in Frames, NEW t \in Values
  PROVE  /\ [f EXCEPT !.type = t, !.field = 1] \in Frames
         /\ [f EXCEPT !.type = t, !.field = 1].field = 1
<1>1. 1 \in Nat \ {0}
  OBVIOUS
<1>2. ASSUME NEW n \in Nat \ {0} PROVE [f EXCEPT !.type = t, !.field = n] \in Frames
  BY DEF Frames
<1> QED
  BY <1>1, <1>2 DEF Frames

(* The steps that walk a graph keep the invariant.                         *)
LEMMA GraphIsSafe ==
  ASSUME SafeInv, UNCHANGED <<file, call>>,
         EnterGraph \/ CheckGraphLinks \/ OpenNodes \/ OpenMember \/ ReadNodeType
  PROVE  SafeInv'
<1> USE DEF Steps, Errors
<1>0. /\ TypeOK /\ frame \in Frames
      /\ {"nodes", "type"} \subseteq Names
      /\ followed \subseteq Groups \X Names
      /\ "text" \in Wants \ {"edges"}
      /\ {"graphs", "nodes"} \subseteq Resources
  BY ContainerAssumption DEF SafeInv, TypeOK, Wants, Resources
<1>1. CASE EnterGraph
  <2>1. CASE Fail("InvalidGraph") \/ Fail("ReadCountLimitExceeded")
    BY <1>0, <1>1, <2>1, FailIsSafe DEF EnterGraph
  <2>2. CASE ~(Fail("InvalidGraph") \/ Fail("ReadCountLimitExceeded"))
    <3>1. /\ Admits(call.limit["graphs"], used["graphs"], 1)
          /\ visited' = Append(visited, frame.graph)
          /\ Charge("graphs", 1)
          /\ pc' = "graphLinks"
          /\ UNCHANGED <<version, frame, callers, tree, error, followed>>
      BY <1>1, <2>2 DEF EnterGraph
    <3>2. used' \in [Resources -> Usize] /\ LimitsRespected'
      BY <1>0, <3>1, ChargeKeepsLedgers DEF Amounts
    <3>3. visited' \in Seq(Groups)
      BY <1>0, <3>1 DEF TypeOK, Frames
    <3>4. TypeOK'
      BY <3>1, <3>2, <3>3 DEF SafeInv, TypeOK
    <3> QED
      BY <3>1, <3>2, <3>4
         DEF SafeInv, NodeNamed, TopGraphFound, EntriesFound, FieldsRead
  <2> QED
    BY <2>1, <2>2
<1>2. CASE CheckGraphLinks
  BY <1>0, <1>2, GotoIsSafe, FailIsSafe DEF CheckGraphLinks
<1>3. CASE OpenNodes
  <2> DEFINE g == At(frame.graph, "nodes")
             n == Cardinality(Members(g))
  <2>1. frame.graph \in Groups
    BY <1>0 DEF Frames
  <2>2. followed' \subseteq Groups \X Names
    BY <1>0, <1>3, <2>1, FollowKeepsType DEF OpenNodes
  <2>3. CASE \E k \in Errors : Fail(k)
    BY <2>2, <2>3, FailIsSafe
  <2>4. CASE ~\E k \in Errors : Fail(k)
    <3>1. /\ HasGroup(frame.graph, "nodes")
          /\ Admits(call.limit["nodes"], used["nodes"], n)
          /\ frame' = [frame EXCEPT !.nodes = g, !.todo = Members(g)]
          /\ Charge("nodes", n)
          /\ pc' = "members"
          /\ UNCHANGED <<version, callers, visited, tree, error>>
      BY <1>3, <2>4 DEF OpenNodes
    <3>2. n \in Amounts
      BY <1>0, MemberCount DEF Amounts
    <3>3. used' \in [Resources -> Usize] /\ LimitsRespected'
      BY <1>0, <3>1, <3>2, ChargeKeepsLedgers
    <3>4. g \in Groups /\ Members(g) \in SUBSET Names
      BY <1>0, <2>1, <3>1, ContainerFacts
    <3>5. frame' \in Frames
      BY <1>0, <3>1, <3>4 DEF Frames
    <3>6. TypeOK'
      BY <2>2, <3>1, <3>3, <3>5 DEF SafeInv, TypeOK
    <3> QED
      BY <3>1, <3>3, <3>6
         DEF SafeInv, NodeNamed, TopGraphFound, EntriesFound, FieldsRead
  <2> QED
    BY <2>3, <2>4
<1>4. CASE OpenMember
  <2>1. PICK n \in frame.todo :
          /\ Follow(frame.nodes, n)
          /\ \/ ~HasGroup(frame.nodes, n) /\ Fail("Io")
             \/ /\ HasGroup(frame.nodes, n)
                /\ IF ~OnlyHardLinks(At(frame.nodes, n)) THEN Fail("InvalidGraph")
                   ELSE /\ frame' = [frame EXCEPT !.name = n, !.at = At(frame.nodes, n)]
                        /\ pc' = "nodeType"
                        /\ UNCHANGED <<version, callers, visited, used, tree, error>>
    BY <1>4 DEF OpenMember
  <2>2. frame.nodes \in Groups /\ n \in Names
    BY <1>0 DEF Frames
  <2>3. followed' \subseteq Groups \X Names
    BY <1>0, <2>1, <2>2, FollowKeepsType
  <2>4. CASE \E k \in Errors : Fail(k)
    BY <2>3, <2>4, FailIsSafe
  <2>5. CASE ~\E k \in Errors : Fail(k)
    <3>1. /\ HasGroup(frame.nodes, n)
          /\ frame' = [frame EXCEPT !.name = n, !.at = At(frame.nodes, n)]
          /\ pc' = "nodeType"
          /\ UNCHANGED <<version, callers, visited, used, tree, error>>
      BY <2>1, <2>5
    <3>2. At(frame.nodes, n) \in Groups
      BY <1>0, <2>2, <3>1, ContainerFacts
    <3>3. frame' \in Frames /\ frame'.name = n
      BY <1>0, <2>2, <3>1, <3>2 DEF Frames
    <3>4. TypeOK'
      BY <2>3, <3>1, <3>3 DEF SafeInv, TypeOK
    <3> QED
      BY <2>2, <3>1, <3>3, <3>4
         DEF SafeInv, LimitsRespected, NodeNamed, TopGraphFound, EntriesFound, FieldsRead
  <2> QED
    BY <2>4, <2>5
<1>5. CASE ReadNodeType
  <2> DEFINE d == DataAt(frame.at, "type")
  <2>1. frame.at \in Groups /\ frame.name \in Names /\ frame.path \in Seq(Names)
    BY <1>0, <1>5 DEF Frames, ReadNodeType, SafeInv, NodeNamed
  <2>2. followed' \subseteq Groups \X Names
    BY <1>0, <1>5, <2>1, FollowKeepsType DEF ReadNodeType
  <2>3. CASE ~HasDataset(frame.at, "type")
    BY <1>5, <2>2, <2>3, FailIsSafe DEF ReadNodeType
  <2>4. CASE HasDataset(frame.at, "type")
    <3>1. d \in DatasetRecords
      BY <1>0, <2>1, <2>4, ContainerFacts
    <3>2. Verdict(d, "text") \in Errors /\ d.value \in Values
      BY <1>0, <3>1, VerdictIsSafe, DatasetFacts
    <3>3. CASE Verdict(d, "text") # "none"
      BY <1>5, <2>2, <2>4, <3>2, <3>3, FailIsSafe DEF ReadNodeType
    <3>4. CASE Verdict(d, "text") = "none"
      <4>1. /\ Charge("bytes", Cost(d, "text"))
            /\ UNCHANGED <<version, visited, tree, error>>
        BY <1>5, <2>4, <3>4 DEF ReadNodeType
      <4>2. used' \in [Resources -> Usize] /\ LimitsRespected'
        BY <1>0, <3>1, <3>4, <4>1, DecodeKeepsLedgers
      <4>3. CASE d.value = "NIRGraph"
        <5>1. /\ callers' = Append(callers, frame)
              /\ frame' = NewFrame(frame.at, Append(frame.path, frame.name))
              /\ pc' = "enter"
          BY <1>5, <2>4, <3>4, <4>3 DEF ReadNodeType
        <5>2. Append(frame.path, frame.name) \in Seq(Names)
          BY <2>1
        <5>3. frame' \in Frames
          BY <2>1, <5>1, <5>2, ContainerAssumption DEF NewFrame, Frames
        <5>4. callers' \in Seq(Frames)
          BY <1>0, <5>1 DEF TypeOK
        <5>5. TypeOK'
          BY <2>2, <4>1, <4>2, <5>1, <5>3, <5>4 DEF SafeInv, TypeOK
        <5> QED
          BY <4>2, <5>1, <5>5
             DEF SafeInv, NodeNamed, TopGraphFound, EntriesFound, FieldsRead
      <4>4. CASE d.value # "NIRGraph"
        <5>1. /\ frame' = [frame EXCEPT !.type = d.value, !.field = 1]
              /\ pc' = "metadata"
              /\ UNCHANGED callers
          BY <1>5, <2>4, <3>4, <4>4 DEF ReadNodeType
        <5>2. frame' \in Frames /\ frame'.field = 1
          BY <1>0, <3>2, <5>1, LeafFrame
        <5>3. TypeOK'
          BY <2>2, <4>1, <4>2, <5>1, <5>2 DEF SafeInv, TypeOK
        <5>4. FieldsRead'
          <6>1. \A t \in DOMAIN FieldPlan : \A j \in DOMAIN FieldPlan[t] : ~(j < 1)
            BY OptionsAssumption
          <6> QED
            BY <5>2, <6>1 DEF FieldsRead
        <5> QED
          BY <4>2, <5>1, <5>3, <5>4
             DEF SafeInv, NodeNamed, TopGraphFound, EntriesFound
      <4> QED
        BY <4>3, <4>4
    <3> QED
      BY <3>3, <3>4
  <2> QED
    BY <2>3, <2>4
<1> QED
  BY <1>1, <1>2, <1>3, <1>4, <1>5

(* Moving to the next field, once the current one is read or not required.  *)
LEMMA NextFieldIsSafe ==
  ASSUME SafeInv, UNCHANGED <<file, call>>, AtLeaf,
         frame.type \in DOMAIN FieldPlan,
         frame.field \in DOMAIN FieldPlan[frame.type],
         FieldPlan[frame.type][frame.field].when = "required" =>
           HasDataset(frame.at, FieldPlan[frame.type][frame.field].field),
         NextField, UNCHANGED <<pc, version, callers, visited, tree, error>>,
         used' \in [Resources -> Usize], LimitsRespected',
         followed' \subseteq Groups \X Names
  PROVE  SafeInv'
<1>1. frame \in Frames /\ frame' = [frame EXCEPT !.field = frame.field + 1]
  BY DEF SafeInv, TypeOK, NextField
<1>2. /\ frame' \in Frames
      /\ frame'.type = frame.type /\ frame'.at = frame.at /\ frame'.name = frame.name
      /\ frame'.keys = frame.keys /\ frame'.field = frame.field + 1
  BY <1>1 DEF Frames
<1>3. TypeOK'
  BY <1>2 DEF SafeInv, TypeOK
<1>4. NodeNamed' /\ TopGraphFound' /\ EntriesFound'
  BY <1>2 DEF SafeInv, NodeNamed, TopGraphFound, EntriesFound, AtLeaf, HasGroup, Linked, At
<1>5. FieldsRead'
  <2> SUFFICES ASSUME NEW j \in DOMAIN FieldPlan[frame.type], j < frame.field + 1,
                      FieldPlan[frame.type][j].when = "required"
               PROVE  HasDataset(frame.at, FieldPlan[frame.type][j].field)
    BY <1>2 DEF FieldsRead, HasDataset, Linked, At
  <2>1. j \in Nat /\ frame.field \in Nat
    BY <1>1, OptionsAssumption DEF Frames
  <2>2. CASE j < frame.field
    BY <2>2 DEF SafeInv, FieldsRead, AtLeaf
  <2>3. CASE j = frame.field
    BY <2>3
  <2> QED
    BY <2>1, <2>2, <2>3
<1> QED
  BY <1>3, <1>4, <1>5 DEF SafeInv

(* Reading a field keeps the invariant.                                    *)
LEMMA ReadFieldIsSafe ==
  ASSUME SafeInv, UNCHANGED <<file, call>>, ReadField
  PROVE  SafeInv'
<1> USE DEF Errors
<1> DEFINE plan == FieldPlan[frame.type]
           step == plan[frame.field]
           like == DataAt(frame.at, step.like)
           d    == DataAt(frame.at, step.field)
<1>1. /\ TypeOK /\ frame \in Frames /\ frame.at \in Groups
      /\ used \in [Resources -> Usize]
      /\ followed \subseteq Groups \X Names
      /\ "bytes" \in Resources
  BY DEF SafeInv, TypeOK, Frames, Resources
<1>2. /\ AtLeaf
      /\ frame.type \in DOMAIN FieldPlan
      /\ frame.field \in DOMAIN plan
  BY DEF ReadField
<1>3. step \in FieldSteps /\ DefaultsFollow(plan)
  BY <1>2, OptionsAssumption
<1>4. step.field \in Names /\ step.want \in Wants \ {"edges"} /\ step.want \in Wants
  BY <1>3 DEF FieldSteps
<1>5. CASE FieldPresent(frame.at, step.field)
  <2>1. followed' \subseteq Groups \X Names
    BY <1>1, <1>4, <1>5, FollowKeepsType DEF ReadField
  <2>2. CASE ~HasDataset(frame.at, step.field)
    BY <1>5, <2>1, <2>2, FailIsSafe DEF ReadField
  <2>3. CASE HasDataset(frame.at, step.field)
    <3>1. d \in DatasetRecords
      BY <1>1, <1>4, <2>3, ContainerFacts
    <3>2. Verdict(d, step.want) \in Errors
      BY <1>4, <3>1, VerdictIsSafe
    <3>3. CASE Verdict(d, step.want) # "none"
      BY <1>5, <2>1, <2>3, <3>2, <3>3, FailIsSafe DEF ReadField
    <3>4. CASE Verdict(d, step.want) = "none"
      <4>1. /\ NextField
            /\ Charge("bytes", Cost(d, step.want))
            /\ UNCHANGED <<pc, version, callers, visited, tree, error>>
        BY <1>5, <2>3, <3>4 DEF ReadField
      <4>2. used' \in [Resources -> Usize] /\ LimitsRespected'
        BY <1>4, <3>1, <3>4, <4>1, DecodeKeepsLedgers
      <4> QED
        BY <1>2, <2>1, <2>3, <4>1, <4>2, NextFieldIsSafe
    <3> QED
      BY <3>3, <3>4
  <2> QED
    BY <2>2, <2>3
<1>6. CASE ~FieldPresent(frame.at, step.field)
  <2>1. followed' \subseteq Groups \X Names
    BY <1>1, <1>6 DEF ReadField
  <2>2. CASE Fail("MissingField") \/ Fail("ReadLimitExceeded")
    BY <2>1, <2>2, FailIsSafe
  <2>3. CASE /\ step.when = "optional"
             /\ NextField
             /\ UNCHANGED <<pc, version, callers, visited, used, tree, error>>
    <3>1. used' \in [Resources -> Usize] /\ LimitsRespected'
      BY <1>1, <2>3 DEF SafeInv, LimitsRespected
    <3> QED
      BY <1>2, <2>1, <2>3, <3>1, NextFieldIsSafe
  <2>4. CASE /\ step.when = "default"
             /\ Fits(like.bytes)
             /\ NextField
             /\ Charge("bytes", like.bytes)
             /\ UNCHANGED <<pc, version, callers, visited, tree, error>>
    <3>1. PICK j \in DOMAIN plan :
            j < frame.field /\ plan[j].when = "required" /\ plan[j].field = step.like
      BY <1>2, <1>3, <2>4 DEF DefaultsFollow
    <3>2. HasDataset(frame.at, step.like)
      BY <1>2, <3>1 DEF SafeInv, FieldsRead, AtLeaf
    <3>3. step.like \in Names
      BY <1>3 DEF FieldSteps
    <3>4. like \in DatasetRecords
      BY <1>1, <3>2, <3>3, ContainerFacts
    <3>5. like.bytes \in Amounts
      BY <3>4, DatasetFacts DEF Usize, Amounts
    <3>6. used' \in [Resources -> Usize] /\ LimitsRespected'
      BY <1>1, <2>4, <3>5, ChargeKeepsLedgers DEF Fits
    <3> QED
      BY <1>2, <2>1, <2>4, <3>6, NextFieldIsSafe
  <2> QED
    BY <1>6, <2>2, <2>3, <2>4 DEF ReadField
<1> QED
  BY <1>5, <1>6

(* The steps on a leaf node and its metadata keep the invariant.           *)
LEMMA LeafIsSafe ==
  ASSUME SafeInv, UNCHANGED <<file, call>>,
         OpenMetadata \/ ReadEntry \/ UnknownType \/ ReadField \/ FinishLeaf
  PROVE  SafeInv'
<1> USE DEF Steps, Errors
<1>0. /\ TypeOK /\ frame \in Frames /\ frame.at \in Groups
      /\ "metadata" \in Names
      /\ followed \subseteq Groups \X Names
      /\ "metadata" \in Wants \ {"edges"}
  BY ContainerAssumption DEF SafeInv, TypeOK, Frames, Wants
<1>1. CASE OpenMetadata
  <2> DEFINE md == At(frame.at, "metadata")
  <2>1. followed' \subseteq Groups \X Names
    BY <1>0, <1>1, FollowKeepsType DEF OpenMetadata
  <2>2. CASE \E k \in Errors : Fail(k)
    BY <2>1, <2>2, FailIsSafe
  <2>3. CASE ~\E k \in Errors : Fail(k)
    <3>1. PICK K \in SUBSET Names :
            /\ frame' = [frame EXCEPT !.keys = K]
            /\ K # {} => HasGroup(frame.at, "metadata")
      <4>1. CASE ~Linked(frame.at, "metadata")
        BY <1>1, <4>1 DEF OpenMetadata
      <4>2. CASE Linked(frame.at, "metadata")
        <5>1. md \in Groups /\ frame' = [frame EXCEPT !.keys = Members(md)]
          BY <1>1, <2>3, <4>2 DEF OpenMetadata
        <5>2. Members(md) \in SUBSET Names
          BY <1>0, <5>1, ContainerFacts
        <5> QED
          BY <4>2, <5>1, <5>2 DEF HasGroup
      <4> QED
        BY <4>1, <4>2
    <3>2. /\ pc = "metadata" /\ pc' = "entries"
          /\ UNCHANGED <<version, callers, visited, used, tree, error>>
      BY <1>1, <2>3 DEF OpenMetadata
    <3>3. /\ frame' \in Frames /\ frame'.keys = K /\ frame'.at = frame.at
          /\ frame'.name = frame.name /\ frame'.type = frame.type
          /\ frame'.field = frame.field
      BY <1>0, <3>1 DEF Frames
    <3>4. TypeOK' /\ LimitsRespected'
      BY <2>1, <3>2, <3>3 DEF SafeInv, TypeOK, LimitsRespected
    <3>5. FieldsRead'
      BY <3>2, <3>3 DEF SafeInv, FieldsRead, HasDataset, Linked, At
    <3> QED
      BY <3>1, <3>2, <3>3, <3>4, <3>5
         DEF SafeInv, NodeNamed, TopGraphFound, EntriesFound, HasGroup, Linked, At
  <2> QED
    BY <2>2, <2>3
<1>2. CASE ReadEntry
  <2> DEFINE md == At(frame.at, "metadata")
  <2>1. PICK k \in frame.keys :
          /\ Follow(md, k)
          /\ \/ ~HasDataset(md, k) /\ Fail("Io")
             \/ /\ HasDataset(md, k)
                /\ LET d == DataAt(md, k)
                   IN  IF Verdict(d, "metadata") # "none" THEN Fail(Verdict(d, "metadata"))
                       ELSE /\ frame' = [frame EXCEPT !.keys = @ \ {k}]
                            /\ Charge("bytes", Cost(d, "metadata"))
                            /\ UNCHANGED <<pc, version, callers, visited, tree, error>>
    BY <1>2 DEF ReadEntry
  <2> DEFINE d == DataAt(md, k)
  <2>2. pc = "entries" /\ HasGroup(frame.at, "metadata") /\ k \in Names
    BY <1>0, <1>2, <2>1 DEF ReadEntry, SafeInv, EntriesFound, Frames
  <2>3. md \in Groups
    BY <1>0, <2>2, ContainerFacts
  <2>4. followed' \subseteq Groups \X Names
    BY <1>0, <2>1, <2>2, <2>3, FollowKeepsType
  <2>5. CASE ~HasDataset(md, k)
    BY <2>1, <2>4, <2>5, FailIsSafe
  <2>6. CASE HasDataset(md, k)
    <3>1. d \in DatasetRecords
      BY <1>0, <2>2, <2>3, <2>6, ContainerFacts
    <3>2. Verdict(d, "metadata") \in Errors
      BY <1>0, <3>1, VerdictIsSafe
    <3>3. CASE Verdict(d, "metadata") # "none"
      BY <2>1, <2>4, <2>6, <3>2, <3>3, FailIsSafe
    <3>4. CASE Verdict(d, "metadata") = "none"
      <4>1. /\ frame' = [frame EXCEPT !.keys = frame.keys \ {k}]
            /\ Charge("bytes", Cost(d, "metadata"))
            /\ UNCHANGED <<pc, version, callers, visited, tree, error>>
        BY <2>1, <2>6, <3>4
      <4>2. used' \in [Resources -> Usize] /\ LimitsRespected'
        BY <1>0, <3>1, <3>4, <4>1, DecodeKeepsLedgers
      <4>3. /\ frame' \in Frames /\ frame'.at = frame.at
            /\ frame'.name = frame.name /\ frame'.type = frame.type
            /\ frame'.field = frame.field
        BY <1>0, <4>1 DEF Frames
      <4>4. TypeOK'
        BY <2>4, <4>1, <4>2, <4>3 DEF SafeInv, TypeOK
      <4>5. FieldsRead'
        BY <4>1, <4>3 DEF SafeInv, FieldsRead, HasDataset, Linked, At
      <4> QED
        BY <2>2, <4>1, <4>2, <4>3, <4>4, <4>5
           DEF SafeInv, NodeNamed, TopGraphFound, EntriesFound, HasGroup, Linked, At
    <3> QED
      BY <3>3, <3>4
  <2> QED
    BY <2>5, <2>6
<1>3. CASE UnknownType
  BY <1>0, <1>3, FailIsSafe DEF UnknownType
<1>4. CASE ReadField
  BY <1>4, ReadFieldIsSafe
<1>5. CASE FinishLeaf
  <2>1. /\ tree' = tree \cup {Entry(Append(frame.path, frame.name), frame.at, frame.type)}
        /\ frame' = [frame EXCEPT !.todo = frame.todo \ {frame.name}]
        /\ pc' = "members" /\ frame.name # NoName
        /\ UNCHANGED <<version, callers, visited, used, error, followed>>
    BY <1>5 DEF FinishLeaf, AtLeaf, Decoded
  <2>2. frame' \in Frames
    BY <1>0, <2>1 DEF Frames
  <2>3. /\ Append(frame.path, frame.name) \in Seq(Names)
        /\ frame.at \in Groups /\ frame.type \in Values
    BY <1>0, <2>1 DEF Frames
  <2>4. tree' \subseteq Entries
    <3>1. Entry(Append(frame.path, frame.name), frame.at, frame.type) \in Entries
      BY <2>3 DEF Entry, Entries
    <3> QED
      BY <1>0, <2>1, <3>1 DEF TypeOK
  <2>5. TypeOK' /\ LimitsRespected'
    BY <2>1, <2>2, <2>4 DEF SafeInv, TypeOK, LimitsRespected
  <2> QED
    BY <2>1, <2>5 DEF SafeInv, NodeNamed, TopGraphFound, EntriesFound, FieldsRead
<1> QED
  BY <1>1, <1>2, <1>3, <1>4, <1>5

(* The one step that charges two ledgers.                                   *)
LEMMA EdgesKeepLedgers ==
  ASSUME SafeInv, UNCHANGED call, NEW d \in DatasetRecords,
         Verdict(d, "edges") = "none",
         used' = [used EXCEPT
                    !["edges"] = Charged(call.limit["edges"], @, EdgeCount(d)),
                    !["bytes"] = Charged(call.limit["bytes"], @, Cost(d, "edges"))]
  PROVE  /\ used' \in [Resources -> Usize]
         /\ LimitsRespected'
         /\ \A x \in Resources : used'[x] >= used[x]
<1> DEFINE e == Charged(call.limit["edges"], used["edges"], EdgeCount(d))
           b == Charged(call.limit["bytes"], used["bytes"], Cost(d, "edges"))
<1>1. /\ used \in [Resources -> Usize]
      /\ "edges" \in Resources /\ "bytes" \in Resources
      /\ call.limit["edges"] \in Limits /\ call.limit["bytes"] \in Limits
      /\ used["edges"] \in Usize /\ used["bytes"] \in Usize
  BY CallFacts DEF SafeInv, TypeOK, Resources
<1>2. /\ call.limit["edges"] # NoLimit => used["edges"] <= call.limit["edges"]
      /\ call.limit["bytes"] # NoLimit => used["bytes"] <= call.limit["bytes"]
  BY <1>1 DEF SafeInv, LimitsRespected
<1>3. EdgeCount(d) \in Amounts /\ Cost(d, "edges") \in Amounts
  BY CostIsAmount DEF Amounts
<1>4. "edges" \in Wants
  BY DEF Wants
<1>5. /\ Admits(call.limit["edges"], used["edges"], EdgeCount(d))
      /\ Admits(call.limit["bytes"], used["bytes"], Cost(d, "edges"))
  <2>1. CASE d.count # 0
    BY <1>4, <2>1, VerdictIsSafe DEF Fits
  <2>2. CASE d.count = 0
    <3>1. EdgeCount(d) = 0 /\ Cost(d, "edges") = 0
      BY <2>2, OverflowAssumption DEF EdgeCount, Cost, EdgeCost
    <3> QED
      BY <1>1, <1>2, <3>1, OverflowAssumption, UsizeAssumption
         DEF Admits, CheckedAdd, Limits, Usize
  <2> QED
    BY <2>1, <2>2
<1>6. /\ e \in Usize /\ e >= used["edges"]
      /\ call.limit["edges"] # NoLimit => e <= call.limit["edges"]
  BY <1>1, <1>2, <1>3, <1>5, ChargeIsSafe
<1>7. /\ b \in Usize /\ b >= used["bytes"]
      /\ call.limit["bytes"] # NoLimit => b <= call.limit["bytes"]
  BY <1>1, <1>2, <1>3, <1>5, ChargeIsSafe
<1>8. used' = [used EXCEPT !["edges"] = e, !["bytes"] = b]
  OBVIOUS
<1> HIDE DEF e, b
<1>9. \A x \in Resources : used[x] >= used[x]
  BY <1>1 DEF Usize
<1> QED
  BY <1>1, <1>6, <1>7, <1>8, <1>9 DEF SafeInv, LimitsRespected

(* Reading the edges, leaving a graph and an HDF5 fault keep the invariant.*)
LEMMA EndIsSafe ==
  ASSUME SafeInv, UNCHANGED <<file, call>>, ReadEdges \/ LeaveGraph \/ IoFault
  PROVE  SafeInv'
<1> USE DEF Steps, Errors
<1>0. /\ TypeOK /\ frame \in Frames /\ frame.graph \in Groups /\ frame.path \in Seq(Names)
      /\ "edges" \in Names /\ "edges" \in Wants
      /\ followed \subseteq Groups \X Names
  BY ContainerAssumption DEF SafeInv, TypeOK, Frames, Wants
<1>1. CASE ReadEdges
  <2> DEFINE d == DataAt(frame.graph, "edges")
  <2>1. followed' \subseteq Groups \X Names
    BY <1>0, <1>1, FollowKeepsType DEF ReadEdges
  <2>2. CASE ~HasDataset(frame.graph, "edges")
    BY <1>1, <2>1, <2>2, FailIsSafe DEF ReadEdges
  <2>3. CASE HasDataset(frame.graph, "edges")
    <3>1. d \in DatasetRecords
      BY <1>0, <2>3, ContainerFacts
    <3>2. Verdict(d, "edges") \in Errors
      BY <1>0, <3>1, VerdictIsSafe
    <3>3. CASE Verdict(d, "edges") # "none"
      BY <1>1, <2>1, <2>3, <3>2, <3>3, FailIsSafe DEF ReadEdges
    <3>4. CASE Verdict(d, "edges") = "none"
      <4>1. /\ used' = [used EXCEPT
                 !["edges"] = Charged(call.limit["edges"], @, EdgeCount(d)),
                 !["bytes"] = Charged(call.limit["bytes"], @, Cost(d, "edges"))]
            /\ frame' = [frame EXCEPT !.name = NoName, !.at = frame.graph]
            /\ pc' = "metadata"
            /\ UNCHANGED <<version, callers, visited, tree, error>>
        BY <1>1, <2>3, <3>4 DEF ReadEdges
      <4>2. used' \in [Resources -> Usize] /\ LimitsRespected'
        BY <3>1, <3>4, <4>1, EdgesKeepLedgers
      <4>3. frame' \in Frames /\ frame'.name = NoName
        BY <1>0, <4>1 DEF Frames
      <4>4. TypeOK'
        BY <2>1, <4>1, <4>2, <4>3 DEF SafeInv, TypeOK
      <4> QED
        BY <4>1, <4>2, <4>3, <4>4
           DEF SafeInv, NodeNamed, TopGraphFound, EntriesFound, FieldsRead
    <3> QED
      BY <3>3, <3>4
  <2> QED
    BY <2>2, <2>3
<1>2. CASE LeaveGraph
  <2>1. /\ tree' = tree \cup {Entry(frame.path, frame.graph, "NIRGraph")}
        /\ UNCHANGED <<version, visited, used, error, followed>>
    BY <1>2 DEF LeaveGraph
  <2>2. tree' \subseteq Entries
    <3>1. "NIRGraph" \in Values
      BY ContainerAssumption
    <3>2. Entry(frame.path, frame.graph, "NIRGraph") \in Entries
      BY <1>0, <3>1 DEF Entry, Entries
    <3> QED
      BY <1>0, <2>1, <3>2 DEF TypeOK
  <2>3. CASE callers = <<>>
    <3>1. pc' = "done" /\ UNCHANGED <<frame, callers>>
      BY <1>2, <2>3 DEF LeaveGraph
    <3>2. TypeOK' /\ LimitsRespected'
      BY <2>1, <2>2, <3>1 DEF SafeInv, TypeOK, LimitsRespected
    <3> QED
      BY <3>1, <3>2 DEF SafeInv, NodeNamed, TopGraphFound, EntriesFound, FieldsRead
  <2>4. CASE callers # <<>>
    <3> DEFINE f == callers[Len(callers)]
    <3>1. /\ frame' = [f EXCEPT !.todo = f.todo \ {f.name}]
          /\ callers' = SubSeq(callers, 1, Len(callers) - 1)
          /\ pc' = "members"
      BY <1>2, <2>4 DEF LeaveGraph, Decoded
    <3>2. callers \in Seq(Frames) /\ Len(callers) \in 1 .. Len(callers)
      BY <1>0, <2>4 DEF TypeOK
    <3>3. f \in Frames
      BY <3>2
    <3>4. callers' \in Seq(Frames)
      BY <3>1, <3>2
    <3> HIDE DEF f
    <3>5. frame' \in Frames
      BY <3>1, <3>3 DEF Frames
    <3>6. TypeOK' /\ LimitsRespected'
      BY <2>1, <2>2, <3>1, <3>4, <3>5 DEF SafeInv, TypeOK, LimitsRespected
    <3> QED
      BY <3>1, <3>6 DEF SafeInv, NodeNamed, TopGraphFound, EntriesFound, FieldsRead
  <2> QED
    BY <2>3, <2>4
<1>3. CASE IoFault
  BY <1>0, <1>3, FailIsSafe DEF IoFault
<1> QED
  BY <1>1, <1>2, <1>3

(* The invariant holds at the start.                                       *)
LEMMA SafeInit == Init => SafeInv
<1> SUFFICES ASSUME Init PROVE SafeInv
  OBVIOUS
<1>1. frame \in Frames
  BY ContainerAssumption DEF Init, NewFrame, Frames
<1>2. used \in [Resources -> Usize]
  BY UsizeAssumption DEF Init, Usize
<1>3. TypeOK
  <2>1. PICK read \in Reads : file = read[1] /\ call = read[2]
    BY DEF Init
  <2>2. file \in Containers /\ call \in CallRecords
    BY <2>1, OptionsAssumption
  <2> QED
    BY <1>1, <1>2, <2>2 DEF Init, TypeOK, Steps, Errors
<1>4. LimitsRespected
  BY <1>3, CallFacts, NoLimitAssumption DEF Init, LimitsRespected, TypeOK, Limits, Usize
<1> QED
  BY <1>3, <1>4 DEF Init, SafeInv, NodeNamed, TopGraphFound, EntriesFound, FieldsRead

(* The invariant is inductive.                                             *)
LEMMA SafeStep == SafeInv /\ [Next]_vars => SafeInv'
<1> SUFFICES ASSUME SafeInv, [Next]_vars PROVE SafeInv'
  OBVIOUS
<1>1. CASE Next
  BY <1>1, EnvelopeIsSafe, GraphIsSafe, LeafIsSafe, EndIsSafe DEF Next
<1>2. CASE UNCHANGED vars
  BY <1>2 DEF vars, SafeInv, TypeOK, LimitsRespected, NodeNamed, TopGraphFound,
              EntriesFound, FieldsRead, HasGroup, HasDataset, Linked, At
<1> QED
  BY <1>1, <1>2

(* For every container, every set of options and every nesting cap, the     *)
(* reader's state stays well formed: what it charges stays a usize, and it  *)
(* never opens a member of a group that is not there.                       *)
THEOREM TypeCorrect == Spec => []TypeOK
<1>1. SafeInv => TypeOK
  BY DEF SafeInv
<1> QED
  BY <1>1, SafeInit, SafeStep, PTL DEF Spec

(* No ledger of ReadBudget ever passes the limit the caller set.            *)
THEOREM BudgetsHold == Spec => []LimitsRespected
<1>1. SafeInv => LimitsRespected
  BY DEF SafeInv
<1> QED
  BY <1>1, SafeInit, SafeStep, PTL DEF Spec

-----------------------------------------------------------------------------
(***************************************************************************)
(* The safety of the traversal: what it opens, in which order, how deep it *)
(* goes and that no graph is decoded twice.                                *)
(***************************************************************************)
(***************************************************************************)
(* The group a member is opened in has been cleared by                     *)
(* validate_group_links, now or in a step before.                          *)
(***************************************************************************)
Cleared == {g \in Groups : OnlyHardLinks(g)}

FrameCleared(f) == f.graph \in Cleared /\ f.nodes \in Cleared

EntriesCleared ==
  pc = "entries" /\ frame.keys # {} => At(frame.at, "metadata") \in Cleared

ClearInv ==
  /\ OnlyHardLinksFollowed
  /\ pc \in {"version", "policy", "node"} => Root \in Cleared
  /\ pc = "rootType" => TopGraph \in Cleared
  /\ pc = "nodes" => frame.graph \in Cleared
  /\ pc \in {"members", "nodeType", "metadata", "entries"} => FrameCleared(frame)
  /\ pc \in {"nodeType", "metadata", "entries"} => frame.at \in Cleared
  /\ EntriesCleared
  /\ \A i \in DOMAIN callers : FrameCleared(callers[i])

(* In a checked group only hard links can be followed.                     *)
LEMMA FollowIsHard ==
  ASSUME OnlyHardLinksFollowed, UNCHANGED file, NEW g \in Cleared, NEW n \in Names,
         Follow(g, n)
  PROVE  OnlyHardLinksFollowed'
<1>1. \A h, m : Linked(h, m)' = Linked(h, m)
  BY DEF Linked
<1>2. Linked(g, n) => file.link[g][n].kind = "hard"
  BY DEF Cleared, OnlyHardLinks, Members
<1> QED
  BY <1>1, <1>2 DEF OnlyHardLinksFollowed, Follow

(* Whatever a step opens, it opens in a group that has been cleared.        *)
LEMMA OpensInClearedGroups ==
  ASSUME SafeInv, ClearInv, Next
  PROVE  OnlyHardLinksFollowed'
<1>0. /\ OnlyHardLinksFollowed /\ UNCHANGED file
      /\ {"version", "node", "nodes", "edges", "type", "metadata"} \subseteq Names
      /\ frame \in Frames
  BY ContainerAssumption DEF SafeInv, TypeOK, ClearInv, Next
<1>1. CASE UNCHANGED followed
  BY <1>0, <1>1 DEF OnlyHardLinksFollowed, Linked
<1>2. CASE LoadVersion /\ Follow(Root, "version")
  BY <1>0, <1>2, FollowIsHard DEF LoadVersion, ClearInv
<1>3. CASE OpenTopGraph
  BY <1>0, <1>3, FollowIsHard DEF OpenTopGraph, ClearInv
<1>4. CASE ReadRootType
  BY <1>0, <1>4, FollowIsHard DEF ReadRootType, ClearInv
<1>5. CASE OpenNodes
  BY <1>0, <1>5, FollowIsHard DEF OpenNodes, ClearInv
<1>6. CASE OpenMember
  <2>1. PICK n \in frame.todo : Follow(frame.nodes, n)
    BY <1>6 DEF OpenMember
  <2>2. n \in Names /\ frame.nodes \in Cleared
    BY <1>0, <1>6, <2>1 DEF Frames, OpenMember, ClearInv, FrameCleared
  <2> QED
    BY <1>0, <2>1, <2>2, FollowIsHard
<1>7. CASE ReadNodeType
  BY <1>0, <1>7, FollowIsHard DEF ReadNodeType, ClearInv
<1>8. CASE OpenMetadata /\ Follow(frame.at, "metadata")
  BY <1>0, <1>8, FollowIsHard DEF OpenMetadata, ClearInv
<1>9. CASE ReadEntry
  <2>1. PICK k \in frame.keys : Follow(At(frame.at, "metadata"), k)
    BY <1>9 DEF ReadEntry
  <2>2. k \in Names /\ At(frame.at, "metadata") \in Cleared
    BY <1>0, <1>9, <2>1 DEF Frames, ReadEntry, ClearInv, EntriesCleared
  <2> QED
    BY <1>0, <2>1, <2>2, FollowIsHard
<1>10. CASE ReadField /\ ~UNCHANGED followed
  <2> DEFINE step == FieldPlan[frame.type][frame.field]
  <2>1. AtLeaf /\ Follow(frame.at, step.field)
    BY <1>10 DEF ReadField
  <2>2. step \in FieldSteps
    BY <1>10, OptionsAssumption DEF ReadField
  <2>3. step.field \in Names /\ frame.at \in Cleared
    BY <2>1, <2>2 DEF FieldSteps, AtLeaf, ClearInv
  <2> QED
    BY <1>0, <2>1, <2>3, FollowIsHard
<1>11. CASE ReadEdges
  BY <1>0, <1>11, FollowIsHard DEF ReadEdges, ClearInv, FrameCleared
<1>12. \/ UNCHANGED followed
       \/ LoadVersion /\ Follow(Root, "version")
       \/ OpenTopGraph \/ ReadRootType \/ OpenNodes \/ OpenMember \/ ReadNodeType
       \/ OpenMetadata /\ Follow(frame.at, "metadata")
       \/ ReadEntry \/ ReadEdges
       \/ ReadField /\ ~UNCHANGED followed
  BY DEF Next, OpenFile, CheckRootLinks, LoadVersion, EnforceVersionPolicy, EnterGraph,
         CheckGraphLinks, OpenMetadata, UnknownType, FinishLeaf, LeaveGraph, IoFault
<1> QED
  BY <1>1, <1>2, <1>3, <1>4, <1>5, <1>6, <1>7, <1>8, <1>9, <1>10, <1>11, <1>12

(* A group's members are opened only after its links were checked.         *)
LEMMA ClearStep ==
  ASSUME SafeInv, ClearInv, Next
  PROVE  ClearInv'
<1>0. /\ TypeOK /\ frame \in Frames /\ callers \in Seq(Frames)
      /\ {"nodes", "metadata"} \subseteq Names /\ Root \in Groups
      /\ OnlyHardLinksFollowed'
      /\ Cleared' = Cleared /\ TopGraph' = TopGraph
      /\ At(frame.at, "metadata")' = file.link[frame'.at]["metadata"].to
  BY OpensInClearedGroups, ContainerAssumption
     DEF SafeInv, TypeOK, Next, Cleared, OnlyHardLinks, Members, Linked, TopGraph, At
<1>1. CASE \E k : Fail(k)
  BY <1>0, <1>1 DEF ClearInv, EntriesCleared, FrameCleared, Fail
<1>2. CASE ~\E k : Fail(k)
  <2> USE DEF ClearInv, EntriesCleared, Errors
  <2>1. CASE OpenFile
    BY <1>0, <2>1 DEF OpenFile, Goto, FrameCleared
  <2>2. CASE CheckRootLinks
    BY <1>0, <1>2, <2>2 DEF CheckRootLinks, Goto, FrameCleared, Cleared
  <2>3. CASE LoadVersion
    BY <1>0, <1>2, <2>3 DEF LoadVersion, Goto, FrameCleared
  <2>4. CASE EnforceVersionPolicy
    BY <1>0, <1>2, <2>4 DEF EnforceVersionPolicy, Goto, FrameCleared
  <2>5. CASE OpenTopGraph
    BY <1>0, <1>2, <2>5, ContainerFacts, ContainerAssumption
       DEF OpenTopGraph, Goto, FrameCleared, TopGraph, Cleared
  <2>6. CASE ReadRootType
    BY <1>0, <1>2, <2>6 DEF ReadRootType, FrameCleared
  <2>7. CASE EnterGraph
    BY <1>0, <1>2, <2>7 DEF EnterGraph, FrameCleared
  <2>8. CASE CheckGraphLinks
    BY <1>0, <1>2, <2>8 DEF CheckGraphLinks, Goto, FrameCleared, Cleared, Frames
  <2>9. CASE OpenNodes
    <3> DEFINE g == At(frame.graph, "nodes")
    <3>1. /\ HasGroup(frame.graph, "nodes") /\ OnlyHardLinks(g)
          /\ frame' = [frame EXCEPT !.nodes = g, !.todo = Members(g)]
          /\ pc = "nodes" /\ pc' = "members" /\ UNCHANGED callers
      BY <1>2, <2>9 DEF OpenNodes
    <3>2. frame.graph \in Cleared /\ frame.graph \in Groups
      BY <1>0, <3>1 DEF Frames
    <3>3. g \in Cleared
      BY <1>0, <3>1, <3>2, ContainerFacts DEF Cleared
    <3>4. frame'.graph = frame.graph /\ frame'.nodes = g
      BY <1>0, <3>1 DEF Frames
    <3> QED
      BY <1>0, <3>1, <3>2, <3>3, <3>4 DEF FrameCleared
  <2>10. CASE OpenMember
    <3>1. PICK n \in frame.todo :
            LET a == At(frame.nodes, n)
            IN  /\ HasGroup(frame.nodes, n) /\ OnlyHardLinks(a)
                /\ frame' = [frame EXCEPT !.name = n, !.at = a]
                /\ pc = "members" /\ pc' = "nodeType" /\ UNCHANGED callers
      BY <1>2, <2>10 DEF OpenMember
    <3> DEFINE a == At(frame.nodes, n)
    <3>2. n \in Names /\ frame.nodes \in Groups
      BY <1>0 DEF Frames
    <3>3. a \in Cleared
      BY <1>0, <3>1, <3>2, ContainerFacts DEF Cleared
    <3>4. /\ frame'.graph = frame.graph /\ frame'.nodes = frame.nodes /\ frame'.at = a
      BY <1>0, <3>1 DEF Frames
    <3> QED
      BY <1>0, <3>1, <3>3, <3>4 DEF FrameCleared
  <2>11. CASE ReadNodeType
    <3>1. pc = "nodeType" /\ FrameCleared(frame) /\ frame.at \in Cleared
      BY <2>11 DEF ReadNodeType
    <3>2. CASE /\ pc' = "enter" /\ callers' = Append(callers, frame)
      <4>1. \A i \in DOMAIN callers' : FrameCleared(callers'[i])
        BY <1>0, <3>1, <3>2
      <4> QED
        BY <1>0, <3>2, <4>1 DEF FrameCleared
    <3>3. CASE /\ pc' = "metadata" /\ UNCHANGED callers
               /\ frame'.graph = frame.graph /\ frame'.nodes = frame.nodes
               /\ frame'.at = frame.at
      BY <1>0, <3>1, <3>3 DEF FrameCleared
    <3> QED
      BY <1>0, <1>2, <2>11, <3>2, <3>3 DEF ReadNodeType, Frames
  <2>12. CASE OpenMetadata
    <3> DEFINE md == At(frame.at, "metadata")
    <3>1. /\ pc = "metadata" /\ pc' = "entries" /\ UNCHANGED callers
          /\ \/ frame' = [frame EXCEPT !.keys = {}]
             \/ md \in Groups /\ OnlyHardLinks(md) /\ frame' = [frame EXCEPT !.keys = Members(md)]
      BY <1>2, <2>12 DEF OpenMetadata
    <3>2. /\ frame'.graph = frame.graph /\ frame'.nodes = frame.nodes
          /\ frame'.at = frame.at
          /\ frame'.keys # {} => md \in Cleared
      BY <1>0, <3>1 DEF Frames, Cleared
    <3>3. At(frame.at, "metadata")' = md
      BY <1>0, <3>2 DEF At
    <3> QED
      BY <1>0, <3>1, <3>2, <3>3 DEF FrameCleared
  <2>13. CASE ReadEntry \/ ReadField
    <3>1. /\ pc = "entries" /\ UNCHANGED <<pc, callers>>
          /\ \/ \E k \in frame.keys : frame' = [frame EXCEPT !.keys = @ \ {k}]
             \/ frame' = [frame EXCEPT !.field = @ + 1]
      BY <1>2, <2>13 DEF ReadEntry, ReadField, NextField, AtLeaf
    <3>2. /\ frame'.graph = frame.graph /\ frame'.nodes = frame.nodes
          /\ frame'.at = frame.at
          /\ frame'.keys # {} => frame.keys # {}
      BY <1>0, <3>1 DEF Frames
    <3>3. At(frame.at, "metadata")' = At(frame.at, "metadata")
      BY <1>0, <3>2 DEF At
    <3> QED
      BY <1>0, <3>1, <3>2, <3>3 DEF FrameCleared
  <2>14. CASE FinishLeaf
    BY <1>0, <2>14 DEF FinishLeaf, AtLeaf, Decoded, FrameCleared, Frames
  <2>15. CASE ReadEdges
    <3>1. /\ pc = "members" /\ pc' = "metadata" /\ UNCHANGED callers
          /\ frame' = [frame EXCEPT !.name = NoName, !.at = frame.graph]
      BY <1>2, <2>15 DEF ReadEdges
    <3>2. /\ frame'.graph = frame.graph /\ frame'.nodes = frame.nodes
          /\ frame'.at = frame.graph
      BY <1>0, <3>1 DEF Frames
    <3> QED
      BY <1>0, <3>1, <3>2 DEF FrameCleared
  <2>16. CASE LeaveGraph
    <3>1. CASE callers = <<>>
      BY <1>0, <2>16, <3>1 DEF LeaveGraph, FrameCleared
    <3>2. CASE callers # <<>>
      <4> DEFINE f == callers[Len(callers)]
      <4>1. /\ pc' = "members"
            /\ frame' = [f EXCEPT !.todo = @ \ {f.name}]
            /\ callers' = SubSeq(callers, 1, Len(callers) - 1)
        BY <2>16, <3>2 DEF LeaveGraph, Decoded
      <4>2. f \in Frames /\ FrameCleared(f)
        BY <1>0, <3>2
      <4>3. \A i \in DOMAIN callers' : FrameCleared(callers'[i])
        BY <1>0, <4>1
      <4> HIDE DEF f
      <4>4. frame'.graph = f.graph /\ frame'.nodes = f.nodes
        BY <4>1, <4>2 DEF Frames
      <4> QED
        BY <1>0, <4>1, <4>2, <4>3, <4>4 DEF FrameCleared
    <3> QED
      BY <3>1, <3>2
  <2>17. CASE UnknownType \/ IoFault
    BY <1>2, <2>17 DEF UnknownType, IoFault
  <2> QED
    BY <2>1, <2>2, <2>3, <2>4, <2>5, <2>6, <2>7, <2>8, <2>9, <2>10, <2>11, <2>12,
       <2>13, <2>14, <2>15, <2>16, <2>17 DEF Next
<1> QED
  BY <1>1, <1>2

(* At the start no group counts as checked.                                *)
LEMMA ClearInit == Init => ClearInv
  BY DEF Init, ClearInv, EntriesCleared, OnlyHardLinksFollowed

(* A step that changes nothing keeps the checked groups.                   *)
LEMMA ClearStutter ==
  ASSUME ClearInv, UNCHANGED vars
  PROVE  ClearInv'
  BY DEF vars, ClearInv, EntriesCleared, FrameCleared, OnlyHardLinksFollowed, Cleared,
         OnlyHardLinks, Members, Linked, TopGraph, At

(* validate_group_links runs on every group before anything in it is        *)
(* opened: no soft and no external link of any container is ever followed.  *)
THEOREM StaysInsideTheFile == Spec => []OnlyHardLinksFollowed
<1>1. Init => SafeInv /\ ClearInv
  BY SafeInit, ClearInit
<1>2. SafeInv /\ ClearInv /\ [Next]_vars => SafeInv' /\ ClearInv'
  BY SafeStep, ClearStep, ClearStutter
<1>3. ClearInv => OnlyHardLinksFollowed
  BY DEF ClearInv
<1> QED
  BY <1>1, <1>2, <1>3, PTL DEF Spec

-----------------------------------------------------------------------------
(***************************************************************************)
(* The set of visited tokens is what bounds the recursion: a graph that is *)
(* open, or has been decoded, is in it, and no graph is both.              *)
(***************************************************************************)
Inner == {"graphLinks", "nodes", "members", "nodeType", "metadata", "entries"}

Entered  == {visited[i] : i \in DOMAIN visited}
Finished == {x.object : x \in {y \in tree : y.type = "NIRGraph"}}
Open     == Entered \ Finished

DepthInv ==
  /\ Len(callers) <= Len(visited)
  /\ Len(visited) <= MaxGraphs
  /\ pc \in Inner => Len(callers) < Len(visited)

TokenInv ==
  /\ GraphsDecodedOnce
  /\ \A x \in tree : x.type = "NIRGraph" => x.object \in Entered
  /\ \A i \in DOMAIN callers : callers[i].graph \in Open
  /\ \A i, j \in DOMAIN callers : callers[i].graph = callers[j].graph => i = j
  /\ pc \in Inner =>
       /\ frame.graph \in Open
       /\ \A i \in DOMAIN callers : callers[i].graph # frame.graph
  /\ pc \in {"metadata", "entries"} /\ frame.name # NoName => frame.type # "NIRGraph"

(* Returning to the caller takes the last frame off the stack.              *)
LEMMA PopLast ==
  ASSUME NEW S, NEW s \in Seq(S), s # <<>>
  PROVE  /\ Len(s) \in Nat \ {0} /\ s[Len(s)] \in S
         /\ SubSeq(s, 1, Len(s) - 1) \in Seq(S)
         /\ Len(SubSeq(s, 1, Len(s) - 1)) = Len(s) - 1
         /\ \A i \in 1 .. Len(s) - 1 : SubSeq(s, 1, Len(s) - 1)[i] = s[i]
<1>1. Len(s) \in Nat \ {0} /\ Len(s) - 1 \in Int /\ 1 \in Int
  BY EmptySeq
<1>2. \A i \in 1 .. Len(s) : s[i] \in S
  OBVIOUS
<1>3. \A i \in 1 .. Len(s) - 1 : s[i] \in S
  BY <1>1, <1>2
<1> DEFINE n == Len(s) - 1
<1> HIDE DEF n
<1>4. /\ SubSeq(s, 1, n) \in Seq(S)
      /\ Len(SubSeq(s, 1, n)) = IF 1 <= n THEN n - 1 + 1 ELSE 0
      /\ \A i \in 1 .. n - 1 + 1 : SubSeq(s, 1, n)[i] = s[1 + i - 1]
  BY <1>1, <1>3, SubSeqProperties DEF n
<1>5. n \in Nat
  BY <1>1 DEF n
<1>6. Len(SubSeq(s, 1, n)) = n /\ n - 1 + 1 = n /\ \A i \in 1 .. n : 1 + i - 1 = i
  BY <1>4, <1>5
<1> QED
  BY <1>1, <1>2, <1>4, <1>6 DEF n

(* The stack never outgrows the graphs it entered.                         *)
LEMMA DepthStep ==
  ASSUME SafeInv, DepthInv, [Next]_vars
  PROVE  DepthInv'
<1>0. /\ callers \in Seq(Frames) /\ visited \in Seq(Groups) /\ frame \in Frames
      /\ MaxGraphs \in Nat
  BY OptionsAssumption DEF SafeInv, TypeOK
<1>1. CASE UNCHANGED <<callers, visited>> /\ (pc' \in Inner => pc \in Inner)
  BY <1>1 DEF DepthInv
<1>2. CASE EnterGraph
  <2>1. CASE \E k : Fail(k)
    BY <2>1 DEF DepthInv, Fail, Inner
  <2>2. CASE ~\E k : Fail(k)
    <3>1. /\ visited' = Append(visited, frame.graph) /\ Len(visited) < MaxGraphs
          /\ pc = "enter" /\ UNCHANGED callers
      BY <1>0, <1>2, <2>2 DEF EnterGraph
    <3>2. Len(visited') = Len(visited) + 1
      BY <1>0, <3>1
    <3> QED
      BY <1>0, <3>1, <3>2 DEF DepthInv
  <2> QED
    BY <2>1, <2>2
<1>3. CASE ReadNodeType
  <2>1. CASE UNCHANGED <<callers, visited>> /\ pc = "nodeType"
    BY <2>1 DEF DepthInv, Inner
  <2>2. CASE /\ callers' = Append(callers, frame) /\ pc' = "enter" /\ pc = "nodeType"
             /\ UNCHANGED visited
    BY <1>0, <2>2 DEF DepthInv, Inner
  <2> QED
    BY <1>3, <2>1, <2>2 DEF ReadNodeType, Fail
<1>4. CASE LeaveGraph
  <2>1. CASE callers = <<>>
    BY <1>4, <2>1 DEF LeaveGraph, DepthInv, Inner
  <2>2. CASE callers # <<>>
    <3>1. /\ callers' = SubSeq(callers, 1, Len(callers) - 1)
          /\ pc = "entries" /\ UNCHANGED visited
      BY <1>4, <2>2 DEF LeaveGraph
    <3>2. Len(callers) \in Nat /\ Len(callers') = Len(callers) - 1
      BY <1>0, <2>2, <3>1, PopLast
    <3> QED
      BY <1>0, <3>1, <3>2 DEF DepthInv, Inner
  <2> QED
    BY <2>1, <2>2
<1>5. CASE \/ OpenFile \/ CheckRootLinks \/ LoadVersion \/ EnforceVersionPolicy
           \/ OpenTopGraph \/ ReadRootType \/ CheckGraphLinks \/ OpenNodes \/ OpenMember
           \/ OpenMetadata \/ ReadEntry \/ UnknownType \/ ReadField \/ FinishLeaf
           \/ ReadEdges \/ IoFault \/ UNCHANGED vars
  <2>1. UNCHANGED <<callers, visited>> /\ (pc' \in Inner => pc \in Inner)
    BY <1>5 DEF vars, OpenFile, CheckRootLinks, LoadVersion, EnforceVersionPolicy,
         OpenTopGraph, ReadRootType, CheckGraphLinks, OpenNodes, OpenMember,
         OpenMetadata, ReadEntry, UnknownType, ReadField, FinishLeaf,
         ReadEdges, IoFault, Fail, Goto, NextField, AtLeaf, Inner
  <2> QED
    BY <1>1, <2>1
<1> QED
  BY <1>2, <1>3, <1>4, <1>5 DEF Next

(* At the start the stack is empty.                                        *)
LEMMA DepthInit == Init => DepthInv
  BY OptionsAssumption DEF Init, DepthInv, Inner

(* Whatever a container links to, the recursion of read_graph_body is never *)
(* deeper than MAX_NESTED_GRAPHS, nor does it enter more graphs than that.  *)
THEOREM RecursionIsBounded == Spec => []DepthBounded
<1>1. SafeInv /\ DepthInv => DepthBounded
  BY OptionsAssumption DEF SafeInv, TypeOK, DepthInv, DepthBounded
<1> QED
  BY <1>1, SafeInit, SafeStep, DepthInit, DepthStep, PTL DEF Spec

-----------------------------------------------------------------------------
(* A step that touches neither stack nor tokens keeps both in line.        *)
LEMMA TokenQuiet ==
  ASSUME TokenInv, UNCHANGED <<callers, visited, tree>>,
         pc' \in Inner => pc \in Inner /\ frame'.graph = frame.graph,
         pc' \in {"metadata", "entries"} /\ frame'.name # NoName =>
           frame'.type # "NIRGraph"
  PROVE  TokenInv'
  BY DEF TokenInv, GraphsDecodedOnce, Open, Entered, Finished

(* Failing keeps stack and tokens in line.                                 *)
LEMMA TokenFail ==
  ASSUME TokenInv, NEW k, Fail(k)
  PROVE  TokenInv'
  BY DEF Fail, TokenInv, GraphsDecodedOnce, Open, Entered, Finished, Inner

(* Entering a graph: it is new, so nothing decoded or open is it.           *)
LEMMA TokenEnter ==
  ASSUME SafeInv, TokenInv, EnterGraph, ~\E k : Fail(k)
  PROVE  TokenInv'
<1> DEFINE g == frame.graph
<1>1. /\ visited \in Seq(Groups) /\ g \in Groups
  BY DEF SafeInv, TypeOK, Frames
<1>2. /\ pc = "enter" /\ pc' = "graphLinks" /\ g \notin Entered
      /\ visited' = Append(visited, g)
      /\ UNCHANGED <<frame, callers, tree>>
  BY DEF EnterGraph, Entered
<1> HIDE DEF g
<1>3. /\ Len(visited') = Len(visited) + 1
      /\ \A i \in 1 .. Len(visited) : visited'[i] = visited[i]
      /\ visited'[Len(visited) + 1] = g
      /\ DOMAIN visited = 1 .. Len(visited) /\ DOMAIN visited' = 1 .. Len(visited) + 1
      /\ Len(visited) \in Nat
  BY <1>1, <1>2
<1>4. Entered' = Entered \cup {g}
  BY <1>3 DEF Entered
<1>5. Finished' = Finished
  BY <1>2 DEF Finished
<1>6. g \notin Finished
  BY <1>2 DEF TokenInv, Finished
<1>7. \A i, j \in DOMAIN visited' : visited'[i] = visited'[j] => i = j
  BY <1>2, <1>3 DEF TokenInv, GraphsDecodedOnce, Entered
<1>8. \A i \in DOMAIN callers : callers[i].graph # g
  BY <1>2 DEF TokenInv, Open
<1> QED
  BY <1>2, <1>4, <1>5, <1>6, <1>7, <1>8 DEF TokenInv, GraphsDecodedOnce, Open, g

(* A nested graph: the frame joins the open graphs it was distinct from.    *)
LEMMA TokenNest ==
  ASSUME SafeInv, TokenInv, ReadNodeType, ~\E k : Fail(k)
  PROVE  TokenInv'
<1>1. /\ callers \in Seq(Frames) /\ frame \in Frames /\ pc = "nodeType"
      /\ UNCHANGED <<visited, tree>>
  BY DEF SafeInv, TypeOK, ReadNodeType
<1> DEFINE d == DataAt(frame.at, "type")
<1>2. CASE /\ d.value # "NIRGraph"
           /\ frame' = [frame EXCEPT !.type = d.value, !.field = 1]
           /\ pc' = "metadata" /\ UNCHANGED callers
  <2>1. frame'.graph = frame.graph /\ frame'.type = d.value
    BY <1>1, <1>2 DEF Frames
  <2> QED
    BY <1>1, <1>2, <2>1, TokenQuiet DEF Inner
<1>3. CASE callers' = Append(callers, frame) /\ pc' = "enter"
  <2>1. /\ frame.graph \in Open
        /\ \A i \in DOMAIN callers : callers[i].graph # frame.graph
    BY <1>1 DEF TokenInv, Inner
  <2>2. /\ \A i \in 1 .. Len(callers) : callers'[i] = callers[i]
        /\ callers'[Len(callers) + 1] = frame
        /\ DOMAIN callers = 1 .. Len(callers) /\ DOMAIN callers' = 1 .. Len(callers) + 1
        /\ Len(callers) \in Nat
    BY <1>1, <1>3
  <2>3. Open' = Open
    BY <1>1 DEF Open, Entered, Finished
  <2>4. \A i \in DOMAIN callers' : callers'[i].graph \in Open'
    BY <2>1, <2>2, <2>3 DEF TokenInv
  <2>5. \A i, j \in DOMAIN callers' : callers'[i].graph = callers'[j].graph => i = j
    BY <2>1, <2>2 DEF TokenInv
  <2>6. \A x \in tree' : x.type = "NIRGraph" => x.object \in Entered'
    BY <1>1 DEF TokenInv, Entered
  <2>7. GraphsDecodedOnce'
    BY <1>1 DEF TokenInv, GraphsDecodedOnce
  <2> QED
    BY <1>3, <2>4, <2>5, <2>6, <2>7 DEF TokenInv, Inner
<1> QED
  BY <1>2, <1>3 DEF ReadNodeType

(* A decoded leaf is an entry that is not a graph.                          *)
LEMMA TokenLeaf ==
  ASSUME SafeInv, TokenInv, FinishLeaf
  PROVE  TokenInv'
<1> DEFINE e == Entry(Append(frame.path, frame.name), frame.at, frame.type)
<1>1. /\ pc = "entries" /\ pc' = "members" /\ frame.name # NoName
      /\ tree' = tree \cup {e} /\ frame' = [frame EXCEPT !.todo = @ \ {frame.name}]
      /\ UNCHANGED <<callers, visited>>
  BY DEF FinishLeaf, AtLeaf, Decoded
<1>2. frame'.graph = frame.graph
  BY <1>1 DEF SafeInv, TypeOK, Frames
<1>3. e.type # "NIRGraph"
  BY <1>1 DEF TokenInv, Entry
<1> HIDE DEF e
<1>4. Finished' = Finished
  BY <1>1, <1>3 DEF Finished
<1>5. Entered' = Entered
  BY <1>1 DEF Entered
<1>6. GraphsDecodedOnce'
  BY <1>1, <1>3 DEF TokenInv, GraphsDecodedOnce
<1>7. \A x \in tree' : x.type = "NIRGraph" => x.object \in Entered'
  BY <1>1, <1>3, <1>5 DEF TokenInv
<1> QED
  BY <1>1, <1>2, <1>4, <1>5, <1>6, <1>7 DEF TokenInv, Open, Inner

(* A decoded graph was open, so it was not decoded before, and it leaves    *)
(* the open graphs as it joins the decoded ones.                            *)
LEMMA TokenLeave ==
  ASSUME SafeInv, TokenInv, LeaveGraph
  PROVE  TokenInv'
<1> DEFINE e == Entry(frame.path, frame.graph, "NIRGraph")
<1>1. /\ callers \in Seq(Frames) /\ pc = "entries"
      /\ tree' = tree \cup {e} /\ UNCHANGED visited
  BY DEF SafeInv, TypeOK, LeaveGraph
<1>2. /\ frame.graph \in Open
      /\ \A i \in DOMAIN callers : callers[i].graph # frame.graph
  BY <1>1 DEF TokenInv, Inner
<1>3. e.type = "NIRGraph" /\ e.object = frame.graph
  BY DEF Entry
<1> HIDE DEF e
<1>4. Finished' = Finished \cup {frame.graph}
  BY <1>1, <1>3 DEF Finished
<1>5. Entered' = Entered
  BY <1>1 DEF Entered
<1>6. GraphsDecodedOnce'
  <2>1. \A x \in tree : x.type = "NIRGraph" => x.object # e.object
    BY <1>2, <1>3 DEF Open, Finished
  <2> QED
    BY <1>1, <2>1 DEF TokenInv, GraphsDecodedOnce
<1>7. \A x \in tree' : x.type = "NIRGraph" => x.object \in Entered'
  BY <1>1, <1>2, <1>3, <1>5 DEF TokenInv, Open
<1>8. \A i \in DOMAIN callers : callers[i].graph \in Open'
  BY <1>2, <1>4, <1>5 DEF TokenInv, Open
<1>9. CASE callers = <<>>
  <2>1. pc' = "done" /\ UNCHANGED <<frame, callers>>
    BY <1>9 DEF LeaveGraph
  <2> QED
    BY <1>6, <1>7, <1>9, <2>1 DEF TokenInv, Inner
<1>10. CASE callers # <<>>
  <2> DEFINE f == callers[Len(callers)]
  <2>1. /\ frame' = [f EXCEPT !.todo = @ \ {f.name}]
        /\ callers' = SubSeq(callers, 1, Len(callers) - 1)
        /\ pc' = "members"
    BY <1>10 DEF LeaveGraph, Decoded
  <2>2. /\ Len(callers) \in Nat \ {0} /\ f \in Frames
        /\ callers' \in Seq(Frames) /\ Len(callers') = Len(callers) - 1
        /\ \A i \in 1 .. Len(callers) - 1 : callers'[i] = callers[i]
    BY <1>1, <1>10, <2>1, PopLast
  <2>3. DOMAIN callers' = 1 .. Len(callers) - 1 /\ DOMAIN callers = 1 .. Len(callers)
    BY <1>1, <2>2
  <2>4. frame'.graph = f.graph
    BY <2>1, <2>2 DEF Frames
  <2>5. frame'.graph \in Open'
    BY <1>8, <2>2, <2>3, <2>4
  <2>6. \A i \in DOMAIN callers' :
          /\ i \in DOMAIN callers /\ callers'[i] = callers[i] /\ i # Len(callers)
    BY <2>2, <2>3
  <2>7. \A i \in DOMAIN callers' : callers'[i].graph # frame'.graph
    BY <2>2, <2>3, <2>4, <2>6 DEF TokenInv
  <2>8. /\ \A i \in DOMAIN callers' : callers'[i].graph \in Open'
        /\ \A i, j \in DOMAIN callers' : callers'[i].graph = callers'[j].graph => i = j
    BY <1>8, <2>6 DEF TokenInv
  <2> QED
    BY <1>6, <1>7, <2>1, <2>5, <2>7, <2>8 DEF TokenInv
<1> QED
  BY <1>9, <1>10

(* Every graph decoded or open carries exactly one token.                  *)
LEMMA TokenStep ==
  ASSUME SafeInv, TokenInv, [Next]_vars
  PROVE  TokenInv'
<1>1. frame \in Frames
  BY DEF SafeInv, TypeOK
<1>2. CASE \E k : Fail(k)
  BY <1>2, TokenFail
<1>3. CASE ~\E k : Fail(k)
  <2>1. CASE EnterGraph
    BY <1>3, <2>1, TokenEnter
  <2>2. CASE ReadNodeType
    BY <1>3, <2>2, TokenNest
  <2>3. CASE FinishLeaf
    BY <2>3, TokenLeaf
  <2>4. CASE LeaveGraph
    BY <2>4, TokenLeave
  <2>5. CASE OpenFile \/ CheckRootLinks \/ LoadVersion \/ EnforceVersionPolicy
             \/ OpenTopGraph \/ ReadRootType
    <3>1. UNCHANGED <<callers, visited, tree>> /\ pc' \notin Inner
      BY <1>3, <2>5 DEF OpenFile, CheckRootLinks, LoadVersion, EnforceVersionPolicy,
                        OpenTopGraph, ReadRootType, Goto, Inner
    <3> QED
      BY <3>1, TokenQuiet DEF Inner
  <2>6. CASE CheckGraphLinks \/ OpenNodes \/ OpenMember \/ ReadEdges
    <3>1. /\ UNCHANGED <<callers, visited, tree>> /\ pc \in Inner
          /\ pc' \in {"nodes", "members", "nodeType", "metadata"}
      BY <1>3, <2>6 DEF CheckGraphLinks, OpenNodes, OpenMember, ReadEdges, Goto, Inner
    <3>2. frame'.graph = frame.graph /\ (pc' = "metadata" => frame'.name = NoName)
      BY <1>1, <1>3, <2>6 DEF CheckGraphLinks, OpenNodes, OpenMember, ReadEdges, Goto, Frames
    <3> QED
      BY <3>1, <3>2, TokenQuiet
  <2>7. CASE OpenMetadata \/ ReadEntry \/ ReadField
    <3>1. /\ UNCHANGED <<callers, visited, tree>>
          /\ pc \in {"metadata", "entries"} /\ pc' = "entries"
      BY <1>3, <2>7 DEF OpenMetadata, ReadEntry, ReadField, NextField, AtLeaf
    <3>2. /\ frame'.graph = frame.graph /\ frame'.name = frame.name
          /\ frame'.type = frame.type
      BY <1>1, <1>3, <2>7 DEF OpenMetadata, ReadEntry, ReadField, NextField, AtLeaf, Frames
    <3> QED
      BY <3>1, <3>2, TokenQuiet DEF TokenInv, Inner
  <2>8. CASE UnknownType \/ IoFault
    BY <1>3, <2>8 DEF UnknownType, IoFault
  <2>9. CASE UNCHANGED vars
    BY <2>9, TokenQuiet DEF vars, TokenInv
  <2> QED
    BY <2>1, <2>2, <2>3, <2>4, <2>5, <2>6, <2>7, <2>8, <2>9 DEF Next
<1> QED
  BY <1>2, <1>3

(* At the start no graph carries a token.                                  *)
LEMMA TokenInit == Init => TokenInv
  BY DEF Init, TokenInv, GraphsDecodedOnce, Inner

(* A container may link a graph from many places, even from inside itself:  *)
(* no NIRGraph group is entered twice, and none is returned as two nodes.   *)
THEOREM NoGraphTwice == Spec => []GraphsDecodedOnce
<1>1. TokenInv => GraphsDecodedOnce
  BY DEF TokenInv
<1> QED
  BY <1>1, SafeInit, SafeStep, TokenInit, TokenStep, PTL DEF Spec

-----------------------------------------------------------------------------
(***************************************************************************)
(* The envelope first: /node is out of reach until the policy accepts.     *)
(***************************************************************************)
Envelope == {"open", "rootLinks", "version", "policy"}
Halted   == {"done", "failed"}

VersionInv ==
  /\ VersionFirst
  /\ pc \in Envelope => <<Root, "node">> \notin followed
  /\ pc \notin Envelope \cup Halted => PolicyAccepts /\ call.entry = "read"

(* Nothing of a graph is opened before the version was accepted.           *)
LEMMA VersionStep ==
  ASSUME SafeInv, VersionInv, [Next]_vars
  PROVE  VersionInv'
<1>1. CASE pc \in Envelope /\ Next
  <2>0. UNCHANGED call
    BY <1>1 DEF Next
  <2>1. \/ OpenFile \/ CheckRootLinks \/ LoadVersion \/ EnforceVersionPolicy \/ IoFault
    BY <1>1 DEF Next, Envelope, OpenTopGraph, ReadRootType, EnterGraph, CheckGraphLinks,
           OpenNodes, OpenMember, ReadNodeType, OpenMetadata, ReadEntry, UnknownType,
           ReadField, FinishLeaf, ReadEdges, LeaveGraph, AtLeaf
  <2>2. followed' \subseteq followed \cup {<<Root, "version">>}
    BY <2>1 DEF OpenFile, CheckRootLinks, LoadVersion, EnforceVersionPolicy, IoFault, Follow
  <2>3. <<Root, "node">> \notin followed'
    BY <1>1, <2>2 DEF VersionInv
  <2>4. CASE EnforceVersionPolicy
    <3>1. CASE pc' \in Halted
      BY <2>3, <3>1 DEF VersionInv, VersionFirst, Halted, Envelope
    <3>2. CASE pc' \notin Halted
      <4>1. PolicyAccepts /\ call.entry = "read" /\ UNCHANGED version
        BY <2>4, <3>2 DEF EnforceVersionPolicy, Fail, Goto, Halted
      <4>2. PolicyAccepts'
        BY <2>0, <4>1 DEF PolicyAccepts
      <4> QED
        BY <2>0, <2>3, <4>1, <4>2 DEF VersionInv, VersionFirst
    <3> QED
      BY <3>1, <3>2
  <2>5. CASE OpenFile \/ CheckRootLinks \/ LoadVersion \/ IoFault
    <3>1. pc' \in Envelope \cup Halted
      BY <2>5 DEF OpenFile, CheckRootLinks, LoadVersion, IoFault, Goto, Fail, Envelope, Halted
    <3> QED
      BY <2>3, <3>1 DEF VersionInv, VersionFirst
  <2> QED
    BY <2>1, <2>4, <2>5
<1>2. CASE pc \notin Envelope /\ Next
  <2>1. UNCHANGED <<call, version>> /\ pc' \notin Envelope /\ pc \notin Halted
    BY <1>2 DEF Next, Envelope, Halted, OpenFile, CheckRootLinks, LoadVersion,
           EnforceVersionPolicy, OpenTopGraph, ReadRootType, EnterGraph, CheckGraphLinks,
           OpenNodes, OpenMember, ReadNodeType, OpenMetadata, ReadEntry, UnknownType,
           ReadField, FinishLeaf, ReadEdges, LeaveGraph, IoFault, AtLeaf, Fail, Goto,
           NextField
  <2>2. PolicyAccepts /\ call.entry = "read"
    BY <1>2, <2>1 DEF VersionInv
  <2>3. PolicyAccepts'
    BY <2>1, <2>2 DEF PolicyAccepts
  <2> QED
    BY <2>1, <2>2, <2>3 DEF VersionInv, VersionFirst
<1>3. CASE UNCHANGED vars
  BY <1>3 DEF vars, VersionInv, VersionFirst, PolicyAccepts
<1> QED
  BY <1>1, <1>2, <1>3

(* At the start nothing has been opened.                                   *)
LEMMA VersionInit == Init => VersionInv
  BY DEF Init, VersionInv, VersionFirst, Envelope

(* An incompatible or missing /version costs nothing beyond itself: until   *)
(* enforce_version_policy has accepted the file, /node is not opened, and   *)
(* read_version never opens it.                                             *)
THEOREM EnvelopeFirst == Spec => []VersionFirst
<1>1. VersionInv => VersionFirst
  BY DEF VersionInv
<1> QED
  BY <1>1, SafeInit, SafeStep, VersionInit, VersionStep, PTL DEF Spec

-----------------------------------------------------------------------------
(***************************************************************************)
(* What a step may never do: release a charge, forget a token, or drop a   *)
(* decoded node of a call that goes on.                                    *)
(***************************************************************************)
LEMMA LedgersGrow ==
  ASSUME SafeInv, Next
  PROVE  \A r \in Resources : used'[r] >= used[r]
<1>0. /\ TypeOK /\ UNCHANGED <<file, call>> /\ frame \in Frames
      /\ frame.at \in Groups /\ frame.graph \in Groups /\ Root \in Groups
      /\ used \in [Resources -> Usize]
      /\ {"bytes", "nodes", "graphs"} \subseteq Resources
      /\ {"version", "node", "nodes", "edges", "type", "metadata"} \subseteq Names
      /\ {"text", "metadata"} \subseteq Wants \ {"edges"}
  BY ContainerAssumption DEF SafeInv, TypeOK, Next, Frames, Resources, Wants
<1>1. CASE UNCHANGED used
  BY <1>0, <1>1 DEF Usize
<1>2. CASE \E g \in Groups, n \in Names, want \in Wants \ {"edges"} :
             /\ HasDataset(g, n)
             /\ Verdict(DataAt(g, n), want) = "none"
             /\ Charge("bytes", Cost(DataAt(g, n), want))
  BY <1>0, <1>2, ContainerFacts, DecodeKeepsLedgers
<1>3. CASE LoadVersion /\ ~UNCHANGED used
  BY <1>0, <1>2, <1>3 DEF LoadVersion, Goto, Fail
<1>4. CASE ReadRootType /\ ~UNCHANGED used
  <2>1. TopGraph \in Groups
    BY <1>0, <1>4, ContainerFacts DEF ReadRootType, SafeInv, TopGraphFound, TopGraph
  <2> QED
    BY <1>0, <1>2, <1>4, <2>1 DEF ReadRootType, Fail
<1>5. CASE ReadNodeType /\ ~UNCHANGED used
  BY <1>0, <1>2, <1>5 DEF ReadNodeType, Fail
<1>6. CASE ReadEntry /\ ~UNCHANGED used
  <2>1. PICK k \in frame.keys :
          LET md == At(frame.at, "metadata")
          IN  /\ HasDataset(md, k)
              /\ Verdict(DataAt(md, k), "metadata") = "none"
              /\ Charge("bytes", Cost(DataAt(md, k), "metadata"))
    BY <1>6 DEF ReadEntry, Fail
  <2>2. k \in Names /\ At(frame.at, "metadata") \in Groups
    BY <1>0, <1>6, <2>1, ContainerFacts DEF ReadEntry, SafeInv, EntriesFound, Frames
  <2> QED
    BY <1>0, <1>2, <2>1, <2>2
<1>7. CASE ReadField /\ ~UNCHANGED used
  <2> DEFINE plan == FieldPlan[frame.type]
             step == plan[frame.field]
             like == DataAt(frame.at, step.like)
             d    == DataAt(frame.at, step.field)
  <2>1. /\ AtLeaf /\ frame.type \in DOMAIN FieldPlan /\ frame.field \in DOMAIN plan
        /\ \/ /\ HasDataset(frame.at, step.field)
              /\ Verdict(d, step.want) = "none"
              /\ Charge("bytes", Cost(d, step.want))
           \/ /\ step.when = "default"
              /\ Fits(like.bytes)
              /\ Charge("bytes", like.bytes)
    BY <1>7 DEF ReadField, Fail
  <2>2. step \in FieldSteps /\ DefaultsFollow(plan)
    BY <2>1, OptionsAssumption
  <2>3. step.field \in Names /\ step.like \in Names /\ step.want \in Wants \ {"edges"}
    BY <2>2 DEF FieldSteps
  <2>4. CASE /\ HasDataset(frame.at, step.field)
             /\ Verdict(d, step.want) = "none"
             /\ Charge("bytes", Cost(d, step.want))
    BY <1>0, <1>2, <2>3, <2>4
  <2>5. CASE step.when = "default" /\ Fits(like.bytes) /\ Charge("bytes", like.bytes)
    <3>1. PICK j \in DOMAIN plan :
            j < frame.field /\ plan[j].when = "required" /\ plan[j].field = step.like
      BY <2>1, <2>2, <2>5 DEF DefaultsFollow
    <3>2. HasDataset(frame.at, step.like)
      BY <2>1, <3>1 DEF SafeInv, FieldsRead, AtLeaf
    <3>3. like.bytes \in Amounts
      BY <1>0, <2>3, <3>2, ContainerFacts, DatasetFacts DEF Usize, Amounts
    <3> QED
      BY <1>0, <2>5, <3>3, ChargeKeepsLedgers DEF Fits
  <2> QED
    BY <2>1, <2>4, <2>5
<1>8. CASE EnterGraph /\ ~UNCHANGED used
  BY <1>0, <1>8, ChargeKeepsLedgers DEF EnterGraph, Fail, Amounts
<1>9. CASE OpenNodes /\ ~UNCHANGED used
  <2> DEFINE n == Cardinality(Members(At(frame.graph, "nodes")))
  <2>1. Admits(call.limit["nodes"], used["nodes"], n) /\ Charge("nodes", n)
    BY <1>9 DEF OpenNodes, Fail
  <2>2. n \in Amounts
    BY <1>0, MemberCount DEF Amounts
  <2> QED
    BY <1>0, <2>1, <2>2, ChargeKeepsLedgers
<1>10. CASE ReadEdges /\ ~UNCHANGED used
  <2> DEFINE d == DataAt(frame.graph, "edges")
  <2>1. /\ HasDataset(frame.graph, "edges") /\ Verdict(d, "edges") = "none"
        /\ used' = [used EXCEPT
             !["edges"] = Charged(call.limit["edges"], @, EdgeCount(d)),
             !["bytes"] = Charged(call.limit["bytes"], @, Cost(d, "edges"))]
    BY <1>10 DEF ReadEdges, Fail
  <2>2. d \in DatasetRecords
    BY <1>0, <2>1, ContainerFacts
  <2> QED
    BY <1>0, <2>1, <2>2, EdgesKeepLedgers
<1> QED
  BY <1>1, <1>3, <1>4, <1>5, <1>6, <1>7, <1>8, <1>9, <1>10
     DEF Next, OpenFile, CheckRootLinks, EnforceVersionPolicy, OpenTopGraph,
         CheckGraphLinks, OpenMember, OpenMetadata, UnknownType, FinishLeaf, LeaveGraph,
         IoFault, Goto, Fail

(* Tokens are never taken back, and the tree is only dropped by failing.   *)
LEMMA TreeAndTokensGrow ==
  ASSUME SafeInv, Next
  PROVE  /\ Len(visited') >= Len(visited)
         /\ pc' # "failed" => tree \subseteq tree'
<1>1. visited \in Seq(Groups) /\ frame.graph \in Groups
  BY DEF SafeInv, TypeOK, Frames
<1>2. /\ UNCHANGED visited \/ visited' = Append(visited, frame.graph)
      /\ pc' = "failed" \/ tree \subseteq tree'
  BY DEF Next, OpenFile, CheckRootLinks, LoadVersion, EnforceVersionPolicy, OpenTopGraph,
         ReadRootType, EnterGraph, CheckGraphLinks, OpenNodes, OpenMember, ReadNodeType,
         OpenMetadata, ReadEntry, UnknownType, ReadField, FinishLeaf, ReadEdges,
         LeaveGraph, IoFault, Fail, Goto, NextField
<1>3. Len(visited) \in Nat /\ Len(Append(visited, frame.graph)) = Len(visited) + 1
  BY <1>1
<1> QED
  BY <1>2, <1>3

(* The ledger of ReadBudget is monotonic and visited is never popped.       *)
THEOREM NothingReleased == Spec => OnlyGrows
<1> DEFINE grows == /\ \A r \in Resources : used'[r] >= used[r]
                    /\ Len(visited') >= Len(visited)
                    /\ pc' # "failed" => tree \subseteq tree'
<1>1. SafeInv /\ [Next]_vars => [grows]_vars
  BY LedgersGrow, TreeAndTokensGrow
<1> QED
  BY <1>1, SafeInit, SafeStep, PTL DEF Spec, OnlyGrows

-----------------------------------------------------------------------------
(***************************************************************************)
(* The node ledger.  A decoded node is a path no open graph still waits    *)
(* for, the names on the stack spell the path of the innermost graph, and  *)
(* so every node is taken from a waiting list once, when it joins the tree.*)
(***************************************************************************)
Outside == {"open", "rootLinks", "version", "policy", "node", "rootType"}

(* A list of names is counted after they were charged.                     *)
Unlisted == Outside \cup {"enter", "graphLinks", "nodes"}

Decoding == pc = "nodeType" \/ (pc \in {"metadata", "entries"} /\ frame.name # NoName)

Paths == {x.path : x \in tree}

OpenPaths == {frame.path} \cup {callers[i].path : i \in DOMAIN callers}

(* The frames of the stack are nested one in the other.                    *)
Nested ==
  /\ \A i \in DOMAIN callers :
       /\ callers[i].name \in callers[i].todo
       /\ Len(callers[i].path) = i - 1
       /\ i < Len(callers) =>
            callers[i + 1].path = Append(callers[i].path, callers[i].name)
  /\ Len(frame.path) = Len(callers)
  /\ callers # <<>> =>
       frame.path = Append(callers[Len(callers)].path, callers[Len(callers)].name)

(* No node is decoded before its name has left the list it waits in, and a *)
(* decoded node lies in an open or in a decoded graph.                     *)
Apart ==
  /\ \A n \in frame.todo : Append(frame.path, n) \notin Paths
  /\ \A i \in DOMAIN callers :
       \A n \in callers[i].todo : Append(callers[i].path, n) \notin Paths
  /\ \A p \in Seq(Names), n \in Names :
       Append(p, n) \in Paths => p \in OpenPaths \cup Paths
  /\ pc \in Unlisted => \A n \in Names : Append(frame.path, n) \notin Paths

Inserted == {x \in tree : x.path # <<>>}

LedgerInv ==
  pc # "failed" =>
    /\ Nested
    /\ Apart
    /\ IsFiniteSet(tree)
    /\ Decoding => frame.name \in frame.todo
    /\ pc \in Unlisted \cup {"done"} => frame.todo = {}
    /\ pc \in {"metadata", "entries"} /\ frame.name = NoName => frame.todo = {}
    /\ pc \in Outside => tree = {} /\ callers = <<>>
    /\ NodeLedgerExact

(* The names held by the first n frames of a stack, one frame at a time.   *)
LEMMA WaitingsUnfold ==
  ASSUME NEW s \in Seq(Frames)
  PROVE  /\ Waitings(s)[0] = 0
         /\ \A n \in 0 .. Len(s) : Waitings(s)[n] \in Nat
         /\ \A n \in 1 .. Len(s) :
              Waitings(s)[n] = Waitings(s)[n - 1] + Cardinality(s[n].todo)
<1> DEFINE size(n) == Cardinality(s[n].todo)
           step == [x \in Nat \X (1 .. Len(s)) |-> x[1] + size(x[2])]
           Rec(w) == [n \in 0 .. Len(s) |-> IF n = 0 THEN 0 ELSE w[n - 1] + size(n)]
           W == Waitings(s)
           S == {n \in Nat : n <= Len(s) => W[n] \in Nat}
<1>1. \A n \in 1 .. Len(s) : size(n) \in Nat
  <2>1. TAKE n \in 1 .. Len(s)
  <2>2. s[n] \in Frames /\ s[n].todo \in SUBSET Names
    <3>1. s[n] \in Frames
      OBVIOUS
    <3>2. QED
      BY <3>1 DEF Frames
  <2>3. QED
    BY <2>2, ContainerAssumption, FS_Subset, FS_CardinalityType
<1> HIDE DEF size
<1>2. step \in [Nat \X (1 .. Len(s)) -> Nat] /\ Len(s) \in Nat /\ 0 \in Nat
  BY <1>1
<1>3. PICK f \in [0 .. Len(s) -> Nat] : Follows(f, 0, step, Len(s))
  <2> HIDE DEF step
  <2>1. QED
    BY <1>2, RecursionExists
<1>4. f = Rec(f)
  <2>1. SUFFICES ASSUME NEW n \in 1 .. Len(s) PROVE f[n] = f[n - 1] + size(n)
    BY <1>3 DEF Follows
  <2>2. n - 1 \in 0 .. Len(s) /\ f[n - 1] \in Nat
    BY <1>2
  <2>3. <<f[n - 1], n>> \in Nat \X (1 .. Len(s))
    BY <2>2
  <2>4. f[n] = step[<<f[n - 1], n>>]
    <3> HIDE DEF step
    <3>1. QED
      BY <1>3 DEF Follows
  <2>5. QED
    BY <2>3, <2>4
<1>5. W = Rec(W)
  BY <1>4 DEF Waitings, size
<1>6. W[0] = 0 /\ \A n \in 1 .. Len(s) : W[n] = W[n - 1] + size(n)
  <2>1. \A n \in 0 .. Len(s) : W[n] = IF n = 0 THEN 0 ELSE W[n - 1] + size(n)
    BY <1>5
  <2> HIDE DEF W
  <2>2. QED
    BY <1>2, <2>1
<1>7. Nat \subseteq S
  <2> HIDE DEF W
  <2>1. 0 \in S
    BY <1>6
  <2>2. ASSUME NEW n \in Nat, n \in S PROVE n + 1 \in S
    <3>1. SUFFICES ASSUME n + 1 <= Len(s) PROVE W[n + 1] \in Nat
      OBVIOUS
    <3>2. n + 1 \in 1 .. Len(s) /\ n + 1 - 1 = n /\ W[n] \in Nat
      BY <1>2, <2>2, <3>1
    <3>3. W[n + 1] = W[n] + size(n + 1) /\ size(n + 1) \in Nat
      BY <1>1, <1>6, <3>2
    <3>4. QED
      BY <3>2, <3>3
  <2> HIDE DEF S
  <2>3. QED
    BY <2>1, <2>2, SetInduction
<1>8. QED
  <2>1. \A n \in 0 .. Len(s) : W[n] \in Nat
    BY <1>2, <1>7
  <2> HIDE DEF W
  <2>2. QED
    BY <1>6, <2>1 DEF W, size

(* A frame on top of the stack adds the names it holds.                    *)
LEMMA WaitingsOnTop ==
  ASSUME NEW s \in Seq(Frames), NEW t \in Seq(Frames), Len(t) = Len(s) + 1,
         \A i \in 1 .. Len(s) : t[i] = s[i]
  PROVE  Waitings(t)[Len(t)] = Waitings(s)[Len(s)] + Cardinality(t[Len(t)].todo)
<1> DEFINE W == Waitings(s)
           X == Waitings(t)
           S == {n \in Nat : n <= Len(s) => X[n] = W[n]}
<1>1. /\ Len(s) \in Nat
      /\ W[0] = 0 /\ X[0] = 0
      /\ \A n \in 1 .. Len(s) : W[n] = W[n - 1] + Cardinality(s[n].todo)
      /\ \A n \in 1 .. Len(s) + 1 : X[n] = X[n - 1] + Cardinality(t[n].todo)
  <2>1. Len(s) \in Nat
    OBVIOUS
  <2>2. W[0] = 0 /\ \A n \in 1 .. Len(s) : W[n] = W[n - 1] + Cardinality(s[n].todo)
    <3> HIDE DEF X
    <3>1. QED
      BY WaitingsUnfold
  <2>3. X[0] = 0 /\ \A n \in 1 .. Len(t) : X[n] = X[n - 1] + Cardinality(t[n].todo)
    <3> HIDE DEF W
    <3>1. QED
      BY WaitingsUnfold
  <2>4. QED
    BY <2>1, <2>2, <2>3
<1> HIDE DEF W, X
<1>2. 0 \in S
  BY <1>1
<1>3. ASSUME NEW n \in Nat, n \in S PROVE n + 1 \in S
  <2>1. SUFFICES ASSUME n + 1 <= Len(s) PROVE X[n + 1] = W[n + 1]
    OBVIOUS
  <2>2. /\ n + 1 \in 1 .. Len(s) /\ n + 1 \in 1 .. Len(s) + 1
        /\ n + 1 - 1 = n /\ X[n] = W[n]
    BY <1>1, <1>3, <2>1
  <2>3. t[n + 1] = s[n + 1]
    BY <2>2
  <2>4. QED
    BY <1>1, <2>2, <2>3
<1>4. Nat \subseteq S
  <2> HIDE DEF S
  <2>1. QED
    BY <1>2, <1>3, SetInduction
<1>5. X[Len(s)] = W[Len(s)]
  BY <1>1, <1>4
<1>6. Len(t) \in 1 .. Len(s) + 1 /\ Len(t) - 1 = Len(s)
  BY <1>1
<1>7. QED
  BY <1>1, <1>5, <1>6 DEF W, X

(* A step that moves no name and no node keeps the ledger exact.           *)
LEMMA LedgerQuiet ==
  ASSUME LedgerInv, pc # "failed", UNCHANGED <<callers, tree, call>>,
         frame'.path = frame.path, frame'.todo = frame.todo,
         used'["nodes"] = used["nodes"],
         pc' \in Unlisted => pc \in Unlisted,
         pc' \in Outside => pc \in Outside,
         Decoding' => frame'.name \in frame'.todo,
         pc' = "done" \/ (pc' \in {"metadata", "entries"} /\ frame'.name = NoName) =>
           frame.todo = {}
  PROVE  LedgerInv'
<1>1. Paths' = Paths /\ OpenPaths' = OpenPaths
  BY DEF Paths, OpenPaths
<1>2. Nested' /\ Apart'
  BY <1>1 DEF LedgerInv, Nested, Apart
<1>3. Pending' = Pending
  BY DEF Pending, Waitings
<1>4. NodeLedgerExact'
  BY <1>3 DEF LedgerInv, NodeLedgerExact
<1> QED
  BY <1>2, <1>4 DEF LedgerInv

(* Failing gives the ledger up.                                            *)
LEMMA LedgerFail ==
  ASSUME NEW k, Fail(k)
  PROVE  LedgerInv'
  BY DEF Fail, LedgerInv

(* The names a frame waits for are finitely many.                          *)
LEMMA TodoFinite ==
  ASSUME NEW f \in Frames
  PROVE  IsFiniteSet(f.todo) /\ Cardinality(f.todo) \in Nat /\ f.path \in Seq(Names)
<1>1. f.todo \in SUBSET Names
  BY DEF Frames
<1> QED
  BY <1>1, ContainerAssumption, FS_Subset, FS_CardinalityType DEF Frames

(* The charge of a resource leaves the others alone.                       *)
LEMMA ChargeFrames ==
  ASSUME TypeOK, NEW r \in Resources, NEW q, Charge(r, q)
  PROVE  /\ used'[r] = Charged(call.limit[r], used[r], q)
         /\ \A x \in Resources : x # r => used'[x] = used[x]
  BY DEF TypeOK, Charge

(* The names of a graph are charged, then they wait.                       *)
LEMMA LedgerList ==
  ASSUME SafeInv, LedgerInv, OpenNodes, UNCHANGED call
  PROVE  LedgerInv'
<1> DEFINE g == At(frame.graph, "nodes")
<1>1. CASE \E k : Fail(k)
  BY <1>1, LedgerFail
<1>2. CASE ~\E k : Fail(k)
  <2>1. /\ pc = "nodes" /\ pc' = "members"
        /\ frame' = [frame EXCEPT !.nodes = g, !.todo = Members(g)]
        /\ Charge("nodes", Cardinality(Members(g)))
        /\ UNCHANGED <<callers, tree>>
    BY <1>2 DEF OpenNodes
  <2>2. /\ frame \in Frames /\ callers \in Seq(Frames) /\ used \in [Resources -> Usize]
        /\ TypeOK /\ "nodes" \in Resources
    BY DEF SafeInv, TypeOK, Resources
  <2>3. frame'.path = frame.path /\ frame'.todo = Members(g)
    BY <2>1, <2>2 DEF Frames
  <2>4. used'["nodes"] = Charged(call.limit["nodes"], used["nodes"], Cardinality(Members(g)))
    BY <2>1, <2>2, ChargeFrames
  <2>5. Members(g) \in SUBSET Names /\ Cardinality(Members(g)) \in Nat
    BY <2>2, MemberCount DEF Members
  <2> HIDE DEF g
  <2>6. Paths' = Paths /\ OpenPaths' = OpenPaths
    BY <2>1, <2>3 DEF Paths, OpenPaths
  <2>7. frame.todo = {} /\ IsFiniteSet(tree) /\ Nested /\ Apart /\ NodeLedgerExact
    BY <2>1 DEF LedgerInv, Unlisted
  <2>8. Nested'
    BY <2>1, <2>3, <2>7 DEF Nested
  <2>9. Apart'
    BY <2>1, <2>3, <2>5, <2>6, <2>7 DEF Apart, Unlisted, Outside
  <2>10. NodeLedgerExact'
    <3>1. Cardinality(frame.todo) = 0
      BY <2>7, FS_EmptySet
    <3>2. Waitings(callers)[Len(callers)] \in Nat /\ Waitings(callers)' = Waitings(callers)
      <4>1. Len(callers) \in 0 .. Len(callers)
        BY <2>2
      <4>2. Waitings(callers)[Len(callers)] \in Nat
        BY <2>2, <4>1, WaitingsUnfold
      <4> QED
        BY <2>1, <4>2 DEF Waitings
    <3>3. Cardinality({x \in tree : x.path # <<>>}) \in Nat
      BY <2>7, FS_Subset, FS_CardinalityType
    <3> DEFINE c == Cardinality({x \in tree : x.path # <<>>})
               w == Waitings(callers)[Len(callers)]
               m == Cardinality(Members(g))
    <3>4. Pending = w /\ Pending' = m + w
      BY <2>1, <2>3, <3>1, <3>2 DEF Pending
    <3>5. call.limit["nodes"] # NoLimit => used["nodes"] = c + w
      BY <2>1, <2>7, <3>4 DEF NodeLedgerExact
    <3>6. call.limit["nodes"] # NoLimit => used'["nodes"] = used["nodes"] + m
      BY <2>4 DEF Charged
    <3>7. call' = call /\ tree' = tree
      BY <2>1
    <3> HIDE DEF c, w, m
    <3>8. c \in Nat /\ w \in Nat /\ m \in Nat
      BY <2>5, <3>2, <3>3 DEF c, w, m
    <3>9. call'.limit["nodes"] # NoLimit => used'["nodes"] = c + Pending'
      BY <3>4, <3>5, <3>6, <3>7, <3>8
    <3> QED
      BY <3>7, <3>9 DEF NodeLedgerExact, c
  <2> QED
    BY <2>1, <2>7, <2>8, <2>9, <2>10 DEF LedgerInv, Unlisted, Outside, Decoding
<1> QED
  BY <1>1, <1>2

(* A nested graph: its own names are not listed yet, those of the graph it  *)
(* is in keep waiting on the stack.                                         *)
LEMMA LedgerNest ==
  ASSUME SafeInv, LedgerInv, ReadNodeType, ~\E k : Fail(k), UNCHANGED call
  PROVE  LedgerInv'
<1> DEFINE d == DataAt(frame.at, "type")
<1>1. /\ frame \in Frames /\ callers \in Seq(Frames) /\ used \in [Resources -> Usize]
      /\ TypeOK /\ {"bytes", "nodes"} \subseteq Resources /\ frame.name \in Names
      /\ pc = "nodeType" /\ tree' = tree /\ Charge("bytes", Cost(d, "text"))
  BY DEF SafeInv, TypeOK, Resources, ReadNodeType, NodeNamed
<1>2. used'["nodes"] = used["nodes"]
  BY <1>1, ChargeFrames
<1>3. /\ Decoding /\ frame.name \in frame.todo /\ frame.name # NoName
      /\ Nested /\ Apart /\ IsFiniteSet(tree) /\ NodeLedgerExact
  BY <1>1, ContainerAssumption DEF LedgerInv, Decoding
<1>4. CASE /\ frame' = [frame EXCEPT !.type = d.value, !.field = 1]
           /\ pc' = "metadata" /\ UNCHANGED callers
  <2>1. /\ frame'.path = frame.path /\ frame'.todo = frame.todo
        /\ frame'.name = frame.name
    BY <1>1, <1>4 DEF Frames
  <2> HIDE DEF d
  <2> QED
    BY <1>1, <1>2, <1>3, <1>4, <2>1, LedgerQuiet DEF Unlisted, Outside
<1>5. CASE /\ callers' = Append(callers, frame) /\ pc' = "enter"
           /\ frame' = NewFrame(frame.at, Append(frame.path, frame.name))
  <2> DEFINE p == frame.path
             q == Append(p, frame.name)
             n == Len(callers)
  <2>1. /\ p \in Seq(Names) /\ q \in Seq(Names) /\ n \in Nat /\ Len(p) = n
        /\ Len(q) = n + 1
    BY <1>1, <1>3 DEF Frames, Nested
  <2>2. /\ callers' \in Seq(Frames) /\ Len(callers') = n + 1
        /\ \A i \in 1 .. n : callers'[i] = callers[i]
        /\ callers'[n + 1] = frame
        /\ DOMAIN callers = 1 .. n /\ DOMAIN callers' = 1 .. n + 1
    BY <1>1, <1>5
  <2>3. frame'.path = q /\ frame'.todo = {}
    BY <1>5 DEF NewFrame
  <2>4. Paths' = Paths
    BY <1>1 DEF Paths
  <2>5. OpenPaths' = OpenPaths \cup {q}
    BY <2>2, <2>3 DEF OpenPaths
  <2>6. q \notin Paths
    BY <1>3 DEF Apart
  <2>7. q \notin OpenPaths
    BY <1>3, <2>1, <2>2 DEF OpenPaths, Nested
  <2>8. Nested'
    <3>1. \A i \in 1 .. n : /\ callers[i].name \in callers[i].todo
                            /\ Len(callers[i].path) = i - 1
                            /\ i < n => callers[i + 1].path = Append(callers[i].path, callers[i].name)
      BY <1>3, <2>2 DEF Nested
    <3>2. n > 0 => p = Append(callers[n].path, callers[n].name)
      BY <1>1, <1>3, <2>1 DEF Nested
    <3>3. \A i \in 1 .. n + 1 :
            /\ callers'[i].name \in callers'[i].todo
            /\ Len(callers'[i].path) = i - 1
            /\ i < n + 1 => callers'[i + 1].path = Append(callers'[i].path, callers'[i].name)
      <4>1. TAKE i \in 1 .. n + 1
      <4>2. CASE i = n + 1
        BY <1>3, <2>1, <2>2, <4>2
      <4>3. CASE i = n
        <5>1. i \in 1 .. n /\ i > 0 /\ i + 1 = n + 1
          BY <2>1, <4>3
        <5>2. callers'[i] = callers[i] /\ callers'[i + 1].path = p
          BY <2>2, <5>1
        <5> HIDE DEF n, p
        <5> QED
          BY <3>1, <3>2, <4>3, <5>1, <5>2
      <4>4. CASE i < n
        <5>1. i \in 1 .. n /\ i + 1 \in 1 .. n
          BY <2>1, <4>4
        <5>2. callers'[i] = callers[i] /\ callers'[i + 1] = callers[i + 1]
          BY <2>2, <5>1
        <5> HIDE DEF n, p
        <5> QED
          BY <3>1, <4>4, <5>1, <5>2
      <4> QED
        BY <2>1, <4>2, <4>3, <4>4
    <3> HIDE DEF p, q, n
    <3>4. callers'[Len(callers')] = frame /\ frame'.path = Append(frame.path, frame.name)
      BY <2>2, <2>3 DEF q, p
    <3> QED
      BY <2>1, <2>2, <2>3, <3>3, <3>4 DEF Nested
  <2>9. Apart'
    <3>1. \A m \in Names : Append(q, m) \notin Paths
      BY <1>3, <2>1, <2>6, <2>7 DEF Apart
    <3>2. \A i \in 1 .. n + 1 : \A m \in callers'[i].todo :
            Append(callers'[i].path, m) \notin Paths
      <4>1. \A i \in 1 .. n : \A m \in callers[i].todo :
              Append(callers[i].path, m) \notin Paths
        BY <1>3, <2>2 DEF Apart
      <4>2. \A m \in frame.todo : Append(frame.path, m) \notin Paths
        BY <1>3 DEF Apart
      <4>3. \A i \in 1 .. n + 1 : i \in 1 .. n \/ i = n + 1
        BY <2>1
      <4> HIDE DEF n
      <4> QED
        BY <2>2, <4>1, <4>2, <4>3
    <3>3. \A r \in Seq(Names), m \in Names :
            Append(r, m) \in Paths => r \in OpenPaths \cup Paths
      BY <1>3 DEF Apart
    <3> HIDE DEF p, q, n
    <3> QED
      BY <2>2, <2>3, <2>4, <2>5, <3>1, <3>2, <3>3 DEF Apart
  <2>10. NodeLedgerExact'
    <3>1. Waitings(callers')[Len(callers')] =
            Waitings(callers)[n] + Cardinality(frame.todo)
      <4> HIDE DEF n
      <4> QED
        BY <1>1, <2>2, WaitingsOnTop DEF n
    <3>2. Waitings(callers')[Len(callers')] = Waitings(callers')[Len(callers)']
      OBVIOUS
    <3>3. Cardinality(frame'.todo) = 0
      BY <2>3, FS_EmptySet
    <3>4. Waitings(callers)[n] \in Nat /\ Cardinality(frame.todo) \in Nat
      BY <1>1, <2>1, WaitingsUnfold, TodoFinite
    <3>5. Pending' = Cardinality(frame'.todo) + Waitings(callers')[Len(callers')]
      BY DEF Pending, Waitings
    <3>6. Pending' = Pending
      <4> DEFINE w == Waitings(callers)[Len(callers)]
                 u == Waitings(callers')[Len(callers')]
                 c == Cardinality(frame.todo)
      <4>1. Pending = c + w /\ Pending' = 0 + u /\ u = w + c /\ w \in Nat /\ c \in Nat
        BY <3>1, <3>3, <3>4, <3>5 DEF Pending
      <4> HIDE DEF w, u, c
      <4> QED
        BY <4>1
    <3> QED
      BY <1>1, <1>2, <1>3, <3>6 DEF NodeLedgerExact
  <2> QED
    BY <1>1, <1>3, <1>5, <2>3, <2>8, <2>9, <2>10
       DEF LedgerInv, Unlisted, Outside, Decoding
<1> QED
  BY <1>4, <1>5 DEF ReadNodeType

(* A leaf leaves the names that wait as it joins the tree.                 *)
LEMMA LedgerLeaf ==
  ASSUME SafeInv, LedgerInv, FinishLeaf, UNCHANGED call
  PROVE  LedgerInv'
<1> DEFINE p == Append(frame.path, frame.name)
           e == Entry(p, frame.at, frame.type)
<1>1. /\ frame \in Frames /\ callers \in Seq(Frames) /\ used \in [Resources -> Usize]
      /\ pc = "entries" /\ pc' = "members" /\ frame.name # NoName
      /\ tree' = tree \cup {e}
      /\ frame' = [frame EXCEPT !.todo = @ \ {frame.name}]
      /\ UNCHANGED <<callers, used>>
  BY DEF SafeInv, TypeOK, FinishLeaf, AtLeaf, Decoded
<1>2. /\ frame.name \in frame.todo /\ frame.name \in Names
      /\ Nested /\ Apart /\ IsFiniteSet(tree) /\ NodeLedgerExact
  BY <1>1 DEF LedgerInv, Decoding, Frames
<1>3. frame'.path = frame.path /\ frame'.todo = frame.todo \ {frame.name}
  BY <1>1 DEF Frames
<1>4. e.path = p
  BY DEF Entry
<1>5. /\ frame.path \in Seq(Names) /\ Len(frame.path) \in Nat
      /\ p \in Seq(Names) /\ Len(p) = Len(frame.path) + 1 /\ p # <<>>
  BY <1>1, <1>2 DEF Frames
<1>6. p \notin Paths
  BY <1>2 DEF Apart
<1> HIDE DEF e
<1>7. Paths' = Paths \cup {p} /\ OpenPaths' = OpenPaths
  BY <1>1, <1>3, <1>4 DEF Paths, OpenPaths
<1>8. Nested'
  BY <1>1, <1>2, <1>3 DEF Nested
<1>9. Apart'
  <2>1. \A n \in frame'.todo : Append(frame.path, n) \notin Paths'
    <3>1. TAKE n \in frame'.todo
    <3>2. n \in Names /\ n # frame.name /\ n \in frame.todo
      BY <1>1, <1>3 DEF Frames
    <3>3. Append(frame.path, n) # p
      BY <1>2, <1>5, <3>2
    <3> QED
      BY <1>2, <1>7, <3>2, <3>3 DEF Apart
  <2>2. \A i \in DOMAIN callers : \A n \in callers[i].todo :
          Append(callers[i].path, n) \notin Paths'
    <3>1. TAKE i \in DOMAIN callers
    <3>2. TAKE n \in callers[i].todo
    <3>3. /\ callers[i] \in Frames /\ i \in 1 .. Len(callers) /\ Len(callers) \in Nat
          /\ Len(callers[i].path) = i - 1 /\ Len(frame.path) = Len(callers)
      BY <1>1, <1>2 DEF Nested
    <3>4. callers[i].path \in Seq(Names) /\ n \in Names
      BY <3>3 DEF Frames
    <3>5. Len(Append(callers[i].path, n)) = i
      BY <3>3, <3>4
    <3>6. Append(callers[i].path, n) # p
      BY <1>5, <3>3, <3>5
    <3> QED
      BY <1>2, <1>7, <3>6 DEF Apart
  <2>3. \A r \in Seq(Names), n \in Names :
          Append(r, n) \in Paths' => r \in OpenPaths' \cup Paths'
    <3>1. TAKE r \in Seq(Names), n \in Names
    <3>2. Append(r, n) = p => r = frame.path
      BY <1>2, <1>5
    <3>3. frame.path \in OpenPaths
      BY DEF OpenPaths
    <3> QED
      BY <1>2, <1>7, <3>2, <3>3 DEF Apart
  <2> QED
    BY <1>1, <1>3, <2>1, <2>2, <2>3 DEF Apart, Unlisted, Outside
<1>10. IsFiniteSet(tree')
  BY <1>1, <1>2, FS_AddElement
<1>11. NodeLedgerExact'
  <2>1. Inserted' = Inserted \cup {e} /\ e \notin Inserted
    BY <1>1, <1>4, <1>5, <1>6 DEF Inserted, Paths
  <2>2. IsFiniteSet(Inserted) /\ Cardinality(Inserted) \in Nat
    BY <1>2, FS_Subset, FS_CardinalityType DEF Inserted
  <2>3. Cardinality(Inserted') = Cardinality(Inserted) + 1
    BY <2>1, <2>2, FS_AddElement
  <2>4. IsFiniteSet(frame.todo) /\ Cardinality(frame.todo) \in Nat
    BY <1>1, TodoFinite
  <2>5. Cardinality(frame'.todo) = Cardinality(frame.todo) - 1
    BY <1>2, <1>3, <2>4, FS_RemoveElement
  <2> DEFINE w == Waitings(callers)[Len(callers)]
             c == Cardinality(frame.todo)
             k == Cardinality(Inserted)
  <2>6. Len(callers) \in 0 .. Len(callers)
    BY <1>1
  <2>7. w \in Nat
    BY <1>1, <2>6, WaitingsUnfold
  <2>8. Pending = c + w /\ Pending' = Cardinality(frame'.todo) + w
    BY <1>1 DEF Pending, Waitings
  <2>9. NodeLedgerExact' <=>
          (call.limit["nodes"] # NoLimit => used["nodes"] = Cardinality(Inserted') + Pending')
    BY <1>1 DEF NodeLedgerExact, Inserted
  <2>10. call.limit["nodes"] # NoLimit => used["nodes"] = k + Pending
    BY <1>1, <1>2 DEF NodeLedgerExact, Inserted
  <2>11. c \in Nat /\ k \in Nat
    BY <2>2, <2>4
  <2>12. k + (c + w) = (k + 1) + ((c - 1) + w)
    <3> HIDE DEF w, c, k
    <3> QED
      BY <2>7, <2>11
  <2> QED
    BY <2>3, <2>5, <2>8, <2>9, <2>10, <2>12
<1> QED
  BY <1>1, <1>8, <1>9, <1>10, <1>11 DEF LedgerInv, Unlisted, Outside, Decoding

(* A nested graph joins the tree, and its name leaves its caller's list;   *)
(* the root graph has no name to be charged for.                           *)
LEMMA LedgerLeave ==
  ASSUME SafeInv, LedgerInv, LeaveGraph, UNCHANGED call
  PROVE  LedgerInv'
<1> DEFINE q == frame.path
           e == Entry(q, frame.graph, "NIRGraph")
           n == Len(callers)
<1>1. /\ frame \in Frames /\ callers \in Seq(Frames) /\ used \in [Resources -> Usize]
      /\ pc = "entries" /\ frame.name = NoName
      /\ tree' = tree \cup {e} /\ UNCHANGED used
  BY DEF SafeInv, TypeOK, LeaveGraph
<1>2. /\ frame.todo = {} /\ Nested /\ Apart /\ IsFiniteSet(tree) /\ NodeLedgerExact
  BY <1>1 DEF LedgerInv
<1>3. e.path = q
  BY DEF Entry
<1>4. q \in Seq(Names) /\ n \in Nat /\ Len(q) = n /\ DOMAIN callers = 1 .. n
  BY <1>1, <1>2 DEF Frames, Nested
<1> HIDE DEF e
<1>5. Paths' = Paths \cup {q}
  BY <1>1, <1>3 DEF Paths
<1>6. IsFiniteSet(tree')
  BY <1>1, <1>2, FS_AddElement
<1>7. IsFiniteSet(Inserted) /\ Cardinality(Inserted) \in Nat
  BY <1>2, FS_Subset, FS_CardinalityType DEF Inserted
<1>8. Cardinality(frame.todo) = 0
  BY <1>2, FS_EmptySet
<1>9. CASE callers = <<>>
  <2>1. pc' = "done" /\ UNCHANGED <<frame, callers>>
    BY <1>9 DEF LeaveGraph
  <2>2. OpenPaths' = OpenPaths /\ OpenPaths = {q}
    BY <1>9, <2>1 DEF OpenPaths
  <2>3. q = <<>>
    BY <1>4, <1>9, EmptySeq
  <2>4. \A r \in Seq(Names), m \in Names : Append(r, m) # q
    <3>1. TAKE r \in Seq(Names), m \in Names
    <3>2. Append(r, m) # <<>>
      BY AppendProperties
    <3> QED
      BY <2>3, <3>2
  <2>5. Apart'
    BY <1>2, <1>5, <1>9, <2>1, <2>2, <2>4 DEF Apart, Unlisted, Outside
  <2>6. Inserted' = Inserted
    BY <1>1, <1>3, <2>3 DEF Inserted
  <2>7. NodeLedgerExact'
    <3>1. Pending' = Pending
      BY <2>1 DEF Pending, Waitings
    <3> QED
      BY <1>1, <1>2, <2>1, <2>6, <3>1 DEF NodeLedgerExact, Inserted
  <2> QED
    BY <1>1, <1>2, <1>6, <2>1, <2>5, <2>7
       DEF LedgerInv, Nested, Unlisted, Outside, Decoding
<1>10. CASE callers # <<>>
  <2> DEFINE f == callers[n]
             p == f.path
  <2>1. /\ frame' = [f EXCEPT !.todo = @ \ {f.name}]
        /\ callers' = SubSeq(callers, 1, n - 1)
        /\ pc' = "members"
    BY <1>10 DEF LeaveGraph, Decoded
  <2>2. /\ n \in Nat \ {0} /\ f \in Frames
        /\ callers' \in Seq(Frames) /\ Len(callers') = n - 1
        /\ \A i \in 1 .. n - 1 : callers'[i] = callers[i]
    BY <1>1, <1>10, <2>1, PopLast
  <2>3. /\ DOMAIN callers' = 1 .. n - 1 /\ n \in 1 .. n
        /\ \A i \in 1 .. n - 1 : i \in 1 .. n
        /\ \A i \in 1 .. n : i \in 1 .. n - 1 \/ i = n
    BY <2>2
  <2>4. /\ frame'.path = p /\ frame'.todo = f.todo \ {f.name}
        /\ p \in Seq(Names) /\ f.todo \subseteq Names
    BY <2>1, <2>2 DEF Frames
  <2>5. \A i \in 1 .. n : /\ callers[i].name \in callers[i].todo
                          /\ Len(callers[i].path) = i - 1
                          /\ i < n => callers[i + 1].path = Append(callers[i].path, callers[i].name)
    BY <1>2, <1>4 DEF Nested
  <2>6. /\ f.name \in f.todo /\ f.name \in Names /\ Len(p) = n - 1
        /\ q = Append(p, f.name) /\ q # <<>>
    <3>1. q = Append(callers[Len(callers)].path, callers[Len(callers)].name)
      BY <1>2, <1>10 DEF Nested
    <3> QED
      BY <1>4, <2>2, <2>3, <2>4, <2>5, <3>1
  <2>7. q \notin Paths
    BY <1>2, <1>4, <2>3, <2>6 DEF Apart
  <2> HIDE DEF f
  <2>8. OpenPaths = OpenPaths' \cup {q}
    <3>1. OpenPaths = {q} \cup {callers[i].path : i \in 1 .. n}
      BY <1>4 DEF OpenPaths
    <3>2. OpenPaths' = {p} \cup {callers'[i].path : i \in 1 .. n - 1}
      BY <2>3, <2>4 DEF OpenPaths
    <3>3. callers[n].path = p
      BY DEF f
    <3> HIDE DEF n, q, p
    <3> QED
      BY <2>2, <2>3, <3>1, <3>2, <3>3
  <2>9. Nested'
    <3>1. \A i \in 1 .. n - 1 :
            /\ callers'[i].name \in callers'[i].todo
            /\ Len(callers'[i].path) = i - 1
            /\ i < n - 1 => callers'[i + 1].path = Append(callers'[i].path, callers'[i].name)
      <4>1. TAKE i \in 1 .. n - 1
      <4>2. i < n - 1 => i + 1 \in 1 .. n - 1
        BY <2>2
      <4>3. i < n
        BY <2>2
      <4> QED
        BY <2>2, <2>3, <2>5, <4>2, <4>3
    <3>2. Len(callers') = n - 1
      BY <2>2
    <3>3. callers' # <<>> => p = Append(callers'[n - 1].path, callers'[n - 1].name)
      <4>1. SUFFICES ASSUME callers' # <<>>
                     PROVE  p = Append(callers'[n - 1].path, callers'[n - 1].name)
        OBVIOUS
      <4>2. n - 1 \in 1 .. n - 1 /\ n - 1 < n /\ (n - 1) + 1 = n /\ n - 1 \in 1 .. n
        BY <2>2, <4>1, EmptySeq
      <4>3. callers'[n - 1] = callers[n - 1]
        BY <2>2, <4>2
      <4>4. callers[(n - 1) + 1].path = Append(callers[n - 1].path, callers[n - 1].name)
        BY <2>5, <4>2
      <4> QED
        BY <4>2, <4>3, <4>4 DEF f
    <3> HIDE DEF n, p
    <3> QED
      BY <2>3, <2>4, <2>6, <3>1, <3>2, <3>3 DEF Nested
  <2>10. Apart'
    <3>1. \A m \in frame'.todo : Append(p, m) \notin Paths'
      <4>1. TAKE m \in frame'.todo
      <4>2. m \in f.todo /\ m # f.name /\ m \in Names
        BY <2>4
      <4>3. Append(p, m) # q
        BY <2>4, <2>6, <4>2
      <4>4. Append(p, m) \notin Paths
        BY <1>2, <1>4, <2>3, <4>2 DEF Apart, f
      <4> QED
        BY <1>5, <4>3, <4>4
    <3>2. \A i \in 1 .. n - 1 : \A m \in callers'[i].todo :
            Append(callers'[i].path, m) \notin Paths'
      <4>1. TAKE i \in 1 .. n - 1
      <4>2. TAKE m \in callers'[i].todo
      <4>3. /\ callers'[i] = callers[i] /\ callers[i] \in Frames /\ i \in 1 .. n
            /\ Len(callers[i].path) = i - 1
        BY <1>1, <2>2, <2>3, <2>5
      <4>4. callers[i].path \in Seq(Names) /\ m \in Names
        BY <4>3 DEF Frames
      <4>5. Len(Append(callers[i].path, m)) = i
        BY <4>3, <4>4
      <4>6. Append(callers[i].path, m) # q
        BY <1>4, <2>2, <4>5
      <4>7. Append(callers[i].path, m) \notin Paths
        BY <1>2, <1>4, <4>3 DEF Apart
      <4> QED
        BY <1>5, <4>3, <4>6, <4>7
    <3>3. \A r \in Seq(Names), m \in Names :
            Append(r, m) \in Paths' => r \in OpenPaths' \cup Paths'
      <4>1. TAKE r \in Seq(Names), m \in Names
      <4>2. Append(r, m) = q => r = p
        BY <2>4, <2>6
      <4>3. p \in OpenPaths'
        BY <2>4 DEF OpenPaths
      <4>4. Append(r, m) \in Paths => r \in OpenPaths \cup Paths
        BY <1>2 DEF Apart
      <4> QED
        BY <1>5, <2>8, <4>2, <4>3, <4>4
    <3> HIDE DEF n, p
    <3> QED
      BY <2>1, <2>3, <2>4, <3>1, <3>2, <3>3 DEF Apart, Unlisted, Outside
  <2>11. NodeLedgerExact'
    <3> DEFINE w == Waitings(callers)[Len(callers)]
               u == Waitings(callers')[Len(callers')]
               c == Cardinality(f.todo)
               k == Cardinality(Inserted)
    <3>1. Inserted' = Inserted \cup {e} /\ e \notin Inserted
      BY <1>1, <1>3, <2>6, <2>7 DEF Inserted, Paths
    <3>2. Cardinality(Inserted') = k + 1
      BY <1>7, <3>1, FS_AddElement
    <3>3. IsFiniteSet(f.todo) /\ c \in Nat
      BY <2>2, TodoFinite
    <3>4. Cardinality(frame'.todo) = c - 1
      BY <2>4, <2>6, <3>3, FS_RemoveElement
    <3>5. w = u + c
      <4>1. /\ Len(callers) = Len(callers') + 1
            /\ \A i \in 1 .. Len(callers') : callers[i] = callers'[i]
        BY <2>2
      <4>2. callers[Len(callers)].todo = f.todo
        BY DEF f
      <4> HIDE DEF n
      <4>3. Waitings(callers)[Len(callers)] =
              Waitings(callers')[Len(callers')] + Cardinality(callers[Len(callers)].todo)
        BY <1>1, <2>2, <4>1, WaitingsOnTop
      <4> QED
        BY <4>2, <4>3
    <3>6. u \in Nat
      <4>1. Len(callers') \in 0 .. Len(callers')
        BY <2>2
      <4> HIDE DEF n
      <4> QED
        BY <2>2, <4>1, WaitingsUnfold
    <3>7. Pending = 0 + w
      BY <1>8 DEF Pending
    <3>8. Pending' = Cardinality(frame'.todo) + u
      BY DEF Pending, Waitings
    <3>9. NodeLedgerExact' <=>
            (call.limit["nodes"] # NoLimit => used["nodes"] = Cardinality(Inserted') + Pending')
      BY <1>1, <2>1 DEF NodeLedgerExact, Inserted
    <3>10. call.limit["nodes"] # NoLimit => used["nodes"] = k + Pending
      BY <1>1, <1>2 DEF NodeLedgerExact, Inserted
    <3>11. k \in Nat
      BY <1>7
    <3>12. k + (0 + (u + c)) = (k + 1) + ((c - 1) + u)
      <4> HIDE DEF u, c, k
      <4> QED
        BY <3>3, <3>6, <3>11
    <3> HIDE DEF w, u, c, k
    <3> QED
      BY <3>2, <3>4, <3>5, <3>7, <3>8, <3>9, <3>10, <3>12
  <2> QED
    BY <1>6, <2>1, <2>9, <2>10, <2>11 DEF LedgerInv, Unlisted, Outside, Decoding
<1> QED
  BY <1>9, <1>10

(* Every step keeps the node ledger exact.                                 *)
LEMMA LedgerStep ==
  ASSUME SafeInv, LedgerInv, [Next]_vars
  PROVE  LedgerInv'
<1>1. /\ frame \in Frames /\ TypeOK /\ used \in [Resources -> Usize]
      /\ {"bytes", "nodes", "edges", "graphs"} = Resources
  BY DEF SafeInv, TypeOK, Resources
<1>2. CASE UNCHANGED vars
  <2>1. Nested' = Nested /\ Decoding' = Decoding
    BY <1>2 DEF vars, Nested, Decoding
  <2>2. Apart' = Apart
    BY <1>2 DEF vars, Apart, Paths, OpenPaths
  <2>3. NodeLedgerExact' = NodeLedgerExact
    BY <1>2 DEF vars, NodeLedgerExact, Pending, Waitings
  <2> QED
    BY <1>2, <2>1, <2>2, <2>3 DEF vars, LedgerInv
<1>3. CASE Next /\ \E k : Fail(k)
  BY <1>3, LedgerFail
<1>4. CASE Next /\ ~\E k : Fail(k)
  <2>1. UNCHANGED call
    BY <1>4 DEF Next
  <2>2. CASE OpenNodes
    BY <2>1, <2>2, LedgerList
  <2>3. CASE ReadNodeType
    BY <1>4, <2>1, <2>3, LedgerNest
  <2>4. CASE FinishLeaf
    BY <2>1, <2>4, LedgerLeaf
  <2>5. CASE LeaveGraph
    BY <2>1, <2>5, LedgerLeave
  <2>6. CASE OpenFile \/ CheckRootLinks \/ EnforceVersionPolicy \/ OpenTopGraph
             \/ CheckGraphLinks
    <3>1. /\ UNCHANGED <<callers, tree, frame, used>> /\ pc # "failed"
          /\ pc' \in Unlisted \cup {"done"} /\ pc \in Unlisted
          /\ (pc' \in Outside => pc \in Outside)
      BY <1>4, <2>6 DEF OpenFile, CheckRootLinks, EnforceVersionPolicy, OpenTopGraph,
                        CheckGraphLinks, Goto, Unlisted, Outside
    <3>2. frame.todo = {}
      BY <3>1 DEF LedgerInv, Unlisted, Outside
    <3>3. ~Decoding'
      BY <3>1 DEF Decoding, Unlisted, Outside
    <3> QED
      BY <2>1, <3>1, <3>2, <3>3, LedgerQuiet
  <2>7. CASE LoadVersion
    <3>1. /\ UNCHANGED <<callers, tree, frame>> /\ pc = "version" /\ pc' = "policy"
          /\ used'["nodes"] = used["nodes"]
      BY <1>1, <1>4, <2>7, ChargeFrames DEF LoadVersion, Goto
    <3> QED
      BY <2>1, <3>1, LedgerQuiet DEF Unlisted, Outside, Decoding
  <2>8. CASE ReadRootType
    <3>1. /\ UNCHANGED <<callers, tree>> /\ pc = "rootType" /\ pc' = "enter"
          /\ frame' = NewFrame(TopGraph, <<>>)
          /\ Charge("bytes", Cost(DataAt(TopGraph, "type"), "text"))
      BY <1>4, <2>8 DEF ReadRootType
    <3>2. used'["nodes"] = used["nodes"]
      BY <1>1, <3>1, ChargeFrames
    <3>3. /\ frame'.path = <<>> /\ frame'.todo = {}
      BY <3>1 DEF NewFrame
    <3>4. /\ frame.todo = {} /\ callers = <<>> /\ Len(frame.path) = Len(callers)
      BY <3>1 DEF LedgerInv, Unlisted, Outside, Nested
    <3>5. frame.path = <<>>
      BY <1>1, <3>4, EmptySeq DEF Frames
    <3> QED
      BY <2>1, <3>1, <3>2, <3>3, <3>4, <3>5, LedgerQuiet DEF Unlisted, Outside, Decoding
  <2>9. CASE EnterGraph
    <3>1. /\ UNCHANGED <<callers, tree, frame>> /\ pc = "enter" /\ pc' = "graphLinks"
          /\ Charge("graphs", 1)
      BY <1>4, <2>9 DEF EnterGraph
    <3>2. used'["nodes"] = used["nodes"]
      BY <1>1, <3>1, ChargeFrames
    <3> QED
      BY <2>1, <3>1, <3>2, LedgerQuiet DEF Unlisted, Outside, Decoding
  <2>10. CASE OpenMember
    <3>1. PICK n \in frame.todo :
            /\ UNCHANGED <<callers, tree, used>> /\ pc' = "nodeType" /\ pc = "members"
            /\ frame' = [frame EXCEPT !.name = n, !.at = At(frame.nodes, n)]
      BY <1>4, <2>10 DEF OpenMember
    <3>2. frame'.path = frame.path /\ frame'.todo = frame.todo /\ frame'.name = n
      BY <1>1, <3>1 DEF Frames
    <3> QED
      BY <2>1, <3>1, <3>2, LedgerQuiet DEF Unlisted, Outside
  <2>11. CASE OpenMetadata \/ ReadEntry \/ ReadField
    <3>1. /\ UNCHANGED <<callers, tree>> /\ pc \in {"metadata", "entries"} /\ pc' = "entries"
      BY <1>4, <2>11 DEF OpenMetadata, ReadEntry, ReadField, AtLeaf
    <3>2. /\ frame'.path = frame.path /\ frame'.todo = frame.todo
          /\ frame'.name = frame.name
      BY <1>1, <1>4, <2>11 DEF OpenMetadata, ReadEntry, ReadField, NextField, Frames
    <3>3. used'["nodes"] = used["nodes"]
      BY <1>1, <1>4, <2>11, ChargeFrames DEF OpenMetadata, ReadEntry, ReadField
    <3>4. /\ frame.name # NoName => frame.name \in frame.todo
          /\ frame.name = NoName => frame.todo = {}
      BY <3>1 DEF LedgerInv, Decoding
    <3> QED
      BY <2>1, <3>1, <3>2, <3>3, <3>4, LedgerQuiet DEF Unlisted, Outside, Decoding
  <2>12. CASE ReadEdges
    <3>1. /\ UNCHANGED <<callers, tree>> /\ pc = "members" /\ pc' = "metadata"
          /\ frame.todo = {}
          /\ frame' = [frame EXCEPT !.name = NoName, !.at = frame.graph]
      BY <1>4, <2>12 DEF ReadEdges
    <3>2. frame'.path = frame.path /\ frame'.todo = frame.todo /\ frame'.name = NoName
      BY <1>1, <3>1 DEF Frames
    <3>3. used'["nodes"] = used["nodes"]
      BY <1>1, <1>4, <2>12 DEF ReadEdges
    <3> QED
      BY <2>1, <3>1, <3>2, <3>3, LedgerQuiet DEF Unlisted, Outside, Decoding
  <2>13. CASE UnknownType \/ IoFault
    BY <1>4, <2>13 DEF UnknownType, IoFault
  <2> QED
    BY <1>4, <2>2, <2>3, <2>4, <2>5, <2>6, <2>7, <2>8, <2>9, <2>10, <2>11, <2>12, <2>13
       DEF Next
<1> QED
  BY <1>2, <1>3, <1>4

(* At the start nothing is charged, waiting or decoded.                    *)
LEMMA LedgerInit == Init => LedgerInv
<1> SUFFICES ASSUME Init PROVE LedgerInv
  OBVIOUS
<1>1. /\ callers = <<>> /\ tree = {} /\ frame.path = <<>> /\ frame.todo = {}
      /\ used["nodes"] = 0 /\ pc = "open"
  BY DEF Init, NewFrame, Resources
<1>2. callers \in Seq(Frames) /\ Len(callers) = 0 /\ DOMAIN callers = {}
  BY <1>1
<1>3. Waitings(callers)[Len(callers)] = 0
  BY <1>2, WaitingsUnfold
<1>4. /\ Cardinality(frame.todo) = 0 /\ IsFiniteSet(tree)
      /\ Cardinality({x \in tree : x.path # <<>>}) = 0
  <2>1. {x \in tree : x.path # <<>>} = {}
    BY <1>1
  <2> QED
    BY <1>1, <2>1, FS_EmptySet
<1>5. NodeLedgerExact
  BY <1>1, <1>3, <1>4 DEF NodeLedgerExact, Pending
<1>6. Nested
  BY <1>1, <1>2 DEF Nested
<1>7. Apart
  BY <1>1, <1>2 DEF Apart, Paths
<1> QED
  BY <1>1, <1>4, <1>5, <1>6, <1>7 DEF LedgerInv, Decoding, Outside

(* Whatever the container, a node is charged once, before its name is held, *)
(* and the charge stands for it until it is in the tree: no path through   *)
(* nesting, leaves or returns lets a name go uncharged or charged twice.   *)
THEOREM NodesChargedOnce == Spec => []NodeLedgerExact
<1>1. LedgerInv => NodeLedgerExact
  BY DEF LedgerInv, NodeLedgerExact
<1> QED
  BY <1>1, SafeInit, SafeStep, LedgerInit, LedgerStep, PTL DEF Spec

-----------------------------------------------------------------------------
(***************************************************************************)
(* The tree and the container.  What is decoded is what the file describes *)
(* there, and a graph is left when everything below it has been decoded.   *)
(***************************************************************************)
Traversal == Inner \cup {"enter"}

Counting == Inner \ {"graphLinks", "nodes"}

Returned == pc = "done" /\ call.entry = "read"

Place(path, object) == [path |-> path, object |-> object]

(* An entry is an occurrence of its object; a graph is there as a whole.   *)
Sound(x) ==
  /\ Place(x.path, x.object) \in Occurrences
  /\ x.type = DataAt(x.object, "type").value
  /\ x.type = "NIRGraph" =>
       /\ IsGraph(x.object) /\ HasGroup(x.object, "nodes")
       /\ \A n \in Members(At(x.object, "nodes")) : Append(x.path, n) \in Paths

OpenSound(f) ==
  Place(f.path, f.graph) \in Levels[Len(f.path)] /\ IsGraph(f.graph)

(* What an open graph does not wait for is decoded.                        *)
Listed(f) ==
  /\ HasGroup(f.graph, "nodes") /\ f.nodes = At(f.graph, "nodes")
  /\ f.todo \subseteq Members(f.nodes)
  /\ \A n \in Members(f.nodes) \ f.todo : Append(f.path, n) \in Paths

TreeInv ==
  pc # "failed" =>
    /\ pc \in Traversal \/ Returned => HasGroup(Root, "node")
    /\ \A x \in tree : Sound(x)
    /\ pc \in Traversal =>
         OpenSound(frame) /\ \A i \in DOMAIN callers : OpenSound(callers[i]) /\ Listed(callers[i])
    /\ pc \in Counting => Listed(frame)
    /\ Decoding => HasGroup(frame.nodes, frame.name) /\ frame.at = At(frame.nodes, frame.name)
    /\ Decoding /\ pc # "nodeType" =>
         HasDataset(frame.at, "type") /\ frame.type = DataAt(frame.at, "type").value
    /\ Returned => <<>> \in Paths

Places == [path : Seq(Names), object : Objects]

(* The occurrences, one level of nesting at a time.                        *)
LEMMA LevelsUnfold ==
  ASSUME TypeOK, HasGroup(Root, "node")
  PROVE  /\ Levels[0] = {Place(<<>>, TopGraph)}
         /\ \A d \in 1 .. MaxGraphs :
              Levels[d] = UNION {Below(x) : x \in {y \in Levels[d - 1] : HasNodes(y)}}
         /\ \A d \in 0 .. MaxGraphs : Levels[d] \in SUBSET Places
<1> DEFINE next(L) == UNION {Below(x) : x \in {y \in L : HasNodes(y)}}
           V == SUBSET Places
           first == {Place(<<>>, TopGraph)}
           step == [x \in V \X (1 .. MaxGraphs) |-> next(x[1])]
           Rec(l) == [d \in 0 .. MaxGraphs |-> IF d = 0 THEN first ELSE next(l[d - 1])]
           L == Levels
           S == {d \in Nat : d <= MaxGraphs => L[d] \in V}
<1>1. MaxGraphs \in Nat
  BY OptionsAssumption
<1>2. first \in V
  <2>1. TopGraph \in Objects
    BY ContainerAssumption, ContainerFacts DEF TopGraph, HasGroup, Objects
  <2>2. Place(<<>>, TopGraph) \in Places
    BY <2>1 DEF Place, Places
  <2> QED
    BY <2>2
<1>3. ASSUME NEW A \in V PROVE next(A) \in V
  <2>1. ASSUME NEW x \in A, HasNodes(x) PROVE Below(x) \subseteq Places
    <3>1. x.path \in Seq(Names) /\ x.object \in Groups /\ "nodes" \in Names
      BY <2>1, ContainerAssumption DEF Places, HasNodes, IsGraph
    <3>2. At(x.object, "nodes") \in Groups
      BY <2>1, <3>1, ContainerFacts DEF HasNodes
    <3>3. \A n \in Members(At(x.object, "nodes")) :
            n \in Names /\ At(At(x.object, "nodes"), n) \in Objects
      BY <3>2, ContainerFacts DEF Members
    <3>4. \A n \in Names : Append(x.path, n) \in Seq(Names)
      BY <3>1
    <3> QED
      BY <3>3, <3>4 DEF Below, Places
  <2> QED
    BY <2>1
<1> HIDE DEF next, first, V
<1>4. step \in [V \X (1 .. MaxGraphs) -> V]
  BY <1>3
<1>5. PICK f \in [0 .. MaxGraphs -> V] : Follows(f, first, step, MaxGraphs)
  <2> HIDE DEF step
  <2> QED
    BY <1>1, <1>2, <1>4, RecursionExists
<1>6. f = Rec(f)
  <2>1. SUFFICES ASSUME NEW d \in 1 .. MaxGraphs PROVE f[d] = next(f[d - 1])
    BY <1>5 DEF Follows
  <2>2. d - 1 \in 0 .. MaxGraphs /\ f[d - 1] \in V
    BY <1>1
  <2>3. <<f[d - 1], d>> \in V \X (1 .. MaxGraphs)
    BY <2>2
  <2>4. f[d] = step[<<f[d - 1], d>>]
    <3> HIDE DEF step
    <3> QED
      BY <1>5 DEF Follows
  <2> QED
    BY <2>3, <2>4
<1>7. L = Rec(L)
  BY <1>6 DEF Levels, next, first, Place
<1>8. L[0] = first /\ \A d \in 1 .. MaxGraphs : L[d] = next(L[d - 1])
  <2>1. \A d \in 0 .. MaxGraphs : L[d] = IF d = 0 THEN first ELSE next(L[d - 1])
    BY <1>7
  <2> HIDE DEF L
  <2> QED
    BY <1>1, <2>1
<1>9. Nat \subseteq S
  <2> HIDE DEF L
  <2>1. 0 \in S
    BY <1>2, <1>8
  <2>2. ASSUME NEW d \in Nat, d \in S PROVE d + 1 \in S
    <3>1. SUFFICES ASSUME d + 1 <= MaxGraphs PROVE L[d + 1] \in V
      OBVIOUS
    <3>2. d + 1 \in 1 .. MaxGraphs /\ d + 1 - 1 = d /\ L[d] \in V
      BY <1>1, <2>2, <3>1
    <3> QED
      BY <1>3, <1>8, <3>2
  <2> HIDE DEF S
  <2> QED
    BY <2>1, <2>2, SetInduction
<1>10. \A d \in 0 .. MaxGraphs : L[d] \in V
  BY <1>1, <1>9
<1> QED
  BY <1>8, <1>10 DEF next, first, V

(* A path is as long as its occurrence is deep.                            *)
LEMMA LevelIsDepth ==
  ASSUME TypeOK, HasGroup(Root, "node")
  PROVE  \A d \in 0 .. MaxGraphs : \A x \in Levels[d] : Len(x.path) = d
<1> DEFINE S == {d \in Nat : d <= MaxGraphs => \A x \in Levels[d] : Len(x.path) = d}
<1>1. MaxGraphs \in Nat
  BY OptionsAssumption
<1>2. 0 \in S
  BY <1>1, LevelsUnfold DEF Place
<1>3. ASSUME NEW d \in Nat, d \in S PROVE d + 1 \in S
  <2>1. SUFFICES ASSUME d + 1 <= MaxGraphs, NEW x \in Levels[d + 1]
                 PROVE  Len(x.path) = d + 1
    OBVIOUS
  <2>2. d + 1 \in 1 .. MaxGraphs /\ d + 1 - 1 = d /\ d \in 0 .. MaxGraphs
    BY <1>1, <2>1
  <2>3. PICK y \in Levels[d] : x \in Below(y)
    BY <2>1, <2>2, LevelsUnfold
  <2>4. PICK n \in Names : x.path = Append(y.path, n)
    BY <2>3 DEF Below, Members
  <2>5. y \in Places /\ Len(y.path) = d
    BY <1>3, <2>2, <2>3, LevelsUnfold
  <2>6. y.path \in Seq(Names)
    BY <2>5 DEF Places
  <2> QED
    BY <2>4, <2>5, <2>6
<1>4. Nat \subseteq S
  <2> HIDE DEF S
  <2> QED
    BY <1>2, <1>3, SetInduction
<1> QED
  BY <1>1, <1>4

(* A path leads to one object.                                             *)
LEMMA PathLeadsToOne ==
  ASSUME TypeOK, HasGroup(Root, "node")
  PROVE  \A x, y \in Occurrences : x.path = y.path => x.object = y.object
<1> DEFINE S == {d \in Nat : d <= MaxGraphs =>
                   \A x, y \in Levels[d] : x.path = y.path => x.object = y.object}
<1>1. MaxGraphs \in Nat
  BY OptionsAssumption
<1>2. 0 \in S
  BY <1>1, LevelsUnfold DEF Place
<1>3. ASSUME NEW d \in Nat, d \in S PROVE d + 1 \in S
  <2>1. SUFFICES ASSUME d + 1 <= MaxGraphs, NEW x \in Levels[d + 1], NEW y \in Levels[d + 1],
                        x.path = y.path
                 PROVE  x.object = y.object
    OBVIOUS
  <2>2. d + 1 \in 1 .. MaxGraphs /\ d + 1 - 1 = d /\ d \in 0 .. MaxGraphs
    BY <1>1, <2>1
  <2>3. PICK u \in Levels[d] : x \in Below(u)
    BY <2>1, <2>2, LevelsUnfold
  <2>4. PICK v \in Levels[d] : y \in Below(v)
    BY <2>1, <2>2, LevelsUnfold
  <2>5. PICK m \in Names : /\ x.path = Append(u.path, m)
                           /\ x.object = At(At(u.object, "nodes"), m)
    BY <2>3 DEF Below, Members
  <2>6. PICK n \in Names : /\ y.path = Append(v.path, n)
                           /\ y.object = At(At(v.object, "nodes"), n)
    BY <2>4 DEF Below, Members
  <2>7. u \in Places /\ v \in Places
    BY <2>2, <2>3, <2>4, LevelsUnfold
  <2>8. u.path \in Seq(Names) /\ v.path \in Seq(Names)
    BY <2>7 DEF Places
  <2>9. Append(u.path, m) = Append(v.path, n)
    BY <2>1, <2>5, <2>6
  <2>10. u.path = v.path /\ m = n
    <3> DEFINE p == u.path
               q == v.path
    <3>1. p \in Seq(Names) /\ q \in Seq(Names) /\ Append(p, m) = Append(q, n)
      BY <2>8, <2>9
    <3> HIDE DEF p, q
    <3>2. p = q /\ m = n
      BY <3>1, AppendInjective
    <3> QED
      BY <3>2 DEF p, q
  <2>11. u.object = v.object
    BY <1>3, <2>2, <2>3, <2>4, <2>10
  <2> QED
    BY <2>5, <2>6, <2>10, <2>11
<1>4. Nat \subseteq S
  <2> HIDE DEF S
  <2> QED
    BY <1>2, <1>3, SetInduction
<1>5. ASSUME NEW x \in Occurrences, NEW y \in Occurrences, x.path = y.path
      PROVE  x.object = y.object
  <2>1. PICK c \in 0 .. MaxGraphs : x \in Levels[c]
    BY DEF Occurrences
  <2>2. PICK d \in 0 .. MaxGraphs : y \in Levels[d]
    BY DEF Occurrences
  <2>3. c = d
    BY <1>5, <2>1, <2>2, LevelIsDepth
  <2> QED
    BY <1>1, <1>4, <1>5, <2>1, <2>2, <2>3
<1> QED
  BY <1>5

(* The members of a graph that is not nested too deep are occurrences.     *)
LEMMA MemberOccurs ==
  ASSUME TypeOK, HasGroup(Root, "node"), NEW p, NEW g, Len(p) + 1 \in 1 .. MaxGraphs,
         Place(p, g) \in Levels[Len(p)], IsGraph(g), HasGroup(g, "nodes"),
         NEW n \in Members(At(g, "nodes")), Len(p) \in Nat
  PROVE  Place(Append(p, n), At(At(g, "nodes"), n)) \in Levels[Len(p) + 1]
<1>1. HasNodes(Place(p, g))
  BY DEF HasNodes, Place
<1>2. Place(Append(p, n), At(At(g, "nodes"), n)) \in Below(Place(p, g))
  BY DEF Place, Below
<1>3. Len(p) + 1 - 1 = Len(p)
  OBVIOUS
<1>4. Levels[Len(p) + 1] = UNION {Below(x) : x \in {y \in Levels[Len(p)] : HasNodes(y)}}
  BY <1>3, LevelsUnfold
<1> QED
  BY <1>1, <1>2, <1>4

(* The container does not change while it is read.                         *)
LEMMA FileStays ==
  ASSUME UNCHANGED file
  PROVE  /\ Levels' = Levels /\ Occurrences' = Occurrences
         /\ \A g, n : /\ At(g, n)' = At(g, n) /\ DataAt(g, n)' = DataAt(g, n)
                      /\ HasGroup(g, n)' <=> HasGroup(g, n)
                      /\ HasDataset(g, n)' <=> HasDataset(g, n)
         /\ \A g : Members(g)' = Members(g) /\ (IsGraph(g)' <=> IsGraph(g))
<1>1. Levels' = Levels
  BY DEF Levels, Below, HasNodes, IsGraph, HasGroup, HasDataset, DataAt, At, Linked, Members,
         TopGraph
<1>2. Occurrences' = Occurrences
  BY <1>1 DEF Occurrences
<1> QED
  BY <1>1, <1>2 DEF IsGraph, HasGroup, HasDataset, DataAt, At, Linked, Members

(* A sound entry stays sound while the tree grows.                         *)
LEMMA SoundStays ==
  ASSUME UNCHANGED file, Paths \subseteq Paths'
  PROVE  /\ \A x : Sound(x) => Sound(x)'
         /\ \A f : OpenSound(f) => OpenSound(f)'
         /\ \A f : Listed(f) => Listed(f)'
  BY FileStays DEF Sound, OpenSound, Listed

(* A step that decodes no node leaves the tree in line with the container. *)
LEMMA TreeQuiet ==
  ASSUME TreeInv, pc # "failed", UNCHANGED <<file, callers, tree, call>>,
         frame'.path = frame.path, frame'.graph = frame.graph,
         frame'.nodes = frame.nodes, frame'.todo = frame.todo,
         pc' \in Traversal => pc \in Traversal,
         pc' \in Counting => pc \in Counting,
         ~Returned',
         Decoding' => /\ HasGroup(frame'.nodes, frame'.name)
                      /\ frame'.at = At(frame'.nodes, frame'.name),
         Decoding' /\ pc' # "nodeType" =>
           HasDataset(frame'.at, "type") /\ frame'.type = DataAt(frame'.at, "type").value
  PROVE  TreeInv'
<1>1. Paths' = Paths
  BY DEF Paths
<1>2. \A x \in tree' : Sound(x)'
  BY <1>1, SoundStays DEF TreeInv
<1>3. pc' \in Traversal => HasGroup(Root, "node")'
  BY FileStays DEF TreeInv
<1>4. OpenSound(frame) => OpenSound(frame)'
  BY FileStays DEF OpenSound
<1>5. Listed(frame) => Listed(frame)'
  BY <1>1, FileStays DEF Listed
<1>6. \A i \in DOMAIN callers' : OpenSound(callers[i]) /\ Listed(callers[i]) =>
                                 (OpenSound(callers[i]) /\ Listed(callers[i]))'
  BY <1>1, FileStays DEF OpenSound, Listed
<1>7. Decoding' => (HasGroup(frame.nodes, frame.name) /\ frame.at = At(frame.nodes, frame.name))'
  BY FileStays
<1>8. Decoding' /\ pc' # "nodeType" =>
        (HasDataset(frame.at, "type") /\ frame.type = DataAt(frame.at, "type").value)'
  BY FileStays
<1> QED
  BY <1>2, <1>3, <1>4, <1>5, <1>6, <1>7, <1>8 DEF TreeInv

(* Failing returns no tree.                                                *)
LEMMA TreeFail ==
  ASSUME NEW k, Fail(k)
  PROVE  TreeInv'
  BY DEF Fail, TreeInv

(* The root graph is where the container says.                             *)
LEMMA TreeRoot ==
  ASSUME SafeInv, LedgerInv, TreeInv, ReadRootType, ~\E k : Fail(k), UNCHANGED <<file, call>>
  PROVE  TreeInv'
<1>1. /\ pc = "rootType" /\ pc' = "enter" /\ HasDataset(TopGraph, "type")
      /\ DataAt(TopGraph, "type").value = "NIRGraph"
      /\ frame' = NewFrame(TopGraph, <<>>) /\ UNCHANGED <<callers, tree>>
  BY DEF ReadRootType
<1>2. /\ HasGroup(Root, "node") /\ TypeOK /\ TopGraph \in Groups
  BY <1>1, ContainerAssumption, ContainerFacts DEF SafeInv, TopGraphFound, TopGraph
<1>3. callers = <<>> /\ tree = {}
  BY <1>1 DEF LedgerInv, Outside
<1>4. frame'.path = <<>> /\ frame'.graph = TopGraph /\ frame'.name = NoName
  BY <1>1 DEF NewFrame
<1>5. Place(<<>>, TopGraph) \in Levels[0] /\ IsGraph(TopGraph)
  BY <1>1, <1>2, LevelsUnfold DEF IsGraph
<1>6. Len(<<>>) = 0
  OBVIOUS
<1>7. OpenSound(frame)'
  BY <1>4, <1>5, <1>6, FileStays DEF OpenSound
<1>8. HasGroup(Root, "node")'
  BY <1>2, FileStays
<1>9. tree' = {} /\ DOMAIN callers' = {}
  BY <1>1, <1>3
<1> QED
  BY <1>1, <1>7, <1>8, <1>9 DEF TreeInv, Returned, Decoding, Counting, Inner, Traversal

(* The members of the nodes group are listed; none is decoded yet.         *)
LEMMA TreeList ==
  ASSUME SafeInv, TreeInv, OpenNodes, ~\E k : Fail(k), UNCHANGED <<file, call>>
  PROVE  TreeInv'
<1> DEFINE g == At(frame.graph, "nodes")
<1>1. /\ pc = "nodes" /\ pc' = "members" /\ HasGroup(frame.graph, "nodes")
      /\ frame' = [frame EXCEPT !.nodes = g, !.todo = Members(g)]
      /\ UNCHANGED <<callers, tree>> /\ frame \in Frames
  BY DEF OpenNodes, SafeInv, TypeOK
<1> HIDE DEF g
<1>2. /\ frame'.path = frame.path /\ frame'.graph = frame.graph
      /\ frame'.nodes = g /\ frame'.todo = Members(g)
  BY <1>1 DEF Frames
<1>3. pc \in Traversal /\ pc \in Inner
  BY <1>1 DEF Traversal, Inner
<1>4. Paths' = Paths
  BY <1>1 DEF Paths
<1>5. HasGroup(Root, "node")' /\ OpenSound(frame)' /\ Listed(frame)'
  <2>1. HasGroup(Root, "node") /\ OpenSound(frame)
    BY <1>1, <1>3 DEF TreeInv
  <2> QED
    BY <1>1, <1>2, <2>1, FileStays DEF OpenSound, Listed, g
<1>6. \A i \in DOMAIN callers' : (OpenSound(callers[i]) /\ Listed(callers[i]))'
  BY <1>1, <1>3, <1>4, FileStays DEF TreeInv, OpenSound, Listed
<1>7. \A x \in tree' : Sound(x)'
  BY <1>1, <1>4, SoundStays DEF TreeInv
<1>8. ~Decoding' /\ ~Returned'
  BY <1>1 DEF Decoding, Returned
<1> QED
  BY <1>5, <1>6, <1>7, <1>8 DEF TreeInv

(* A member is opened: the type it has decides, and a nested graph is an   *)
(* occurrence one level deeper.                                            *)
LEMMA TreeNest ==
  ASSUME SafeInv, DepthInv, LedgerInv, TreeInv, ReadNodeType, ~\E k : Fail(k),
         UNCHANGED <<file, call>>
  PROVE  TreeInv'
<1> DEFINE d == DataAt(frame.at, "type")
<1>1. /\ frame \in Frames /\ callers \in Seq(Frames) /\ TypeOK
      /\ frame.name \in Names /\ pc = "nodeType" /\ tree' = tree
      /\ HasDataset(frame.at, "type")
  BY DEF SafeInv, TypeOK, ReadNodeType, NodeNamed
<1>2. /\ Decoding /\ pc \in Traversal /\ pc \in Inner /\ pc \in Counting
      /\ HasGroup(Root, "node") /\ OpenSound(frame) /\ Listed(frame)
      /\ HasGroup(frame.nodes, frame.name) /\ frame.at = At(frame.nodes, frame.name)
      /\ frame.name \in frame.todo /\ Nested
  BY <1>1 DEF TreeInv, LedgerInv, Decoding, Traversal, Inner, Counting
<1>3. CASE /\ frame' = [frame EXCEPT !.type = d.value, !.field = 1]
           /\ pc' = "metadata" /\ UNCHANGED callers
  <2>1. /\ frame'.path = frame.path /\ frame'.todo = frame.todo /\ frame'.name = frame.name
        /\ frame'.nodes = frame.nodes /\ frame'.graph = frame.graph /\ frame'.at = frame.at
        /\ frame'.type = d.value
    BY <1>1, <1>3 DEF Frames
  <2>2. ~Returned'
    BY <1>3 DEF Returned
  <2> QED
    BY <1>1, <1>2, <1>3, <2>1, <2>2, TreeQuiet
<1>4. CASE /\ callers' = Append(callers, frame) /\ pc' = "enter" /\ d.value = "NIRGraph"
           /\ frame' = NewFrame(frame.at, Append(frame.path, frame.name))
  <2> DEFINE p == frame.path
             g == frame.graph
             m == frame.name
             n == Len(callers)
  <2>1. /\ p \in Seq(Names) /\ Len(p) = n /\ n \in Nat /\ Len(Append(p, m)) = n + 1
    BY <1>1, <1>2 DEF Frames, Nested
  <2>2. n + 1 \in 1 .. MaxGraphs
    BY <1>1, <1>2, <2>1, OptionsAssumption DEF DepthInv, TypeOK
  <2>3. m \in Members(At(g, "nodes")) /\ frame.at = At(At(g, "nodes"), m)
    BY <1>2 DEF Listed
  <2>4. Place(p, g) \in Levels[Len(p)] /\ IsGraph(g) /\ HasGroup(g, "nodes")
    BY <1>2 DEF OpenSound, Listed
  <2>5. Place(Append(p, m), frame.at) \in Levels[n + 1]
    <3> HIDE DEF p, g, m, n
    <3> QED
      BY <1>1, <1>2, <2>1, <2>2, <2>3, <2>4, MemberOccurs
  <2>6. IsGraph(frame.at)
    BY <1>1, <1>2, <1>4 DEF IsGraph, Frames
  <2>7. frame'.path = Append(p, m) /\ frame'.graph = frame.at
    BY <1>4 DEF NewFrame
  <2>8. OpenSound(frame)'
    BY <2>1, <2>5, <2>6, <2>7, FileStays DEF OpenSound
  <2>9. Paths' = Paths
    BY <1>1 DEF Paths
  <2>10. \A i \in DOMAIN callers' : OpenSound(callers'[i]) /\ Listed(callers'[i])
    <3>1. \A i \in 1 .. n : callers'[i] = callers[i] /\ OpenSound(callers[i]) /\ Listed(callers[i])
      BY <1>1, <1>2, <1>4 DEF TreeInv
    <3>2. callers'[n + 1] = frame /\ DOMAIN callers' = 1 .. n + 1
      BY <1>1, <1>4
    <3>3. \A i \in 1 .. n + 1 : i \in 1 .. n \/ i = n + 1
      BY <2>1
    <3> HIDE DEF n
    <3> QED
      BY <1>2, <3>1, <3>2, <3>3
  <2>11. \A i \in DOMAIN callers' : (OpenSound(callers[i]) /\ Listed(callers[i]))'
    BY <2>9, <2>10, FileStays DEF OpenSound, Listed
  <2>12. \A x \in tree' : Sound(x)'
    BY <1>1, <2>9, SoundStays DEF TreeInv
  <2>13. HasGroup(Root, "node")'
    BY <1>2, FileStays
  <2> QED
    BY <1>4, <2>8, <2>11, <2>12, <2>13 DEF TreeInv, Returned, Decoding, Counting, Inner
<1> QED
  BY <1>1, <1>3, <1>4 DEF ReadNodeType

(* A leaf joins the tree where the container has it.                       *)
LEMMA TreeLeaf ==
  ASSUME SafeInv, DepthInv, TokenInv, LedgerInv, TreeInv, FinishLeaf, UNCHANGED <<file, call>>
  PROVE  TreeInv'
<1> DEFINE p == Append(frame.path, frame.name)
           e == Entry(p, frame.at, frame.type)
           n == Len(frame.path)
<1>1. /\ frame \in Frames /\ callers \in Seq(Frames) /\ TypeOK
      /\ pc = "entries" /\ pc' = "members" /\ frame.name # NoName
      /\ tree' = tree \cup {e}
      /\ frame' = [frame EXCEPT !.todo = @ \ {frame.name}]
      /\ UNCHANGED callers
  BY DEF SafeInv, TypeOK, FinishLeaf, AtLeaf, Decoded
<1>2. /\ Decoding /\ pc \in Traversal /\ pc \in Inner /\ pc \in Counting
      /\ HasGroup(Root, "node") /\ OpenSound(frame) /\ Listed(frame)
      /\ HasGroup(frame.nodes, frame.name) /\ frame.at = At(frame.nodes, frame.name)
      /\ HasDataset(frame.at, "type") /\ frame.type = DataAt(frame.at, "type").value
      /\ frame.name \in frame.todo /\ Nested /\ frame.type # "NIRGraph"
  BY <1>1 DEF TreeInv, TokenInv, LedgerInv, Decoding, Traversal, Inner, Counting
<1>3. /\ frame'.path = frame.path /\ frame'.graph = frame.graph
      /\ frame'.nodes = frame.nodes /\ frame'.todo = frame.todo \ {frame.name}
  BY <1>1 DEF Frames
<1>4. e.path = p /\ e.object = frame.at /\ e.type = frame.type
  BY DEF Entry
<1>5. Place(p, frame.at) \in Occurrences
  <2>1. frame.path \in Seq(Names) /\ n = Len(callers) /\ n \in Nat
    BY <1>1, <1>2 DEF Frames, Nested
  <2>2. n + 1 \in 1 .. MaxGraphs
    BY <1>1, <1>2, <2>1, OptionsAssumption DEF DepthInv, TypeOK
  <2>3. /\ frame.name \in Members(At(frame.graph, "nodes"))
        /\ frame.at = At(At(frame.graph, "nodes"), frame.name)
    BY <1>2 DEF Listed
  <2>4. /\ Place(frame.path, frame.graph) \in Levels[n] /\ IsGraph(frame.graph)
        /\ HasGroup(frame.graph, "nodes")
    BY <1>2 DEF OpenSound, Listed
  <2>5. Place(p, frame.at) \in Levels[n + 1]
    BY <1>1, <1>2, <2>1, <2>2, <2>3, <2>4, MemberOccurs
  <2>6. n + 1 \in 0 .. MaxGraphs
    BY <2>2
  <2> QED
    BY <2>5, <2>6 DEF Occurrences
<1> HIDE DEF e, n
<1>6. Paths' = Paths \cup {p}
  BY <1>1, <1>4 DEF Paths
<1>7. \A x \in tree' : Sound(x)'
  <2>1. \A x : x = e => Sound(x)'
    <3>1. SUFFICES ASSUME NEW x, x = e PROVE Sound(x)'
      OBVIOUS
    <3>2. /\ Place(x.path, x.object) \in Occurrences
          /\ x.type = DataAt(x.object, "type").value /\ x.type # "NIRGraph"
      BY <1>2, <1>4, <1>5, <3>1
    <3> QED
      BY <3>2, FileStays DEF Sound
  <2>2. \A x \in tree : Sound(x)'
    BY <1>1, <1>6, SoundStays DEF TreeInv
  <2> QED
    BY <1>1, <2>1, <2>2
<1>8. OpenSound(frame)' /\ HasGroup(Root, "node")'
  BY <1>2, <1>3, FileStays DEF OpenSound
<1>9. Listed(frame)'
  <2>1. \A m \in Members(frame.nodes) \ (frame.todo \ {frame.name}) :
          Append(frame.path, m) \in Paths \cup {p}
    BY <1>2 DEF Listed
  <2>2. /\ HasGroup(frame.graph, "nodes") /\ frame.nodes = At(frame.graph, "nodes")
        /\ frame.todo \ {frame.name} \subseteq Members(frame.nodes)
    BY <1>2 DEF Listed
  <2> HIDE DEF p
  <2> QED
    BY <1>1, <1>3, <1>6, <2>1, <2>2, FileStays DEF Listed
<1>10. \A i \in DOMAIN callers' : (OpenSound(callers[i]) /\ Listed(callers[i]))'
  <2>1. \A i \in DOMAIN callers : OpenSound(callers[i]) /\ Listed(callers[i])
    BY <1>1, <1>2 DEF TreeInv
  <2> HIDE DEF p
  <2> QED
    BY <1>1, <1>6, <2>1, FileStays DEF OpenSound, Listed
<1> QED
  BY <1>1, <1>7, <1>8, <1>9, <1>10 DEF TreeInv, Returned, Decoding

(* A graph joins the tree when everything its nodes group holds is there.  *)
LEMMA TreeLeave ==
  ASSUME SafeInv, DepthInv, LedgerInv, TreeInv, LeaveGraph, UNCHANGED <<file, call>>
  PROVE  TreeInv'
<1> DEFINE p == frame.path
           g == frame.graph
           e == Entry(p, g, "NIRGraph")
           n == Len(callers)
<1>1. /\ frame \in Frames /\ callers \in Seq(Frames) /\ TypeOK
      /\ pc = "entries" /\ frame.name = NoName /\ tree' = tree \cup {e}
  BY DEF SafeInv, TypeOK, LeaveGraph
<1>2. /\ pc \in Traversal /\ pc \in Inner /\ pc \in Counting
      /\ HasGroup(Root, "node") /\ OpenSound(frame) /\ Listed(frame)
      /\ frame.todo = {} /\ Nested
  BY <1>1 DEF TreeInv, LedgerInv, Traversal, Inner, Counting
<1>3. e.path = p /\ e.object = g /\ e.type = "NIRGraph"
  BY DEF Entry
<1>4. /\ Place(p, g) \in Occurrences /\ IsGraph(g) /\ HasGroup(g, "nodes")
      /\ \A m \in Members(At(g, "nodes")) : Append(p, m) \in Paths
  <2>1. Len(p) = n /\ n \in 0 .. MaxGraphs
    BY <1>1, <1>2, OptionsAssumption DEF Nested, DepthInv, TypeOK
  <2> QED
    BY <1>2, <2>1 DEF OpenSound, Listed, Occurrences
<1> HIDE DEF e
<1>5. Paths' = Paths \cup {p}
  BY <1>1, <1>3 DEF Paths
<1>6. \A x \in tree' : Sound(x)'
  <2>1. \A x : x = e => Sound(x)'
    <3>1. DataAt(g, "type").value = "NIRGraph"
      BY <1>4 DEF IsGraph
    <3>2. \A m \in Members(At(g, "nodes")) : Append(p, m) \in Paths'
      BY <1>4, <1>5
    <3> HIDE DEF p, g
    <3> QED
      BY <1>3, <1>4, <3>1, <3>2, FileStays DEF Sound
  <2>2. \A x \in tree : Sound(x)'
    BY <1>1, <1>5, SoundStays DEF TreeInv
  <2> QED
    BY <1>1, <2>1, <2>2
<1>7. HasGroup(Root, "node")'
  BY <1>2, FileStays
<1>8. CASE callers = <<>>
  <2>1. pc' = "done"
    BY <1>8 DEF LeaveGraph
  <2>2. p = <<>>
    BY <1>1, <1>2, <1>8, EmptySeq DEF Nested, Frames
  <2> QED
    BY <1>5, <1>6, <1>7, <2>1, <2>2
       DEF TreeInv, Returned, Decoding, Counting, Inner, Traversal
<1>9. CASE callers # <<>>
  <2> DEFINE f == callers[n]
  <2>1. /\ frame' = [f EXCEPT !.todo = @ \ {f.name}]
        /\ callers' = SubSeq(callers, 1, n - 1)
        /\ pc' = "members"
    BY <1>9 DEF LeaveGraph, Decoded
  <2>2. /\ n \in Nat \ {0} /\ f \in Frames /\ n \in 1 .. n
        /\ callers' \in Seq(Frames) /\ Len(callers') = n - 1
        /\ \A i \in 1 .. n - 1 : callers'[i] = callers[i]
    BY <1>1, <1>9, <2>1, PopLast
  <2>3. /\ DOMAIN callers' = 1 .. n - 1 /\ DOMAIN callers = 1 .. n
        /\ \A i \in 1 .. n - 1 : i \in 1 .. n
    BY <1>1, <2>2
  <2>4. \A i \in 1 .. n : OpenSound(callers[i]) /\ Listed(callers[i])
    BY <1>1, <1>2, <2>3 DEF TreeInv
  <2>5. p = Append(f.path, f.name)
    BY <1>2, <1>9 DEF Nested
  <2>6. /\ frame'.path = f.path /\ frame'.graph = f.graph /\ frame'.nodes = f.nodes
        /\ frame'.todo = f.todo \ {f.name}
    BY <2>1, <2>2 DEF Frames
  <2>7. OpenSound(f) /\ Listed(f)
    BY <2>2, <2>4
  <2> HIDE DEF f, p
  <2>8. OpenSound(frame)'
    BY <2>6, <2>7, FileStays DEF OpenSound
  <2>9. Listed(frame)'
    <3>1. \A m \in Members(f.nodes) \ (f.todo \ {f.name}) :
            Append(f.path, m) \in Paths \cup {p}
      BY <2>5, <2>7 DEF Listed
    <3>2. /\ HasGroup(f.graph, "nodes") /\ f.nodes = At(f.graph, "nodes")
          /\ f.todo \ {f.name} \subseteq Members(f.nodes)
      BY <2>7 DEF Listed
    <3> QED
      BY <1>5, <2>6, <3>1, <3>2, FileStays DEF Listed
  <2>10. \A i \in DOMAIN callers' : (OpenSound(callers[i]) /\ Listed(callers[i]))'
    <3>1. \A i \in DOMAIN callers' : OpenSound(callers'[i]) /\ Listed(callers'[i])
      <4> HIDE DEF n
      <4> QED
        BY <2>2, <2>3, <2>4
    <3> HIDE DEF n
    <3> QED
      BY <1>5, <3>1, FileStays DEF OpenSound, Listed
  <2> QED
    BY <1>6, <1>7, <2>1, <2>8, <2>9, <2>10 DEF TreeInv, Returned, Decoding
<1> QED
  BY <1>8, <1>9

(* The first member in order is opened.                                    *)
LEMMA TreeMember ==
  ASSUME SafeInv, TreeInv, OpenMember, ~\E k : Fail(k), UNCHANGED <<file, call>>
  PROVE  TreeInv'
<1>1. PICK n \in frame.todo :
        /\ UNCHANGED <<callers, tree>> /\ pc' = "nodeType" /\ pc = "members"
        /\ HasGroup(frame.nodes, n)
        /\ frame' = [frame EXCEPT !.name = n, !.at = At(frame.nodes, n)]
  BY DEF OpenMember
<1>2. /\ frame'.path = frame.path /\ frame'.todo = frame.todo /\ frame'.name = n
      /\ frame'.graph = frame.graph /\ frame'.nodes = frame.nodes
      /\ frame'.at = At(frame.nodes, n)
  BY <1>1 DEF SafeInv, TypeOK, Frames
<1>3. pc \in Traversal /\ pc \in Counting
  BY <1>1 DEF Traversal, Counting, Inner
<1> QED
  BY <1>1, <1>2, <1>3, TreeQuiet DEF Returned

(* Every step keeps the tree in line with the container.                   *)
LEMMA TreeStep ==
  ASSUME SafeInv, DepthInv, TokenInv, LedgerInv, TreeInv, [Next]_vars
  PROVE  TreeInv'
<1>1. frame \in Frames
  BY DEF SafeInv, TypeOK
<1>2. CASE UNCHANGED vars
  <2>1. Paths' = Paths /\ tree' = tree
    BY <1>2 DEF vars, Paths
  <2>2. \A x \in tree : Sound(x)' <=> Sound(x)
    BY <1>2, <2>1, FileStays DEF vars, Sound
  <2>3. \A f : (OpenSound(f)' <=> OpenSound(f)) /\ (Listed(f)' <=> Listed(f))
    BY <1>2, <2>1, FileStays DEF vars, OpenSound, Listed
  <2>4. OpenSound(frame)' = OpenSound(frame') /\ Listed(frame)' = Listed(frame')
    BY <1>2, <2>1, FileStays DEF vars, OpenSound, Listed
  <2>5. /\ (OpenSound(frame)' <=> OpenSound(frame)) /\ (Listed(frame)' <=> Listed(frame))
        /\ (Decoding' <=> Decoding) /\ (Returned' <=> Returned)
        /\ \A i : (OpenSound(callers[i])' <=> OpenSound(callers[i]))
                    /\ (Listed(callers[i])' <=> Listed(callers[i]))
    BY <1>2, <2>1, FileStays DEF vars, OpenSound, Listed, Decoding, Returned
  <2>6. /\ (HasGroup(Root, "node")' <=> HasGroup(Root, "node"))
        /\ (HasGroup(frame.nodes, frame.name)' <=> HasGroup(frame.nodes, frame.name))
        /\ At(frame.nodes, frame.name)' = At(frame.nodes, frame.name)
        /\ (HasDataset(frame.at, "type")' <=> HasDataset(frame.at, "type"))
        /\ DataAt(frame.at, "type")' = DataAt(frame.at, "type")
    BY <1>2, FileStays DEF vars
  <2> QED
    BY <1>2, <2>1, <2>2, <2>5, <2>6 DEF vars, TreeInv
<1>3. CASE Next /\ \E k : Fail(k)
  BY <1>3, TreeFail
<1>4. CASE Next /\ ~\E k : Fail(k)
  <2>1. UNCHANGED <<file, call>>
    BY <1>4 DEF Next
  <2>2. CASE OpenNodes
    BY <1>4, <2>1, <2>2, TreeList
  <2>3. CASE ReadNodeType
    BY <1>4, <2>1, <2>3, TreeNest
  <2>4. CASE FinishLeaf
    BY <2>1, <2>4, TreeLeaf
  <2>5. CASE LeaveGraph
    BY <2>1, <2>5, TreeLeave
  <2>6. CASE OpenMember
    BY <1>4, <2>1, <2>6, TreeMember
  <2>7. CASE ReadRootType
    BY <1>4, <2>1, <2>7, TreeRoot
  <2>8. CASE OpenFile \/ CheckRootLinks \/ LoadVersion \/ EnforceVersionPolicy
             \/ OpenTopGraph
    <3>1. /\ UNCHANGED <<callers, tree, frame>> /\ pc # "failed"
          /\ pc' \notin Traversal /\ ~Returned' /\ pc' \notin Counting
      BY <1>4, <2>1, <2>8 DEF OpenFile, CheckRootLinks, LoadVersion, EnforceVersionPolicy,
                        OpenTopGraph, Goto, Traversal, Counting, Inner, Returned
    <3>2. ~Decoding'
      BY <3>1 DEF Decoding, Traversal, Inner
    <3> QED
      BY <2>1, <3>1, <3>2, TreeQuiet
  <2>9. CASE EnterGraph \/ CheckGraphLinks
    <3>1. /\ UNCHANGED <<callers, tree, frame>> /\ pc \in {"enter", "graphLinks"}
          /\ pc' \in {"graphLinks", "nodes"}
      BY <1>4, <2>9 DEF EnterGraph, CheckGraphLinks, Goto
    <3>2. ~Decoding' /\ ~Returned' /\ pc \in Traversal /\ pc' \notin Counting
      BY <3>1 DEF Decoding, Traversal, Counting, Inner, Returned
    <3> QED
      BY <2>1, <3>1, <3>2, TreeQuiet
  <2>10. CASE OpenMetadata \/ ReadEntry \/ ReadField
    <3>1. /\ UNCHANGED <<callers, tree>> /\ pc \in {"metadata", "entries"} /\ pc' = "entries"
      BY <1>4, <2>10 DEF OpenMetadata, ReadEntry, ReadField, AtLeaf
    <3>2. /\ frame'.path = frame.path /\ frame'.todo = frame.todo
          /\ frame'.name = frame.name /\ frame'.graph = frame.graph
          /\ frame'.nodes = frame.nodes /\ frame'.at = frame.at /\ frame'.type = frame.type
      BY <1>1, <1>4, <2>10 DEF OpenMetadata, ReadEntry, ReadField, NextField, Frames
    <3>3. pc \in Traversal /\ pc \in Counting /\ ~Returned' /\ (Decoding' => Decoding)
      BY <3>1, <3>2 DEF Traversal, Counting, Inner, Returned, Decoding
    <3>4. Decoding => /\ HasGroup(frame.nodes, frame.name)
                      /\ frame.at = At(frame.nodes, frame.name)
                      /\ HasDataset(frame.at, "type")
                      /\ frame.type = DataAt(frame.at, "type").value
      BY <3>1 DEF TreeInv
    <3> QED
      BY <2>1, <3>1, <3>2, <3>3, <3>4, TreeQuiet
  <2>11. CASE ReadEdges
    <3>1. /\ UNCHANGED <<callers, tree>> /\ pc = "members" /\ pc' = "metadata"
          /\ frame' = [frame EXCEPT !.name = NoName, !.at = frame.graph]
      BY <1>4, <2>11 DEF ReadEdges
    <3>2. /\ frame'.path = frame.path /\ frame'.todo = frame.todo /\ frame'.name = NoName
          /\ frame'.graph = frame.graph /\ frame'.nodes = frame.nodes
      BY <1>1, <3>1 DEF Frames
    <3>3. pc \in Traversal /\ pc \in Counting /\ ~Returned' /\ ~Decoding'
      BY <3>1, <3>2 DEF Traversal, Counting, Inner, Returned, Decoding
    <3> QED
      BY <2>1, <3>1, <3>2, <3>3, TreeQuiet
  <2>12. CASE UnknownType \/ IoFault
    BY <1>4, <2>12 DEF UnknownType, IoFault
  <2> QED
    BY <1>4, <2>2, <2>3, <2>4, <2>5, <2>6, <2>7, <2>8, <2>9, <2>10, <2>11, <2>12 DEF Next
<1> QED
  BY <1>2, <1>3, <1>4

(* At the start nothing is decoded.                                        *)
LEMMA TreeInit == Init => TreeInv
  BY DEF Init, TreeInv, Traversal, Counting, Inner, Decoding, Returned

(* When the root graph is in the tree, everything below it is.             *)
LEMMA WholeTree ==
  ASSUME SafeInv, TreeInv, Returned
  PROVE  tree = Described
<1>1. /\ TypeOK /\ HasGroup(Root, "node") /\ \A x \in tree : Sound(x)
      /\ <<>> \in Paths /\ tree \subseteq Entries /\ MaxGraphs \in Nat
  BY OptionsAssumption DEF SafeInv, TypeOK, TreeInv, Returned
<1> DEFINE S == {d \in Nat : d <= MaxGraphs => \A x \in Levels[d] : x.path \in Paths}
<1>2. 0 \in S
  BY <1>1, LevelsUnfold DEF Place
<1>3. ASSUME NEW d \in Nat, d \in S PROVE d + 1 \in S
  <2>1. SUFFICES ASSUME d + 1 <= MaxGraphs, NEW x \in Levels[d + 1]
                 PROVE  x.path \in Paths
    OBVIOUS
  <2>2. d + 1 \in 1 .. MaxGraphs /\ d + 1 - 1 = d /\ d \in 0 .. MaxGraphs
    BY <1>1, <2>1
  <2>3. PICK y \in Levels[d] : HasNodes(y) /\ x \in Below(y)
    BY <1>1, <2>1, <2>2, LevelsUnfold
  <2>4. PICK n \in Members(At(y.object, "nodes")) : x.path = Append(y.path, n)
    BY <2>3 DEF Below
  <2>5. y.path \in Paths
    BY <1>1, <1>3, <2>2, <2>3
  <2>6. PICK z \in tree : z.path = y.path
    BY <2>5 DEF Paths
  <2>7. y \in Occurrences /\ Place(z.path, z.object) \in Occurrences
    BY <1>1, <2>2, <2>3, <2>6 DEF Occurrences, Sound
  <2>8. Place(z.path, z.object).path = z.path /\ Place(z.path, z.object).object = z.object
    BY DEF Place
  <2>9. z.object = y.object
    BY <1>1, <2>6, <2>7, <2>8, PathLeadsToOne
  <2>10. z.type = "NIRGraph"
    BY <1>1, <2>3, <2>6, <2>9 DEF Sound, HasNodes, IsGraph
  <2> QED
    BY <1>1, <2>4, <2>6, <2>9, <2>10 DEF Sound
<1>4. Nat \subseteq S
  <2> HIDE DEF S
  <2> QED
    BY <1>2, <1>3, SetInduction
<1>5. \A x \in Occurrences : x.path \in Paths
  BY <1>1, <1>4 DEF Occurrences
<1>6. \A z \in tree : z \in Described
  <2>1. TAKE z \in tree
  <2>2. /\ Place(z.path, z.object) \in Occurrences
        /\ z.type = DataAt(z.object, "type").value
    BY <1>1, <2>1 DEF Sound
  <2>3. z = Entry(z.path, z.object, z.type)
    BY <1>1, <2>1 DEF Entries, Entry
  <2>4. Place(z.path, z.object).path = z.path /\ Place(z.path, z.object).object = z.object
    BY DEF Place
  <2> QED
    BY <2>2, <2>3, <2>4 DEF Described
<1>7. ASSUME NEW x \in Occurrences
      PROVE  Entry(x.path, x.object, DataAt(x.object, "type").value) \in tree
  <2>1. PICK z \in tree : z.path = x.path
    BY <1>5, <1>7 DEF Paths
  <2>2. /\ Place(z.path, z.object) \in Occurrences
        /\ z.type = DataAt(z.object, "type").value
    BY <1>1, <2>1 DEF Sound
  <2>3. Place(z.path, z.object).path = z.path /\ Place(z.path, z.object).object = z.object
    BY DEF Place
  <2>4. z.object = x.object
    BY <1>1, <1>7, <2>1, <2>2, <2>3, PathLeadsToOne
  <2>5. z = Entry(z.path, z.object, z.type)
    BY <1>1, <2>1 DEF Entries, Entry
  <2> QED
    BY <2>1, <2>2, <2>4, <2>5
<1> QED
  BY <1>6, <1>7 DEF Described

(* A read that returns has decoded the graph the container describes: every *)
(* node at its path, with its object and its type, none missing and none    *)
(* that is not there, whatever the order and the sharing of the groups.     *)
THEOREM TreeAsDescribed == Spec => []ReturnsDescribed
<1>1. SafeInv /\ TreeInv => ReturnsDescribed
  BY WholeTree DEF ReturnsDescribed, Returned
<1> QED
  BY <1>1, SafeInit, SafeStep, DepthInit, DepthStep, TokenInit, TokenStep, LedgerInit,
     LedgerStep, TreeInit, TreeStep, PTL DEF Spec

-----------------------------------------------------------------------------
(***************************************************************************)
(* The contract of a read, one dataset at a time: what is decoded is what  *)
(* the contract calls readable, and it is charged its plain cost.          *)
(***************************************************************************)

(* What a ledger has room for, in plain arithmetic.                        *)
Affords(r, q) == call.limit[r] # NoLimit => used[r] + q <= call.limit[r]

(* A checked sum that stays below a usize is the sum.                      *)
LEMMA AdmitsExactly ==
  ASSUME TypeOK, LimitsRespected, NEW r \in Resources, NEW q \in Nat
  PROVE  Admits(call.limit[r], used[r], q) <=> Affords(r, q)
<1>1. used[r] \in Usize /\ call.limit[r] \in Limits /\ UsizeMax \in Nat
  BY CallFacts, UsizeAssumption DEF TypeOK
<1>2. q # Overflow /\ used[r] # Overflow
  BY <1>1, OverflowAssumption DEF Usize
<1>3. CASE call.limit[r] = NoLimit
  BY <1>3 DEF Admits, Affords
<1>4. CASE call.limit[r] # NoLimit
  <2>1. call.limit[r] \in Usize
    BY <1>1, <1>4 DEF Limits
  <2> QED
    BY <1>1, <1>2, <1>4, <2>1, OverflowAssumption DEF Admits, Affords, CheckedAdd, Usize
<1> QED
  BY <1>3, <1>4

(* An amount that fits no usize fits no limit.                             *)
LEMMA FitsExactly ==
  ASSUME TypeOK, LimitsRespected, NEW q \in Amounts
  PROVE  /\ Fits(0) /\ Affords("bytes", 0) /\ Affords("edges", 0)
         /\ Fits(q) /\ q # Overflow <=> q \in Nat /\ Affords("bytes", q)
<1>1. {"bytes", "edges"} \subseteq Resources
  BY DEF Resources
<1>2. \A r \in Resources : Affords(r, 0)
  <2>1. \A r \in Resources : used[r] + 0 = used[r]
    BY DEF TypeOK, Usize
  <2> QED
    BY <2>1 DEF Affords, LimitsRespected
<1>3. \A m \in Nat : Fits(m) <=> Affords("bytes", m)
  BY <1>1, AdmitsExactly DEF Fits
<1> QED
  BY <1>1, <1>2, <1>3, OverflowAssumption DEF Amounts

(* A product or a sum that overflows is beyond every limit, and one that   *)
(* does not is the plain one.                                              *)
LEMMA SumFits ==
  ASSUME TypeOK, LimitsRespected, NEW a \in Nat, NEW b \in Nat, NEW w \in Nat
  PROVE  LET q == CheckedAdd(a, CheckedMul(b, w))
         IN  /\ a + b * w \in Nat
             /\ Fits(q) <=> Affords("bytes", a + b * w)
             /\ Fits(q) /\ call.limit["bytes"] # NoLimit => q = a + b * w
<1> DEFINE m == b * w
           q == CheckedAdd(a, CheckedMul(b, w))
<1>1. m \in Nat /\ UsizeMax \in Nat
  BY UsizeAssumption
<1>2. CheckedMul(b, w) = IF m <= UsizeMax THEN m ELSE Overflow
  BY OverflowAssumption DEF CheckedMul
<1> HIDE DEF m
<1>3. q = IF a + m <= UsizeMax THEN a + m ELSE Overflow
  BY <1>1, <1>2, OverflowAssumption DEF CheckedAdd
<1> HIDE DEF q
<1>4. "bytes" \in Resources
  BY DEF Resources
<1>5. used["bytes"] \in Usize /\ call.limit["bytes"] \in Limits
  BY <1>4, CallFacts DEF TypeOK
<1>6. Fits(q) <=> Affords("bytes", a + m)
  <2>1. CASE call.limit["bytes"] = NoLimit
    BY <2>1 DEF Fits, Admits, Affords
  <2>2. CASE a + m <= UsizeMax
    <3>1. a + m \in Nat /\ q = a + m
      BY <1>1, <1>3, <2>2
    <3> QED
      BY <1>4, <3>1, AdmitsExactly DEF Fits
  <2>3. CASE call.limit["bytes"] # NoLimit /\ ~(a + m <= UsizeMax)
    <3>1. call.limit["bytes"] \in Usize
      BY <1>5, <2>3 DEF Limits
    <3>2. ~Affords("bytes", a + m)
      BY <1>1, <1>5, <2>3, <3>1 DEF Affords, Usize
    <3>3. ~Fits(q)
      BY <1>3, <2>3 DEF Fits, Admits, CheckedAdd
    <3> QED
      BY <3>2, <3>3
  <2> QED
    BY <2>1, <2>2, <2>3
<1>7. Fits(q) /\ call.limit["bytes"] # NoLimit => q = a + m
  BY <1>3 DEF Fits, Admits, CheckedAdd
<1>8. a + m \in Nat
  BY <1>1
<1> QED
  BY <1>6, <1>7, <1>8 DEF m, q

(* A buffer larger than one that fits is the larger claim.                 *)
LEMMA AffordsLess ==
  ASSUME TypeOK, NEW r \in Resources, NEW p \in Nat, NEW q \in Nat, p <= q, Affords(r, q)
  PROVE  Affords(r, p)
<1>1. used[r] \in Usize /\ call.limit[r] \in Limits
  BY CallFacts DEF TypeOK
<1> QED
  BY <1>1, NoLimitAssumption, UsizeAssumption DEF Affords, Limits, Usize

(* Numbers, strings and extents decode when the contract says so and the   *)
(* byte ledger has room for them.                                          *)
LEMMA DecodersExact ==
  ASSUME TypeOK, LimitsRespected, NEW d \in DatasetRecords, d.secure
  PROVE  /\ OneString(d) = <<>> <=> IsText(d) /\ Affords("bytes", d.cost)
         /\ Numbers(d) = <<>> <=> IsNumeric(d) /\ Affords("bytes", d.cost)
         /\ Countable(d) = <<>> <=> d.count # Overflow
         /\ Strings(d) = <<>> <=>
              d.class = "string" /\ d.cost # Overflow /\ Affords("bytes", d.cost)
<1>1. d.cost \in Amounts /\ d.count \in Amounts
  BY DatasetFacts
<1>2. Fits(0) /\ (Fits(d.cost) /\ d.cost # Overflow <=> d.cost # Overflow /\ Affords("bytes", d.cost))
  BY <1>1, FitsExactly DEF Amounts
<1>3. d.count = 1 => d.count # Overflow
  BY OverflowAssumption
<1> QED
  BY <1>2, <1>3, OneStringIsRefusals, NumbersIsRefusals, CountableIsRefusals,
     StringsIsRefusals DEF IsText, IsNumeric

(* The verdict on a dataset is the contract's, and a decoding that fits is *)
(* charged its plain cost.                                                 *)
LEMMA VerdictExact ==
  ASSUME TypeOK, LimitsRespected, NEW d \in DatasetRecords, NEW want \in Wants
  PROVE  /\ Verdict(d, want) = "none" <=>
              /\ Is(d, want) /\ Affords("bytes", Bytes(d, want))
              /\ want = "edges" => Affords("edges", EdgeCount(d))
         /\ Is(d, want) => Bytes(d, want) \in Nat
         /\ Verdict(d, want) = "none" /\ call.limit["bytes"] # NoLimit =>
              Cost(d, want) = Bytes(d, want)
<1>1. /\ d.cost \in Amounts /\ d.count \in Amounts /\ d.rank \in {0, 1, 2}
      /\ WordSize \in Nat /\ PairSize \in Nat /\ EdgeCount(d) \in Nat
  BY DatasetFacts, CostIsAmount, OptionsAssumption, UsizeAssumption DEF Usize, DatasetRecords
<1>2. Is(d, want) => d.secure
  BY DEF Is, IsText, IsNumeric, IsExtents, IsMetadata, IsEdgeList, Wants
<1>3. CASE ~d.secure
  BY <1>2, <1>3, VerdictIsChecks
<1>4. CASE d.secure /\ want \in {"text", "tensor", "ints", "int"}
  <2>1. Bytes(d, want) = d.cost /\ Cost(d, want) = d.cost /\ want # "edges"
    BY <1>4 DEF Bytes, Cost
  <2>2. Checks(d, want) = <<>> <=> Is(d, want) /\ Affords("bytes", d.cost)
    BY <1>4, DecodersExact, Integers64IsRefusals, SinglesAreRefusals
       DEF Checks, Is
  <2>3. Is(d, want) => d.cost \in Nat
    BY <1>1, <1>4 DEF Is, IsText, IsNumeric, Amounts
  <2> QED
    BY <1>4, <2>1, <2>2, <2>3, VerdictIsChecks
<1>5. CASE d.secure /\ want \in {"padding", "metadata"}
  <2>1. Bytes(d, want) = d.cost /\ Cost(d, want) = d.cost /\ want # "edges"
    BY <1>5 DEF Bytes, Cost
  <2>2. Checks(d, want) = <<>> <=> Is(d, want) /\ Affords("bytes", d.cost)
    <3>1. CASE want = "padding"
      BY <1>5, <3>1, DecodersExact, Integers64IsRefusals, PaddingIsRefusals
         DEF Checks, Is, IsText
    <3>2. CASE want = "metadata"
      BY <1>5, <3>2, DecodersExact, MetadataIsRefusals DEF Checks, Is, IsMetadata
    <3> QED
      BY <1>5, <3>1, <3>2
  <2>3. Is(d, want) => d.cost \in Nat
    BY <1>1, <1>5 DEF Is, IsText, IsNumeric, IsMetadata, Amounts
  <2> QED
    BY <1>5, <2>1, <2>2, <2>3, VerdictIsChecks
<1>6. CASE d.secure /\ want \in {"extents", "extent"}
  <2> DEFINE q == d.cost + d.count * WordSize
  <2>1. Bytes(d, want) = q /\ Cost(d, want) = ExtentCost(d) /\ want # "edges"
    BY <1>6 DEF Bytes, Cost
  <2>2. Checks(d, want) = <<>> => Extents(d) = <<>>
    BY <1>6, SinglesAreRefusals DEF Checks
  <2>3. Extents(d) = <<>> <=> /\ IsExtents(d) /\ Affords("bytes", d.cost)
                             /\ Fits(ExtentCost(d))
    BY <1>6, DecodersExact, Integers64IsRefusals, ExtentsIsRefusals DEF IsExtents
  <2>4. IsExtents(d) => d.cost \in Nat /\ d.count \in Nat
    BY <1>1 DEF IsExtents, IsNumeric, Amounts
  <2>5. d.cost \in Nat /\ d.count \in Nat =>
          /\ q \in Nat /\ d.cost <= q
          /\ Fits(ExtentCost(d)) <=> Affords("bytes", q)
          /\ Fits(ExtentCost(d)) /\ call.limit["bytes"] # NoLimit => ExtentCost(d) = q
    <3>1. SUFFICES ASSUME d.cost \in Nat, d.count \in Nat
                   PROVE  /\ q \in Nat /\ d.cost <= q
                          /\ Fits(ExtentCost(d)) <=> Affords("bytes", q)
                          /\ Fits(ExtentCost(d)) /\ call.limit["bytes"] # NoLimit =>
                               ExtentCost(d) = q
      OBVIOUS
    <3>2. d.count * WordSize \in Nat
      BY <1>1, <3>1
    <3>3. d.cost <= q
      BY <3>1, <3>2
    <3> QED
      BY <1>1, <3>1, <3>3, SumFits DEF ExtentCost
  <2> HIDE DEF q
  <2>6. IsExtents(d) => (Affords("bytes", q) => Affords("bytes", d.cost))
    BY <2>4, <2>5, AffordsLess DEF Resources
  <2>7. Extents(d) = <<>> <=> IsExtents(d) /\ Affords("bytes", q)
    BY <2>3, <2>4, <2>5, <2>6
  <2>8. Checks(d, want) = <<>> <=> Is(d, want) /\ Affords("bytes", q)
    BY <1>6, <2>7, SinglesAreRefusals DEF Checks, Is
  <2>9. Is(d, want) => q \in Nat
    BY <1>6, <2>4, <2>5 DEF Is
  <2>10. Checks(d, want) = <<>> /\ call.limit["bytes"] # NoLimit => ExtentCost(d) = q
    BY <2>2, <2>3, <2>4, <2>5
  <2> QED
    BY <1>6, <2>1, <2>8, <2>9, <2>10, VerdictIsChecks
<1>7. CASE d.secure /\ want = "edges"
  <2>1. Is(d, want) <=> IsEdgeList(d)
    BY <1>7 DEF Is
  <2>2. Checks(d, want) = <<>> <=> EdgeList(d) = <<>>
    BY <1>7 DEF Checks
  <2>3. CASE d.count = 0
    <3>1. /\ Bytes(d, want) = 0 /\ Cost(d, want) = 0 /\ EdgeCount(d) = 0
          /\ d.count # Overflow
      BY <1>7, <2>3, OverflowAssumption DEF Bytes, Cost, EdgeCost, EdgeCount
    <3>2. Affords("bytes", 0) /\ Affords("edges", 0)
      BY <1>1, FitsExactly
    <3>3. IsEdgeList(d)
      BY <1>7, <2>3, <3>1 DEF IsEdgeList
    <3> QED
      BY <1>7, <2>1, <2>2, <2>3, <3>1, <3>2, <3>3, VerdictIsChecks, EdgeListIsRefusals
  <2>4. CASE d.count = Overflow
    BY <1>7, <2>1, <2>2, <2>4, OverflowAssumption, VerdictIsChecks, EdgeListIsRefusals
       DEF IsEdgeList
  <2>5. CASE d.count \in Nat \ {0}
    <3> DEFINE half == d.count \div 2
               q == d.cost + half * PairSize
    <3>1. d.count # Overflow /\ EdgeCount(d) = half /\ half \in Nat
      BY <2>5, OverflowAssumption DEF EdgeCount
    <3>2. /\ Bytes(d, want) = q
          /\ Cost(d, want) = CheckedAdd(d.cost, CheckedMul(half, PairSize))
      BY <1>7, <2>5, <3>1 DEF Bytes, Cost, EdgeCost
    <3>3. EdgeList(d) = <<>> <=>
            /\ d.paired /\ Admits(call.limit["edges"], used["edges"], half)
            /\ d.class = "string" /\ d.cost # Overflow /\ Affords("bytes", d.cost)
            /\ Fits(Cost(d, want))
      BY <1>1, <1>7, <2>5, <3>1, EdgeListIsRefusals, FitsExactly DEF Cost, Amounts
    <3>4. Admits(call.limit["edges"], used["edges"], half) <=> Affords("edges", half)
      BY <3>1, AdmitsExactly DEF Resources
    <3>5. d.cost \in Nat =>
            /\ q \in Nat /\ d.cost <= q
            /\ Fits(Cost(d, want)) <=> Affords("bytes", q)
            /\ Fits(Cost(d, want)) /\ call.limit["bytes"] # NoLimit => Cost(d, want) = q
      <4>1. SUFFICES ASSUME d.cost \in Nat
                     PROVE  /\ q \in Nat /\ d.cost <= q
                            /\ Fits(Cost(d, want)) <=> Affords("bytes", q)
                            /\ Fits(Cost(d, want)) /\ call.limit["bytes"] # NoLimit =>
                                 Cost(d, want) = q
        OBVIOUS
      <4> HIDE DEF half
      <4>2. half * PairSize \in Nat
        BY <1>1, <3>1
      <4>3. d.cost <= q
        BY <4>1, <4>2
      <4>4. LET c == CheckedAdd(d.cost, CheckedMul(half, PairSize))
            IN  /\ q \in Nat
                /\ Fits(c) <=> Affords("bytes", q)
                /\ Fits(c) /\ call.limit["bytes"] # NoLimit => c = q
        BY <1>1, <3>1, <4>1, SumFits
      <4> HIDE DEF q
      <4> QED
        BY <3>2, <4>3, <4>4
    <3> HIDE DEF q, half
    <3>6. d.cost \in Nat => (Affords("bytes", q) => Affords("bytes", d.cost))
      BY <3>5, AffordsLess DEF Resources
    <3>7. IsEdgeList(d) <=> d.paired /\ d.class = "string" /\ d.cost # Overflow
      BY <1>7, <2>5, <3>1 DEF IsEdgeList
    <3>8. d.cost # Overflow <=> d.cost \in Nat
      BY <1>1, OverflowAssumption DEF Amounts
    <3>9. EdgeList(d) = <<>> <=>
            IsEdgeList(d) /\ Affords("bytes", q) /\ Affords("edges", half)
      BY <3>3, <3>4, <3>5, <3>6, <3>7, <3>8
    <3> QED
      BY <1>7, <2>1, <2>2, <3>1, <3>2, <3>3, <3>5, <3>7, <3>8, <3>9, VerdictIsChecks
  <2> QED
    BY <1>1, <2>3, <2>4, <2>5 DEF Amounts
<1> QED
  BY <1>3, <1>4, <1>5, <1>6, <1>7 DEF Wants

-----------------------------------------------------------------------------
(***************************************************************************)
(* Totals.  A total counts the units of its items, so adding an item adds  *)
(* its amount, and a part of the items totals no more than all of them.    *)
(***************************************************************************)
Countables(S) == IsFiniteSet(S) /\ \A x \in S : x.amount \in Nat

(* The values a function takes on a finite set.                            *)
LEMMA FiniteRange ==
  ASSUME NEW S, IsFiniteSet(S), NEW T, NEW f \in [S -> T], \A y \in T : \E x \in S : f[x] = y
  PROVE  /\ IsFiniteSet(T) /\ Cardinality(T) <= Cardinality(S)
         /\ (\A x, y \in S : f[x] = f[y] => x = y) => Cardinality(T) = Cardinality(S)
<1>1. f \in Surjection(S, T)
  BY DEF Surjection
<1>2. (\A x, y \in S : f[x] = f[y] => x = y) => f \in Injection(S, T)
  BY DEF Injection, IsInjective
<1> QED
  BY <1>1, <1>2, FS_Surjection

(* The units of one item.                                                  *)
LEMMA UnitsOfOne ==
  ASSUME NEW x, x.amount \in Nat
  PROVE  IsFiniteSet({x} \X (1 .. x.amount)) /\ Cardinality({x} \X (1 .. x.amount)) = x.amount
<1>1. IsFiniteSet({x}) /\ Cardinality({x}) = 1
  BY FS_Singleton
<1>2. IsFiniteSet(1 .. x.amount) /\ Cardinality(1 .. x.amount) = x.amount
  <2> DEFINE n == x.amount
  <2>1. n \in Nat
    OBVIOUS
  <2> HIDE DEF n
  <2>2. IsFiniteSet(1 .. n) /\ Cardinality(1 .. n) = IF 1 > n THEN 0 ELSE n - 1 + 1
    BY <2>1, FS_Interval
  <2>3. (IF 1 > n THEN 0 ELSE n - 1 + 1) = n
    BY <2>1
  <2> QED
    BY <2>2, <2>3 DEF n
<1>3. 1 * x.amount = x.amount
  OBVIOUS
<1> QED
  BY <1>1, <1>2, <1>3, FS_Product

(* There are finitely many units.                                          *)
LEMMA UnitsFinite ==
  ASSUME NEW S, Countables(S)
  PROVE  /\ IsFiniteSet(UNION {{x} \X (1 .. x.amount) : x \in S})
         /\ Total(S) \in Nat
<1> DEFINE U == {{x} \X (1 .. x.amount) : x \in S}
           f == [x \in S |-> {x} \X (1 .. x.amount)]
<1>1. IsFiniteSet(S) /\ f \in [S -> U] /\ \A y \in U : \E x \in S : f[x] = y
  BY DEF Countables
<1>2. \A T \in U : IsFiniteSet(T)
  <2>1. \A x \in S : IsFiniteSet({x} \X (1 .. x.amount))
    BY UnitsOfOne DEF Countables
  <2> QED
    BY <2>1
<1> HIDE DEF U, f
<1>3. IsFiniteSet(U)
  BY <1>1, FiniteRange
<1>4. IsFiniteSet(UNION U)
  BY <1>2, <1>3, FS_UNION
<1>5. Cardinality(UNION U) \in Nat
  BY <1>4, FS_CardinalityType
<1> QED
  BY <1>4, <1>5 DEF U, Total

(* Nothing has no units.                                                   *)
LEMMA TotalOfNone == Countables({}) /\ Total({}) = 0
<1>1. UNION {{x} \X (1 .. x.amount) : x \in {}} = {}
  OBVIOUS
<1> QED
  BY <1>1, FS_EmptySet DEF Total, Countables

(* One more item adds its amount.                                          *)
LEMMA TotalAdd ==
  ASSUME NEW S, Countables(S), NEW x, x.amount \in Nat, x \notin S
  PROVE  Countables(S \cup {x}) /\ Total(S \cup {x}) = Total(S) + x.amount
<1> DEFINE U == UNION {{y} \X (1 .. y.amount) : y \in S}
           V == {x} \X (1 .. x.amount)
           W == UNION {{y} \X (1 .. y.amount) : y \in S \cup {x}}
<1>1. W = U \cup V
  OBVIOUS
<1>2. U \cap V = {}
  OBVIOUS
<1>3. IsFiniteSet(U) /\ IsFiniteSet(V) /\ Cardinality(V) = x.amount /\ Cardinality(U) \in Nat
  BY UnitsFinite, UnitsOfOne DEF Total
<1>4. Total(S) = Cardinality(U) /\ Total(S \cup {x}) = Cardinality(W)
  BY DEF Total
<1> HIDE DEF U, V, W
<1>5. Cardinality(U \cup V) = Cardinality(U) + Cardinality(V) - Cardinality({})
  BY <1>2, <1>3, FS_Union
<1>6. Cardinality(U \cup V) = Cardinality(U) + x.amount
  BY <1>3, <1>5, FS_EmptySet
<1>7. Countables(S \cup {x})
  BY FS_AddElement DEF Countables
<1> QED
  BY <1>1, <1>4, <1>6, <1>7

(* A part totals no more than the whole.                                   *)
LEMMA TotalOfPart ==
  ASSUME NEW S, Countables(S), NEW T, T \subseteq S
  PROVE  Countables(T) /\ Total(T) <= Total(S)
<1> DEFINE U == UNION {{y} \X (1 .. y.amount) : y \in S}
           V == UNION {{y} \X (1 .. y.amount) : y \in T}
<1>1. V \subseteq U
  OBVIOUS
<1>2. IsFiniteSet(U)
  BY UnitsFinite
<1>3. Total(S) = Cardinality(U) /\ Total(T) = Cardinality(V)
  BY DEF Total
<1> HIDE DEF U, V
<1>4. Cardinality(V) <= Cardinality(U)
  BY <1>1, <1>2, FS_Subset
<1>5. IsFiniteSet(T)
  BY FS_Subset DEF Countables
<1> QED
  BY <1>3, <1>4, <1>5 DEF Countables

(* What a total of everything fits leaves room for each part.              *)
LEMMA RoomForOneMore ==
  ASSUME NEW S, Countables(S), NEW T, T \subseteq S, NEW x \in S, x \notin T
  PROVE  /\ Total(T) + x.amount <= Total(S)
         /\ Countables(T \cup {x}) /\ Total(T \cup {x}) = Total(T) + x.amount
         /\ Total(T) \in Nat /\ Total(S) \in Nat
<1>1. Countables(T) /\ x.amount \in Nat
  BY TotalOfPart DEF Countables
<1>2. T \cup {x} \subseteq S
  OBVIOUS
<1>3. Total(T \cup {x}) <= Total(S)
  BY <1>2, TotalOfPart
<1> QED
  BY <1>1, <1>3, TotalAdd, UnitsFinite

-----------------------------------------------------------------------------
(***************************************************************************)
(* What the container describes is finite, and a readable part of it adds  *)
(* a countable amount.                                                     *)
(***************************************************************************)

(* There are finitely many occurrences.                                    *)
LEMMA OccurrencesFinite ==
  ASSUME TypeOK, HasGroup(Root, "node")
  PROVE  IsFiniteSet(Occurrences)
<1> DEFINE S == {d \in Nat : d <= MaxGraphs => IsFiniteSet(Levels[d])}
<1>1. MaxGraphs \in Nat
  BY OptionsAssumption
<1>2. 0 \in S
  BY <1>1, LevelsUnfold, FS_Singleton
<1>3. \A x : IsFiniteSet(Below(x))
  <2>1. TAKE x
  <2> DEFINE nodes == At(x.object, "nodes")
             f == [n \in Members(nodes) |->
                     [path |-> Append(x.path, n), object |-> At(nodes, n)]]
  <2>2. f \in [Members(nodes) -> Below(x)] /\ \A y \in Below(x) : \E n \in Members(nodes) : f[n] = y
    BY DEF Below
  <2>3. IsFiniteSet(Members(nodes))
    <3>1. Members(nodes) \in SUBSET Names
      BY DEF Members
    <3> QED
      BY <3>1, ContainerAssumption, FS_Subset
  <2> HIDE DEF f, nodes
  <2> QED
    BY <2>2, <2>3, FiniteRange
<1>4. ASSUME NEW d \in Nat, d \in S PROVE d + 1 \in S
  <2>1. SUFFICES ASSUME d + 1 <= MaxGraphs PROVE IsFiniteSet(Levels[d + 1])
    OBVIOUS
  <2>2. d + 1 \in 1 .. MaxGraphs /\ d + 1 - 1 = d /\ d \in 0 .. MaxGraphs
    BY <1>1, <2>1
  <2> DEFINE P == {y \in Levels[d] : HasNodes(y)}
             R == {Below(x) : x \in P}
             f == [x \in P |-> Below(x)]
  <2>3. IsFiniteSet(P)
    BY <1>4, <2>1, <2>2, FS_Subset
  <2>4. f \in [P -> R] /\ \A y \in R : \E x \in P : f[x] = y
    OBVIOUS
  <2>5. \A y \in R : IsFiniteSet(y)
    BY <1>3
  <2>6. Levels[d + 1] = UNION R
    BY <2>2, LevelsUnfold
  <2> HIDE DEF P, R, f
  <2>7. IsFiniteSet(R)
    BY <2>3, <2>4, FiniteRange
  <2> QED
    BY <2>5, <2>6, <2>7, FS_UNION
<1>5. Nat \subseteq S
  <2> HIDE DEF S
  <2> QED
    BY <1>2, <1>4, SetInduction
<1> DEFINE D == {Levels[d] : d \in 0 .. MaxGraphs}
           g == [d \in 0 .. MaxGraphs |-> Levels[d]]
<1>6. g \in [0 .. MaxGraphs -> D] /\ \A y \in D : \E d \in 0 .. MaxGraphs : g[d] = y
  OBVIOUS
<1>7. \A y \in D : IsFiniteSet(y)
  BY <1>1, <1>5
<1>8. Occurrences = UNION D
  BY DEF Occurrences
<1>9. IsFiniteSet(0 .. MaxGraphs)
  BY <1>1, FS_Interval
<1> HIDE DEF D, g
<1>10. IsFiniteSet(D)
  BY <1>6, <1>9, FiniteRange
<1> QED
  BY <1>7, <1>8, <1>10, FS_UNION

(* The fields a decoder reads.                                             *)
LEMMA PlanFacts ==
  ASSUME NEW o, DataAt(o, "type").value \in DOMAIN FieldPlan
  PROVE  /\ Plan(o) = FieldPlan[DataAt(o, "type").value]
         /\ Plan(o) \in Seq(FieldSteps) /\ DefaultsFollow(Plan(o))
  BY OptionsAssumption DEF Plan

(* A readable dataset has a countable cost.                                *)
LEMMA ReadableAmount ==
  ASSUME SafeInv, NEW o \in Groups, NEW n \in Names, NEW want \in Wants,
         IsDatasetAt(o, n, want)
  PROVE  /\ DataAt(o, n) \in DatasetRecords /\ Bytes(DataAt(o, n), want) \in Nat
         /\ DataAt(o, n).bytes \in Nat /\ EdgeCount(DataAt(o, n)) \in Nat
<1>1. DataAt(o, n) \in DatasetRecords /\ Is(DataAt(o, n), want)
  BY ContainerFacts DEF SafeInv, IsDatasetAt
<1> QED
  BY <1>1, VerdictExact, DatasetFacts, CostIsAmount, UsizeAssumption DEF SafeInv, Usize

(* A field, absent or not, adds a countable amount when the fields up to   *)
(* it are readable: a default is shaped like a field before it.            *)
LEMMA FieldAmount ==
  ASSUME SafeInv, NEW o \in Groups, DataAt(o, "type").value \in DOMAIN FieldPlan,
         NEW i \in DOMAIN Plan(o), NEW p,
         \A j \in DOMAIN Plan(o) : j <= i => FieldReadable(o, j)
  PROVE  FieldItem(p, o, i).amount \in Nat
<1> DEFINE step == Plan(o)[i]
<1>1. /\ Plan(o) \in Seq(FieldSteps) /\ DefaultsFollow(Plan(o)) /\ i \in Nat
      /\ \A j \in DOMAIN Plan(o) : j \in Nat /\ Plan(o)[j] \in FieldSteps
  BY PlanFacts
<1>2. step \in FieldSteps
  BY <1>1
<1>3. step.field \in Names /\ step.want \in Wants
  BY <1>2 DEF FieldSteps
<1>4. FieldReadable(o, i)
  BY <1>1
<1>5. CASE Linked(o, step.field)
  <2>1. IsDatasetAt(o, step.field, step.want)
    BY <1>4, <1>5 DEF FieldReadable
  <2>2. Bytes(DataAt(o, step.field), step.want) \in Nat
    BY <1>3, <2>1, ReadableAmount
  <2> QED
    BY <1>5, <2>2 DEF FieldItem, Item
<1>6. CASE ~Linked(o, step.field) /\ step.when = "default"
  <2>1. PICK j \in DOMAIN Plan(o) :
          j < i /\ Plan(o)[j].when = "required" /\ Plan(o)[j].field = step.like
    BY <1>1, <1>6 DEF DefaultsFollow
  <2>2. FieldReadable(o, j) /\ Plan(o)[j] \in FieldSteps
    BY <1>1, <2>1
  <2>3. IsDatasetAt(o, Plan(o)[j].field, Plan(o)[j].want)
    BY <2>1, <2>2 DEF FieldReadable
  <2>4. Plan(o)[j].field \in Names /\ Plan(o)[j].want \in Wants
    BY <2>2 DEF FieldSteps
  <2>5. DataAt(o, step.like).bytes \in Nat
    BY <2>1, <2>3, <2>4, ReadableAmount
  <2> QED
    BY <1>6, <2>5 DEF FieldItem, Item
<1>7. CASE ~Linked(o, step.field) /\ step.when # "default"
  BY <1>7 DEF FieldItem, Item
<1> QED
  BY <1>5, <1>6, <1>7

(* The parts of a readable object are finitely many countable amounts.     *)
LEMMA ObjectItems ==
  ASSUME SafeInv, NEW o, ObjectReadable(o), NEW p
  PROVE  Countables(ItemsOf(p, o))
<1>1. o \in Groups /\ IsDatasetAt(o, "type", "text") /\ MetadataReadable(o)
  BY DEF ObjectReadable
<1>2. Countables({TypeItem(p, o)})
  <2>1. Bytes(DataAt(o, "type"), "text") \in Nat
    BY <1>1, KnownNames, ReadableAmount DEF Wants
  <2>2. TypeItem(p, o).amount = Bytes(DataAt(o, "type"), "text")
    BY DEF TypeItem, Item, Bytes
  <2> QED
    BY <2>1, <2>2, FS_Singleton DEF Countables
<1>3. Countables({EntryItem(p, o, k) : k \in Keys(o)})
  <2> DEFINE T == {EntryItem(p, o, k) : k \in Keys(o)}
             f == [k \in Keys(o) |-> EntryItem(p, o, k)]
  <2>1. Keys(o) \in SUBSET Names
    BY DEF Keys, Members
  <2>2. IsFiniteSet(Keys(o))
    BY <2>1, ContainerAssumption, FS_Subset
  <2>3. f \in [Keys(o) -> T] /\ \A y \in T : \E k \in Keys(o) : f[k] = y
    OBVIOUS
  <2>4. \A k \in Keys(o) : EntryItem(p, o, k).amount \in Nat
    <3>1. TAKE k \in Keys(o)
    <3>2. Linked(o, "metadata") /\ k \in Members(At(o, "metadata")) /\ k \in Names
      BY <2>1, <3>1 DEF Keys
    <3>3. HasGroup(o, "metadata") /\ IsDatasetAt(At(o, "metadata"), k, "metadata")
      BY <1>1, <3>2 DEF MetadataReadable
    <3>4. At(o, "metadata") \in Groups
      BY <3>3 DEF HasGroup
    <3>5. Bytes(DataAt(At(o, "metadata"), k), "metadata") \in Nat
      BY <3>2, <3>3, <3>4, ReadableAmount DEF Wants
    <3> QED
      BY <3>5 DEF EntryItem, Item, Bytes
  <2>5. \A y \in T : y.amount \in Nat
    BY <2>4
  <2> HIDE DEF f, T
  <2>6. IsFiniteSet(T)
    BY <2>2, <2>3, FiniteRange
  <2> QED
    BY <2>5, <2>6 DEF Countables, T
<1>4. CASE IsGraph(o)
  <2>1. IsDatasetAt(o, "edges", "edges")
    BY <1>4 DEF ObjectReadable, GraphReadable
  <2>2. Bytes(DataAt(o, "edges"), "edges") \in Nat
    BY <1>1, <2>1, KnownNames, ReadableAmount DEF Wants
  <2>3. EdgeItem(p, o).amount = Bytes(DataAt(o, "edges"), "edges")
    BY DEF EdgeItem, Item
  <2>4. Countables({EdgeItem(p, o)})
    BY <2>2, <2>3, FS_Singleton DEF Countables
  <2> QED
    BY <1>2, <1>3, <1>4, <2>4, FS_Union DEF ItemsOf, Countables
<1>5. CASE ~IsGraph(o)
  <2> DEFINE T == {FieldItem(p, o, i) : i \in DOMAIN Plan(o)}
             f == [i \in DOMAIN Plan(o) |-> FieldItem(p, o, i)]
  <2>1. LeafReadable(o)
    BY <1>5 DEF ObjectReadable
  <2>2. \A i \in DOMAIN Plan(o) : FieldItem(p, o, i).amount \in Nat
    BY <1>1, <2>1, FieldAmount DEF LeafReadable
  <2>3. IsFiniteSet(DOMAIN Plan(o))
    <3>1. Plan(o) \in Seq(FieldSteps)
      BY <2>1, PlanFacts DEF LeafReadable
    <3>2. DOMAIN Plan(o) = 1 .. Len(Plan(o)) /\ Len(Plan(o)) \in Nat
      BY <3>1
    <3> QED
      BY <3>2, FS_Interval
  <2>4. f \in [DOMAIN Plan(o) -> T] /\ \A y \in T : \E i \in DOMAIN Plan(o) : f[i] = y
    OBVIOUS
  <2>5. \A y \in T : y.amount \in Nat
    BY <2>2
  <2> HIDE DEF f, T
  <2>6. IsFiniteSet(T)
    BY <2>3, <2>4, FiniteRange
  <2>7. ItemsOf(p, o) = {TypeItem(p, o)} \cup {EntryItem(p, o, k) : k \in Keys(o)} \cup T
    BY <1>5 DEF ItemsOf, T
  <2> QED
    BY <1>2, <1>3, <2>5, <2>6, <2>7, FS_Union DEF Countables
<1> QED
  BY <1>4, <1>5

(* The contract's totals are of finitely many countable amounts.           *)
LEMMA DescribedItems ==
  ASSUME SafeInv, Acceptable, call.entry = "read"
  PROVE  /\ HasGroup(Root, "node") /\ IsGraph(TopGraph)
         /\ \A x \in Occurrences : ObjectReadable(x.object)
         /\ IsFiniteSet(Occurrences) /\ IsFiniteSet(GraphOccurrences)
         /\ Countables(ByteItems) /\ Countables(EdgeItems)
<1>1. /\ HasGroup(Root, "node") /\ IsGraph(TopGraph) /\ VersionReadable
      /\ \A x \in Occurrences : ObjectReadable(x.object)
  BY DEF Acceptable
<1>2. IsFiniteSet(Occurrences)
  BY <1>1, OccurrencesFinite DEF SafeInv
<1>3. IsFiniteSet(GraphOccurrences)
  BY <1>2, FS_Subset DEF GraphOccurrences
<1>4. Countables(VersionItems)
  <2>1. CASE ~Linked(Root, "version")
    BY <2>1, FS_EmptySet DEF VersionItems, Countables
  <2>2. CASE Linked(Root, "version")
    <3>1. IsDatasetAt(Root, "version", "text")
      BY <1>1, <2>2 DEF VersionReadable
    <3>2. Bytes(DataAt(Root, "version"), "text") \in Nat
      BY <3>1, KnownNames, ContainerAssumption, ReadableAmount DEF Wants
    <3>3. VersionItem.amount = Bytes(DataAt(Root, "version"), "text")
      BY DEF VersionItem, Item, Bytes
    <3> QED
      BY <2>2, <3>2, <3>3, FS_Singleton DEF VersionItems, Countables
  <2> QED
    BY <2>1, <2>2
<1>5. Countables(UNION {ItemsOf(x.path, x.object) : x \in Occurrences})
  <2> DEFINE R == {ItemsOf(x.path, x.object) : x \in Occurrences}
             f == [x \in Occurrences |-> ItemsOf(x.path, x.object)]
  <2>1. \A y \in R : Countables(y)
    BY <1>1, ObjectItems
  <2>2. f \in [Occurrences -> R] /\ \A y \in R : \E x \in Occurrences : f[x] = y
    OBVIOUS
  <2> HIDE DEF R, f
  <2>3. IsFiniteSet(R)
    BY <1>2, <2>2, FiniteRange
  <2>4. IsFiniteSet(UNION R)
    BY <2>1, <2>3, FS_UNION DEF Countables
  <2>5. \A z \in UNION R : z.amount \in Nat
    BY <2>1 DEF Countables
  <2> QED
    BY <2>4, <2>5 DEF Countables, R
<1>6. Countables(EdgeItems)
  <2> DEFINE f == [x \in GraphOccurrences |-> EdgesItem(x.path, x.object)]
  <2>1. f \in [GraphOccurrences -> EdgeItems]
        /\ \A y \in EdgeItems : \E x \in GraphOccurrences : f[x] = y
    BY DEF EdgeItems
  <2>2. \A x \in GraphOccurrences : EdgesItem(x.path, x.object).amount \in Nat
    <3>1. TAKE x \in GraphOccurrences
    <3>2. x.object \in Groups /\ IsDatasetAt(x.object, "edges", "edges")
      BY <1>1, <3>1 DEF GraphOccurrences, ObjectReadable, GraphReadable
    <3>3. EdgeCount(DataAt(x.object, "edges")) \in Nat
      BY <3>2, KnownNames, ReadableAmount DEF Wants
    <3> QED
      BY <3>3 DEF EdgesItem, Item
  <2>3. \A y \in EdgeItems : y.amount \in Nat
    BY <2>2 DEF EdgeItems
  <2> HIDE DEF f
  <2>4. IsFiniteSet(EdgeItems)
    BY <1>3, <2>1, FiniteRange
  <2> QED
    BY <2>3, <2>4 DEF Countables
<1>7. Countables(ByteItems)
  BY <1>4, <1>5, FS_Union DEF ByteItems, Countables
<1> QED
  BY <1>1, <1>2, <1>3, <1>6, <1>7

-----------------------------------------------------------------------------
(***************************************************************************)
(* The contract of a whole read.  At every step the ledgers are the totals *)
(* of what has been decoded, everything decoded is readable, and all of it *)
(* is part of what the container describes: a check that refuses one more  *)
(* part therefore refuses a container that is not acceptable.              *)
(***************************************************************************)

(* The graphs entered so far, each at the path it was entered by.          *)
SeenGraphs ==
  {Place(x.path, x.object) : x \in {y \in tree : y.type = "NIRGraph"}}
    \cup {Place(callers[i].path, callers[i].graph) : i \in DOMAIN callers}
    \cup IF pc \in Inner THEN {Place(frame.path, frame.graph)} ELSE {}

SeenInv ==
  pc # "failed" =>
    /\ IsFiniteSet(SeenGraphs) /\ Cardinality(SeenGraphs) = Len(visited)
    /\ Entered = {s.object : s \in SeenGraphs}
    /\ call.limit["graphs"] # NoLimit => used["graphs"] = Len(visited)
    /\ pc \in Traversal => <<>> \notin Paths

(* The paths of the nodes the node ledger was charged for.                 *)
Awaited(f) == {Append(f.path, n) : n \in f.todo}

HeldPaths ==
  (Paths \ {<<>>}) \cup Awaited(frame)
    \cup UNION {Awaited(callers[i]) : i \in DOMAIN callers}

HeldInv ==
  pc # "failed" =>
    /\ IsFiniteSet(HeldPaths)
    /\ call.limit["nodes"] # NoLimit => used["nodes"] = Cardinality(HeldPaths)

(* What is readable so far.                                                *)
BeforeVersion == {"open", "rootLinks", "version"}

EnvelopeRead ==
  /\ pc \notin {"open", "rootLinks"} => OnlyHardLinks(Root)
  /\ pc \in BeforeVersion => version = NoVersion
  /\ pc \notin BeforeVersion =>
       /\ VersionReadable
       /\ version = IF Linked(Root, "version") THEN DataAt(Root, "version").value
                    ELSE NoVersion
  /\ pc \notin Envelope => VersionAccepted
  /\ pc = "done" /\ call.entry = "readVersion" => Linked(Root, "version")
  /\ pc \in Traversal \/ Returned => IsGraph(TopGraph)
  /\ pc = "rootType" => OnlyHardLinks(TopGraph)

TypeRead(o) == IsDatasetAt(o, "type", "text")

GraphRead(f) == TypeRead(f.graph) /\ OnlyHardLinks(f.graph) /\ OnlyHardLinks(f.nodes)

MetadataRead(o, left) ==
  /\ Linked(o, "metadata") =>
       /\ HasGroup(o, "metadata") /\ OnlyHardLinks(At(o, "metadata"))
       /\ \A k \in Keys(o) \ left : IsDatasetAt(At(o, "metadata"), k, "metadata")
  /\ left \subseteq Keys(o)

FrameRead ==
  /\ pc \in Traversal => TypeRead(frame.graph)
  /\ pc \in Inner \ {"graphLinks"} => OnlyHardLinks(frame.graph)
  /\ pc \in Counting => OnlyHardLinks(frame.nodes)
  /\ Decoding => OnlyHardLinks(frame.at)
  /\ pc \in {"metadata", "entries"} =>
       IF frame.name = NoName
       THEN frame.at = frame.graph /\ IsDatasetAt(frame.graph, "edges", "edges")
       ELSE /\ TypeRead(frame.at)
            /\ \A i \in DOMAIN Plan(frame.at) : i < frame.field => FieldReadable(frame.at, i)
  /\ pc = "entries" => MetadataRead(frame.at, frame.keys)

ReadableInv ==
  pc # "failed" =>
    /\ EnvelopeRead
    /\ \A x \in tree : ObjectReadable(x.object)
    /\ pc \in Traversal => \A i \in DOMAIN callers : GraphRead(callers[i])
    /\ FrameRead

(* The parts the byte ledger was charged for.                              *)
Current == IF frame.name = NoName THEN frame.path ELSE Append(frame.path, frame.name)

PaidVersion == IF pc \in BeforeVersion THEN {} ELSE VersionItems

PaidTree == UNION {ItemsOf(x.path, x.object) : x \in tree}

PaidCallers == {TypeItem(callers[i].path, callers[i].graph) : i \in DOMAIN callers}

PaidFrame == IF pc \in Traversal THEN {TypeItem(frame.path, frame.graph)} ELSE {}

PaidEntries ==
  IF pc = "entries"
  THEN {EntryItem(Current, frame.at, k) : k \in Keys(frame.at) \ frame.keys}
  ELSE {}

PaidNode ==
  IF frame.name = NoName THEN {EdgeItem(frame.path, frame.at)}
  ELSE {TypeItem(Current, frame.at)}
         \cup {FieldItem(Current, frame.at, i) :
                 i \in {j \in DOMAIN Plan(frame.at) : j < frame.field}}

PaidHere == IF pc \in {"metadata", "entries"} THEN PaidEntries \cup PaidNode ELSE {}

PaidItems == PaidVersion \cup PaidTree \cup PaidCallers \cup PaidFrame \cup PaidHere

PaidInv ==
  pc # "failed" =>
    /\ Countables(PaidItems)
    /\ call.limit["bytes"] # NoLimit => used["bytes"] = Total(PaidItems)

PaidEdges ==
  {EdgesItem(x.path, x.object) : x \in {y \in tree : y.type = "NIRGraph"}}
    \cup IF pc \in {"metadata", "entries"} /\ frame.name = NoName
         THEN {EdgesItem(frame.path, frame.graph)} ELSE {}

EdgesInv ==
  pc # "failed" =>
    /\ Countables(PaidEdges)
    /\ call.limit["edges"] # NoLimit => used["edges"] = Total(PaidEdges)

ContractInv ==
  SeenInv /\ HeldInv /\ ReadableInv /\ PaidInv /\ EdgesInv

(* The reader's other invariants, together.                                *)
ReaderInv == SafeInv /\ DepthInv /\ TokenInv /\ VersionInv /\ LedgerInv /\ TreeInv

(* What the contract says of the container does not change.                *)
LEMMA ContractStays ==
  ASSUME UNCHANGED file
  PROVE  /\ \A o : /\ ObjectReadable(o)' <=> ObjectReadable(o)
                   /\ TypeRead(o)' <=> TypeRead(o)
                   /\ OnlyHardLinks(o)' <=> OnlyHardLinks(o)
                   /\ Plan(o)' = Plan(o) /\ Keys(o)' = Keys(o)
         /\ \A o, x : /\ FieldReadable(o, x)' <=> FieldReadable(o, x)
                      /\ MetadataRead(o, x)' <=> MetadataRead(o, x)
                      /\ Linked(o, x)' <=> Linked(o, x)
         /\ \A o, n, w : IsDatasetAt(o, n, w)' <=> IsDatasetAt(o, n, w)
         /\ \A f : GraphRead(f)' <=> GraphRead(f)
<1>1. /\ \A o, n : Linked(o, n)' <=> Linked(o, n)
      /\ \A o : OnlyHardLinks(o)' <=> OnlyHardLinks(o)
  BY DEF Linked, OnlyHardLinks, Members
<1>2. \A o, n, w : IsDatasetAt(o, n, w)' <=> IsDatasetAt(o, n, w)
  BY FileStays DEF IsDatasetAt
<1>3. \A o : Plan(o)' = Plan(o) /\ Keys(o)' = Keys(o)
  BY <1>1, FileStays DEF Plan, Keys
<1>4. \A o, i : FieldReadable(o, i)' <=> FieldReadable(o, i)
  BY <1>1, <1>2, <1>3 DEF FieldReadable
<1>5. \A o : /\ LeafReadable(o)' <=> LeafReadable(o)
             /\ GraphReadable(o)' <=> GraphReadable(o)
             /\ MetadataReadable(o)' <=> MetadataReadable(o)
  BY <1>1, <1>2, <1>3, <1>4, FileStays DEF LeafReadable, GraphReadable, MetadataReadable
<1>6. \A o : (ObjectReadable(o)' <=> ObjectReadable(o)) /\ (TypeRead(o)' <=> TypeRead(o))
  BY <1>1, <1>2, <1>5, FileStays DEF ObjectReadable, TypeRead
<1>7. \A o, x : MetadataRead(o, x)' <=> MetadataRead(o, x)
  BY <1>1, <1>2, <1>3, FileStays DEF MetadataRead
<1>8. \A f : GraphRead(f)' <=> GraphRead(f)
  BY <1>1, <1>6 DEF GraphRead
<1> QED
  BY <1>1, <1>2, <1>3, <1>4, <1>6, <1>7, <1>8

(* Nor do the items it totals.                                             *)
LEMMA ItemsStay ==
  ASSUME UNCHANGED file
  PROVE  /\ \A p, o : /\ TypeItem(p, o)' = TypeItem(p, o)
                      /\ EdgeItem(p, o)' = EdgeItem(p, o)
                      /\ EdgesItem(p, o)' = EdgesItem(p, o)
                      /\ ItemsOf(p, o)' = ItemsOf(p, o)
         /\ \A p, o, x : /\ EntryItem(p, o, x)' = EntryItem(p, o, x)
                         /\ FieldItem(p, o, x)' = FieldItem(p, o, x)
         /\ VersionItems' = VersionItems
<1>1. \A p, o : /\ TypeItem(p, o)' = TypeItem(p, o)
                /\ EdgeItem(p, o)' = EdgeItem(p, o)
                /\ EdgesItem(p, o)' = EdgesItem(p, o)
  BY FileStays DEF TypeItem, EdgeItem, EdgesItem
<1>2. \A p, o, x : /\ EntryItem(p, o, x)' = EntryItem(p, o, x)
                   /\ FieldItem(p, o, x)' = FieldItem(p, o, x)
  BY ContractStays, FileStays DEF EntryItem, FieldItem
<1>3. \A p, o : ItemsOf(p, o)' = ItemsOf(p, o)
  BY <1>1, <1>2, ContractStays, FileStays DEF ItemsOf
<1>4. VersionItems' = VersionItems
  BY ContractStays, FileStays DEF VersionItems, VersionItem
<1> QED
  BY <1>1, <1>2, <1>3, <1>4

(* The place of the frame: neither the graph being decoded nor the node in  *)
(* it is in the tree yet, and each is at a path of its own.                *)
LEMMA Positions ==
  ASSUME ReaderInv, SeenInv, pc \in Traversal
  PROVE  /\ frame \in Frames /\ callers \in Seq(Frames) /\ Nested /\ Apart
         /\ frame.path \in Seq(Names) /\ frame.path \notin Paths /\ <<>> \notin Paths
         /\ callers = <<>> => frame.path = <<>>
         /\ callers # <<>> => frame.path # <<>>
         /\ \A i \in DOMAIN callers :
              /\ callers[i].path # frame.path
              /\ \A n \in Names : callers[i].path # Append(frame.path, n)
         /\ Decoding => /\ frame.name \in Names /\ frame.name # NoName
                        /\ frame.name \in frame.todo
                        /\ Append(frame.path, frame.name) \notin Paths
         /\ \A n \in Names : Append(frame.path, n) # frame.path /\ Append(frame.path, n) # <<>>
<1> DEFINE n == Len(callers)
<1>1. /\ pc # "failed" /\ frame \in Frames /\ callers \in Seq(Frames)
  BY DEF ReaderInv, SafeInv, TypeOK, Traversal, Inner
<1>2. /\ Nested /\ Apart /\ <<>> \notin Paths
      /\ Decoding => frame.name \in frame.todo
  BY <1>1 DEF ReaderInv, LedgerInv, SeenInv
<1>3. frame.path \in Seq(Names) /\ Len(frame.path) = n /\ n \in Nat /\ frame.todo \in SUBSET Names
  BY <1>1, <1>2 DEF Frames, Nested
<1>4. \A i \in DOMAIN callers : Len(callers[i].path) = i - 1 /\ i \in 1 .. n
  BY <1>1, <1>2 DEF Nested
<1>5. \A m \in Names : Len(Append(frame.path, m)) = n + 1
  BY <1>3
<1>6. \A i \in DOMAIN callers :
        /\ callers[i].path # frame.path
        /\ \A m \in Names : callers[i].path # Append(frame.path, m)
  BY <1>3, <1>4, <1>5
<1>7. Len(<<>>) = 0
  OBVIOUS
<1>8. \A m \in Names : Append(frame.path, m) # frame.path /\ Append(frame.path, m) # <<>>
  BY <1>3, <1>5, <1>7
<1>9. callers = <<>> => frame.path = <<>>
  BY <1>3, EmptySeq
<1>10. callers # <<>> => n \in DOMAIN callers /\ frame.path # <<>>
  BY <1>1, <1>3, <1>7, EmptySeq
<1>11. frame.path \notin Paths
  <2>1. CASE callers # <<>>
    <3>1. /\ frame.path = Append(callers[n].path, callers[n].name)
          /\ callers[n].name \in callers[n].todo
      BY <1>2, <1>10, <2>1 DEF Nested
    <3> QED
      BY <1>2, <1>10, <2>1, <3>1 DEF Apart
  <2> QED
    BY <1>2, <1>9, <2>1
<1>12. Decoding => /\ frame.name \in Names /\ frame.name # NoName
                   /\ Append(frame.path, frame.name) \notin Paths
  BY <1>2, <1>3, ContainerAssumption DEF Apart
<1> QED
  BY <1>1, <1>2, <1>3, <1>6, <1>8, <1>9, <1>10, <1>11, <1>12

(* A step that enters no graph and lists no name.                          *)
LEMMA StillSeen ==
  ASSUME SeenInv, HeldInv, pc # "failed", UNCHANGED <<tree, callers, visited, call>>,
         frame'.path = frame.path, frame'.graph = frame.graph, frame'.todo = frame.todo,
         pc' \in Inner <=> pc \in Inner, pc' \in Traversal => pc \in Traversal,
         used'["graphs"] = used["graphs"], used'["nodes"] = used["nodes"]
  PROVE  SeenInv' /\ HeldInv'
<1>1. SeenGraphs' = SeenGraphs /\ Paths' = Paths /\ Entered' = Entered
  BY DEF SeenGraphs, Paths, Entered
<1>2. Awaited(frame)' = Awaited(frame)
  BY DEF Awaited
<1>3. HeldPaths' = HeldPaths
  BY <1>1, <1>2 DEF HeldPaths, Awaited
<1> QED
  BY <1>1, <1>3 DEF SeenInv, HeldInv

(* A step that decodes nothing, and one that decodes one more dataset.     *)
LEMMA PaidSame ==
  ASSUME PaidInv, pc # "failed", UNCHANGED call, PaidItems' = PaidItems,
         used'["bytes"] = used["bytes"]
  PROVE  PaidInv'
  BY DEF PaidInv

(* What is paid for one more part is its amount.                           *)
LEMMA PaidMore ==
  ASSUME PaidInv, pc # "failed", UNCHANGED call, NEW x, x.amount \in Nat, x \notin PaidItems,
         PaidItems' = PaidItems \cup {x},
         call.limit["bytes"] # NoLimit => used'["bytes"] = used["bytes"] + x.amount
  PROVE  PaidInv'
<1>1. Countables(PaidItems)
  BY DEF PaidInv
<1>2. Countables(PaidItems \cup {x}) /\ Total(PaidItems \cup {x}) = Total(PaidItems) + x.amount
  BY <1>1, TotalAdd
<1>3. Countables(PaidItems') /\ Total(PaidItems') = Total(PaidItems) + x.amount
  BY <1>2
<1>4. Countables(PaidItems)' /\ Total(PaidItems)' = Total(PaidItems) + x.amount
  BY <1>3 DEF Countables, Total
<1> QED
  BY <1>4 DEF PaidInv

(* The same of the edge ledger.                                            *)
LEMMA EdgesSame ==
  ASSUME EdgesInv, pc # "failed", UNCHANGED <<call, file, tree>>,
         used'["edges"] = used["edges"],
         pc' \in {"metadata", "entries"} /\ frame'.name = NoName =>
           /\ pc \in {"metadata", "entries"} /\ frame.name = NoName
           /\ frame'.path = frame.path /\ frame'.graph = frame.graph,
         pc \in {"metadata", "entries"} /\ frame.name = NoName =>
           pc' \in {"metadata", "entries"} /\ frame'.name = NoName
  PROVE  EdgesInv'
<1>1. PaidEdges' = PaidEdges
  BY ItemsStay DEF PaidEdges
<1> QED
  BY <1>1 DEF EdgesInv

(* The items of a node are at its path, and none is the version's.         *)
LEMMA ItemsAt ==
  /\ \A p, o : \A y \in ItemsOf(p, o) : y.path = p /\ y.part # <<"version", NoName>>
  /\ \A p, o : /\ TypeItem(p, o).path = p /\ TypeItem(p, o).part = <<"type", NoName>>
               /\ EdgeItem(p, o).path = p /\ EdgeItem(p, o).part = <<"edges", NoName>>
  /\ \A p, o, x : /\ EntryItem(p, o, x).path = p
                  /\ EntryItem(p, o, x).part = <<"metadata", x>>
                  /\ FieldItem(p, o, x).path = p /\ FieldItem(p, o, x).part = <<"field", x>>
  /\ \A y \in VersionItems : y.part = <<"version", NoName>>
<1>1. \A p, o : /\ TypeItem(p, o).path = p /\ TypeItem(p, o).part = <<"type", NoName>>
                /\ EdgeItem(p, o).path = p /\ EdgeItem(p, o).part = <<"edges", NoName>>
  BY DEF TypeItem, EdgeItem, Item
<1>2. \A p, o, x : /\ EntryItem(p, o, x).path = p
                   /\ EntryItem(p, o, x).part = <<"metadata", x>>
                   /\ FieldItem(p, o, x).path = p /\ FieldItem(p, o, x).part = <<"field", x>>
  BY DEF EntryItem, FieldItem, Item
<1>3. \A p, o : \A y \in ItemsOf(p, o) : y.path = p /\ y.part # <<"version", NoName>>
  <2>1. TAKE p, o
  <2>2. TAKE y \in ItemsOf(p, o)
  <2>3. CASE y \in {EntryItem(p, o, k) : k \in Keys(o)}
    BY <1>2, <2>3
  <2>4. CASE y = TypeItem(p, o) \/ y = EdgeItem(p, o)
    BY <1>1, <2>4
  <2>5. CASE y \in {FieldItem(p, o, i) : i \in DOMAIN Plan(o)}
    BY <1>2, <2>5
  <2> QED
    BY <2>2, <2>3, <2>4, <2>5 DEF ItemsOf
<1>4. \A y \in VersionItems : y.part = <<"version", NoName>>
  BY DEF VersionItems, VersionItem, Item
<1> QED
  BY <1>1, <1>2, <1>3, <1>4

(* The parts paid so far that are not of the node at hand.                 *)
LEMMA PaidElsewhere ==
  ASSUME ReaderInv, SeenInv, pc \in Traversal,
         NEW y \in PaidVersion \cup PaidTree \cup PaidCallers \cup PaidFrame
  PROVE  /\ \A n \in Names : Append(frame.path, n) \notin Paths =>
              y.path # Append(frame.path, n) \/ y.part = <<"version", NoName>>
         /\ \/ y.path # frame.path \/ y.part \in {<<"version", NoName>>, <<"type", NoName>>}
<1>1. CASE y \in PaidVersion
  <2>1. y.part = <<"version", NoName>>
    BY <1>1, ItemsAt DEF PaidVersion
  <2> QED
    BY <2>1
<1>2. CASE y \in PaidTree
  <2>1. PICK x \in tree : y \in ItemsOf(x.path, x.object)
    BY <1>2 DEF PaidTree
  <2>2. y.path \in Paths
    BY <2>1, ItemsAt DEF Paths
  <2> QED
    BY <2>2, Positions
<1>3. CASE y \in PaidCallers
  <2>1. PICK i \in DOMAIN callers : y = TypeItem(callers[i].path, callers[i].graph)
    BY <1>3 DEF PaidCallers
  <2>2. y.path = callers[i].path
    BY <2>1, ItemsAt
  <2> QED
    BY <2>1, <2>2, Positions
<1>4. CASE y \in PaidFrame
  <2>1. y.path = frame.path /\ y.part = <<"type", NoName>>
    BY <1>4, ItemsAt DEF PaidFrame
  <2> QED
    BY <2>1, Positions
<1> QED
  BY <1>1, <1>2, <1>3, <1>4

(* While the position in the stack stays, only the node at hand is paid.   *)
LEMMA PaidBase ==
  ASSUME UNCHANGED <<file, tree, callers>>, frame'.path = frame.path,
         frame'.graph = frame.graph, pc' \in Traversal <=> pc \in Traversal,
         pc' \in BeforeVersion <=> pc \in BeforeVersion
  PROVE  PaidItems' = PaidVersion \cup PaidTree \cup PaidCallers \cup PaidFrame \cup PaidHere'
<1>1. PaidVersion' = PaidVersion
  BY ItemsStay DEF PaidVersion
<1>2. PaidTree' = PaidTree
  BY ItemsStay DEF PaidTree
<1>3. PaidCallers' = PaidCallers
  BY ItemsStay DEF PaidCallers
<1>4. PaidFrame' = PaidFrame
  BY ItemsStay DEF PaidFrame
<1> QED
  BY <1>1, <1>2, <1>3, <1>4 DEF PaidItems

-----------------------------------------------------------------------------
(***************************************************************************)
(* The steps of the contract's invariant, those before the first graph.    *)
(***************************************************************************)

(* The decoded version is the contract's.                                  *)
LEMMA PolicyExact ==
  ASSUME SafeInv, VersionReadable,
         version = IF Linked(Root, "version") THEN DataAt(Root, "version").value ELSE NoVersion
  PROVE  /\ version # NoVersion <=> Linked(Root, "version")
         /\ PolicyAccepts <=> VersionAccepted
<1>1. Root \in Groups /\ "version" \in Names /\ NoVersion \notin Values
  BY ContainerAssumption
<1>2. Linked(Root, "version") => DataAt(Root, "version").value \in Values
  <2>1. Linked(Root, "version") => HasDataset(Root, "version")
    BY DEF VersionReadable, IsDatasetAt
  <2> QED
    BY <1>1, <2>1, ContainerFacts, DatasetFacts DEF SafeInv
<1>3. version # NoVersion <=> Linked(Root, "version")
  BY <1>1, <1>2
<1> QED
  BY <1>3 DEF PolicyAccepts, VersionAccepted

(* Before the first graph nothing else has been paid or seen.              *)
LEMMA OutsideFacts ==
  ASSUME ReaderInv, pc \in Outside
  PROVE  /\ tree = {} /\ callers = <<>> /\ frame.todo = {} /\ pc # "failed"
         /\ pc \notin Traversal /\ pc \notin Inner /\ pc \notin Counting /\ ~Decoding /\ ~Returned
         /\ PaidItems = PaidVersion
<1>1. pc # "failed" /\ pc \in Unlisted
  BY DEF Outside, Unlisted
<1>2. tree = {} /\ callers = <<>> /\ frame.todo = {}
  BY <1>1 DEF ReaderInv, LedgerInv
<1>3. pc \notin Traversal /\ pc \notin Inner /\ pc \notin Counting /\ ~Decoding /\ ~Returned
  BY DEF Outside, Traversal, Inner, Counting, Decoding, Returned
<1>4. PaidTree = {} /\ PaidCallers = {} /\ PaidFrame = {} /\ PaidHere = {}
  BY <1>2, <1>3 DEF PaidTree, PaidCallers, PaidFrame, PaidHere, Outside
<1> QED
  BY <1>1, <1>2, <1>3, <1>4 DEF PaidItems

(* The checks that only move on.                                           *)
LEMMA EnvelopeContract ==
  ASSUME ReaderInv, ContractInv, UNCHANGED <<file, call>>, ~\E k : Fail(k),
         OpenFile \/ CheckRootLinks \/ EnforceVersionPolicy \/ OpenTopGraph
  PROVE  ContractInv'
<1>1. /\ pc \in {"open", "rootLinks", "policy", "node"}
      /\ pc' \in {"rootLinks", "version", "node", "done", "rootType"}
      /\ pc' \in BeforeVersion <=> pc \in BeforeVersion
      /\ UNCHANGED <<version, frame, callers, visited, used, tree>>
  BY DEF OpenFile, CheckRootLinks, EnforceVersionPolicy, OpenTopGraph, Goto, BeforeVersion
<1>2. /\ pc \in Outside /\ pc' \notin Traversal /\ pc' \notin Inner /\ pc' \notin Counting
      /\ ~Decoding' /\ pc # "failed"
  BY <1>1 DEF Outside, Traversal, Inner, Counting, Decoding
<1>3. /\ tree = {} /\ callers = <<>> /\ pc \notin Traversal /\ pc \notin Inner
      /\ ~Returned /\ pc \notin {"metadata", "entries"}
  BY <1>2, OutsideFacts DEF Outside
<1>4. SeenInv' /\ HeldInv'
  BY <1>1, <1>2, <1>3, StillSeen DEF ContractInv
<1>5. PaidItems' = PaidItems
  <2>1. PaidHere = {} /\ PaidHere' = {}
    BY <1>1, <1>3 DEF PaidHere
  <2>2. PaidItems' = PaidVersion \cup PaidTree \cup PaidCallers \cup PaidFrame \cup PaidHere'
    BY <1>1, <1>2, <1>3, PaidBase
  <2> QED
    BY <2>1, <2>2 DEF PaidItems
<1>6. PaidInv'
  BY <1>1, <1>2, <1>5, PaidSame DEF ContractInv
<1>7. EdgesInv'
  BY <1>1, <1>2, <1>3, EdgesSame DEF ContractInv
<1>8. EnvelopeRead
  BY <1>2 DEF ContractInv, ReadableInv
<1>9. EnvelopeRead'
  <2>1. /\ OnlyHardLinks(Root)' <=> OnlyHardLinks(Root)
        /\ VersionReadable' <=> VersionReadable
        /\ Linked(Root, "version")' <=> Linked(Root, "version")
        /\ DataAt(Root, "version")' = DataAt(Root, "version")
        /\ VersionAccepted' <=> VersionAccepted
        /\ OnlyHardLinks(TopGraph)' <=> OnlyHardLinks(TopGraph)
    BY ContractStays, FileStays DEF VersionReadable, VersionAccepted, Within, TopGraph
  <2>2. CASE OpenFile
    BY <1>1, <1>2, <1>8, <2>2 DEF OpenFile, Goto, EnvelopeRead, BeforeVersion, Envelope, Returned
  <2>3. CASE CheckRootLinks
    BY <1>1, <1>2, <1>8, <2>1, <2>3
       DEF CheckRootLinks, Goto, EnvelopeRead, BeforeVersion, Envelope, Returned
  <2>4. CASE EnforceVersionPolicy
    <3>1. /\ OnlyHardLinks(Root) /\ VersionReadable
          /\ version = IF Linked(Root, "version") THEN DataAt(Root, "version").value
                       ELSE NoVersion
      BY <1>8, <2>4 DEF EnvelopeRead, BeforeVersion, EnforceVersionPolicy
    <3>2. PolicyAccepts /\ (pc' = "done" => version # NoVersion /\ call.entry = "readVersion")
          /\ pc' \in {"node", "done"}
      BY <2>4 DEF EnforceVersionPolicy, Goto
    <3>3. VersionAccepted /\ (version # NoVersion <=> Linked(Root, "version"))
      BY <3>1, <3>2, PolicyExact DEF ReaderInv
    <3> QED
      BY <1>1, <1>2, <2>1, <3>1, <3>2, <3>3 DEF EnvelopeRead, Returned, BeforeVersion
  <2>5. CASE OpenTopGraph
    <3>1. OnlyHardLinks(TopGraph) /\ pc' = "rootType" /\ pc = "node"
      BY <2>5 DEF OpenTopGraph, Goto
    <3> QED
      BY <1>1, <1>2, <1>8, <2>1, <3>1 DEF EnvelopeRead, BeforeVersion, Envelope, Returned
  <2> QED
    BY <2>2, <2>3, <2>4, <2>5
<1>10. FrameRead'
  BY <1>1, <1>2 DEF FrameRead
<1>11. ReadableInv'
  BY <1>1, <1>2, <1>3, <1>9, <1>10 DEF ReadableInv
<1> QED
  BY <1>4, <1>6, <1>7, <1>11 DEF ContractInv

(* A dataset that is decoded is charged its plain cost.                    *)
LEMMA DecodingPays ==
  ASSUME SafeInv, NEW d \in DatasetRecords, NEW want \in Wants,
         Verdict(d, want) = "none", Charge("bytes", Cost(d, want))
  PROVE  /\ Is(d, want) /\ Bytes(d, want) \in Nat
         /\ call.limit["bytes"] # NoLimit => used'["bytes"] = used["bytes"] + Bytes(d, want)
         /\ \A r \in {"graphs", "nodes", "edges"} : used'[r] = used[r]
         /\ Within("bytes", Bytes(d, want))
<1>1. /\ Is(d, want) /\ Affords("bytes", Bytes(d, want)) /\ Bytes(d, want) \in Nat
      /\ call.limit["bytes"] # NoLimit => Cost(d, want) = Bytes(d, want)
  BY VerdictExact DEF SafeInv
<1>2. used \in [Resources -> Usize] /\ \A r \in Resources : call.limit[r] \in Limits
  BY CallFacts DEF SafeInv, TypeOK
<1>3. used' = [used EXCEPT !["bytes"] = Charged(call.limit["bytes"], @, Cost(d, want))]
  BY DEF Charge
<1>4. /\ call.limit["bytes"] # NoLimit => used'["bytes"] = used["bytes"] + Bytes(d, want)
      /\ \A r \in {"graphs", "nodes", "edges"} : used'[r] = used[r]
  BY <1>1, <1>2, <1>3 DEF Resources, Charged
<1>5. Within("bytes", Bytes(d, want))
  <2>1. SUFFICES ASSUME call.limit["bytes"] # NoLimit
                 PROVE  Bytes(d, want) <= call.limit["bytes"]
    BY DEF Within
  <2>2. call.limit["bytes"] \in Usize /\ used["bytes"] \in Usize
    BY <1>2, <2>1 DEF Limits, Resources
  <2>3. used["bytes"] + Bytes(d, want) <= call.limit["bytes"]
    BY <1>1, <2>1 DEF Affords
  <2> QED
    BY <1>1, <2>2, <2>3, UsizeAssumption DEF Usize
<1> QED
  BY <1>1, <1>4, <1>5

(* The version is decoded, or there is none.                               *)
LEMMA VersionDecoded ==
  ASSUME ReaderInv, ContractInv, UNCHANGED <<file, call>>, ~\E k : Fail(k), LoadVersion
  PROVE  ContractInv'
<1> DEFINE d == DataAt(Root, "version")
<1>1. /\ pc = "version" /\ pc' = "policy" /\ UNCHANGED <<frame, callers, visited, tree>>
      /\ SafeInv /\ TypeOK
  BY DEF LoadVersion, Goto, ReaderInv, SafeInv
<1>2. /\ pc \in Outside /\ pc' \notin Traversal /\ pc' \notin Inner /\ pc' \notin Counting
      /\ ~Decoding' /\ pc # "failed"
  BY <1>1 DEF Outside, Traversal, Inner, Counting, Decoding
<1>3. /\ tree = {} /\ callers = <<>> /\ pc \notin Traversal /\ pc \notin Inner
      /\ PaidItems = PaidVersion
  BY <1>2, OutsideFacts
<1>4. /\ PaidItems = {} /\ PaidItems' = VersionItems
  <2>1. PaidTree' = {} /\ PaidCallers' = {} /\ PaidFrame' = {} /\ PaidHere' = {}
    BY <1>1, <1>2, <1>3 DEF PaidTree, PaidCallers, PaidFrame, PaidHere
  <2>2. PaidVersion = {} /\ PaidVersion' = VersionItems
    BY <1>1, ItemsStay DEF PaidVersion, BeforeVersion
  <2> QED
    BY <1>3, <2>1, <2>2 DEF PaidItems
<1>5. OnlyHardLinks(Root) /\ version = NoVersion
  BY <1>1 DEF ContractInv, ReadableInv, EnvelopeRead, BeforeVersion
<1>6. ASSUME ~Linked(Root, "version")
      PROVE  /\ PaidInv' /\ \A r \in {"graphs", "nodes", "edges"} : used'[r] = used[r]
             /\ VersionReadable /\ version' = NoVersion
  <2>1. UNCHANGED <<used, version>>
    BY <1>6 DEF LoadVersion, Goto
  <2>2. VersionItems = {}
    BY <1>6 DEF VersionItems
  <2>3. PaidInv'
    BY <1>2, <1>4, <2>1, <2>2, PaidSame DEF ContractInv
  <2> QED
    BY <1>5, <1>6, <2>1, <2>3 DEF VersionReadable
<1>7. ASSUME Linked(Root, "version")
      PROVE  /\ PaidInv' /\ \A r \in {"graphs", "nodes", "edges"} : used'[r] = used[r]
             /\ VersionReadable /\ version' = d.value
  <2>1. /\ HasDataset(Root, "version") /\ Verdict(d, "text") = "none" /\ version' = d.value
        /\ Charge("bytes", Cost(d, "text"))
    BY <1>7 DEF LoadVersion
  <2>2. d \in DatasetRecords
    BY <1>1, <2>1, ContainerFacts, ContainerAssumption, KnownNames
  <2>3. /\ Is(d, "text") /\ Bytes(d, "text") \in Nat /\ Within("bytes", Bytes(d, "text"))
        /\ call.limit["bytes"] # NoLimit => used'["bytes"] = used["bytes"] + Bytes(d, "text")
        /\ \A r \in {"graphs", "nodes", "edges"} : used'[r] = used[r]
    BY <1>1, <2>1, <2>2, DecodingPays DEF Wants
  <2>4. Bytes(d, "text") = d.cost /\ VersionItem.amount = d.cost
    BY DEF Bytes, VersionItem, Item
  <2>5. VersionItems = {VersionItem}
    BY <1>7 DEF VersionItems
  <2>6. PaidInv'
    BY <1>2, <1>4, <2>3, <2>4, <2>5, PaidMore DEF ContractInv
  <2>7. VersionReadable
    BY <1>5, <2>1, <2>3, <2>4 DEF VersionReadable, IsDatasetAt
  <2> QED
    BY <2>1, <2>3, <2>6, <2>7
<1> HIDE DEF d
<1>8. /\ PaidInv' /\ \A r \in {"graphs", "nodes", "edges"} : used'[r] = used[r]
      /\ VersionReadable
      /\ version' = IF Linked(Root, "version") THEN d.value ELSE NoVersion
  BY <1>6, <1>7
<1>9. SeenInv' /\ HeldInv'
  BY <1>1, <1>2, <1>3, <1>8, StillSeen DEF ContractInv
<1>10. EdgesInv'
  BY <1>1, <1>2, <1>8, EdgesSame DEF ContractInv
<1>11. EnvelopeRead'
  <2>1. /\ OnlyHardLinks(Root)' <=> OnlyHardLinks(Root)
        /\ VersionReadable' <=> VersionReadable
        /\ Linked(Root, "version")' <=> Linked(Root, "version")
        /\ DataAt(Root, "version")' = DataAt(Root, "version")
    BY ContractStays, FileStays DEF VersionReadable, Within
  <2> QED
    BY <1>1, <1>2, <1>5, <1>8, <2>1
       DEF EnvelopeRead, BeforeVersion, Envelope, Returned, d
<1>12. FrameRead'
  BY <1>1, <1>2 DEF FrameRead
<1>13. ReadableInv'
  BY <1>1, <1>2, <1>3, <1>11, <1>12 DEF ReadableInv
<1> QED
  BY <1>8, <1>9, <1>10, <1>13 DEF ContractInv

(* What was read of the envelope stays read in the traversal.               *)
LEMMA StillReadable ==
  ASSUME ReaderInv, ReadableInv, UNCHANGED <<file, call, version>>, pc \in Traversal,
         pc' \in Traversal \cup {"done"},
         \A x \in tree' : ObjectReadable(x.object),
         pc' \in Traversal => \A i \in DOMAIN callers' : GraphRead(callers'[i]),
         FrameRead'
  PROVE  ReadableInv'
<1>1. /\ pc \notin Envelope /\ pc \notin BeforeVersion /\ pc # "failed"
      /\ pc \notin Halted /\ pc' \notin BeforeVersion /\ pc' # "rootType"
  BY DEF Traversal, Inner, Envelope, BeforeVersion, Halted
<1>2. /\ OnlyHardLinks(Root) /\ VersionReadable /\ VersionAccepted /\ IsGraph(TopGraph)
      /\ version = IF Linked(Root, "version") THEN DataAt(Root, "version").value ELSE NoVersion
      /\ call.entry = "read"
  BY <1>1 DEF ReaderInv, VersionInv, ReadableInv, EnvelopeRead, BeforeVersion
<1>3. /\ OnlyHardLinks(Root)' <=> OnlyHardLinks(Root)
      /\ VersionReadable' <=> VersionReadable
      /\ Linked(Root, "version")' <=> Linked(Root, "version")
      /\ DataAt(Root, "version")' = DataAt(Root, "version")
      /\ VersionAccepted' <=> VersionAccepted
      /\ IsGraph(TopGraph)' <=> IsGraph(TopGraph)
  BY ContractStays, FileStays DEF VersionReadable, VersionAccepted, Within, TopGraph
<1>4. EnvelopeRead'
  BY <1>1, <1>2, <1>3 DEF EnvelopeRead
<1>5. \A x \in tree' : ObjectReadable(x.object)'
  BY ContractStays
<1>6. \A i \in DOMAIN callers' : GraphRead(callers'[i]) => GraphRead(callers[i])'
  BY ContractStays
<1> QED
  BY <1>4, <1>5, <1>6 DEF ReadableInv

(* What the traversal has read is readable.                                 *)
LEMMA ReadSoFar ==
  ASSUME ContractInv, pc \in Traversal
  PROVE  /\ \A x \in tree : ObjectReadable(x.object)
         /\ \A i \in DOMAIN callers : GraphRead(callers[i])
         /\ FrameRead /\ EnvelopeRead /\ pc # "failed"
         /\ ~Returned /\ pc \notin Outside /\ pc \notin BeforeVersion
<1>1. /\ pc # "failed" /\ pc # "done" /\ pc \notin Outside /\ pc \notin BeforeVersion
  BY DEF Traversal, Inner, Outside, BeforeVersion
<1> QED
  BY <1>1 DEF ContractInv, ReadableInv, Returned

(* The type of the root is decoded.                                         *)
LEMMA RootDecoded ==
  ASSUME ReaderInv, ContractInv, UNCHANGED <<file, call>>, ~\E k : Fail(k), ReadRootType
  PROVE  ContractInv'
<1> DEFINE d == DataAt(TopGraph, "type")
<1>1. /\ pc = "rootType" /\ pc' = "enter" /\ UNCHANGED <<version, callers, visited, tree>>
      /\ SafeInv /\ TypeOK /\ HasDataset(TopGraph, "type") /\ Verdict(d, "text") = "none"
      /\ d.value = "NIRGraph" /\ Charge("bytes", Cost(d, "text"))
      /\ frame' = NewFrame(TopGraph, <<>>)
  BY DEF ReadRootType, ReaderInv, SafeInv
<1>2. /\ pc \in Outside /\ pc' \in Traversal /\ pc' \notin Inner /\ pc' \notin Counting
      /\ ~Decoding' /\ pc # "failed" /\ pc \notin BeforeVersion /\ pc' \notin BeforeVersion
      /\ pc' \notin {"metadata", "entries"} /\ pc \notin Envelope /\ pc' \notin Envelope
      /\ ~Returned' /\ pc' # "rootType"
  BY <1>1 DEF Outside, Traversal, Inner, Counting, Decoding, BeforeVersion, Envelope, Returned
<1>3. /\ tree = {} /\ callers = <<>> /\ pc \notin Traversal /\ pc \notin Inner
      /\ PaidItems = PaidVersion /\ frame.todo = {}
  BY <1>2, OutsideFacts
<1>4. /\ frame'.path = <<>> /\ frame'.graph = TopGraph /\ frame'.todo = {}
  BY <1>1 DEF NewFrame
<1>5. TopGraph \in Groups /\ d \in DatasetRecords
  <2>1. TopGraph \in Groups
    BY <1>1, ContainerFacts, ContainerAssumption, KnownNames DEF SafeInv, TopGraphFound, TopGraph
  <2> QED
    BY <1>1, <2>1, ContainerFacts, KnownNames
<1>6. /\ Is(d, "text") /\ Bytes(d, "text") \in Nat
      /\ call.limit["bytes"] # NoLimit => used'["bytes"] = used["bytes"] + Bytes(d, "text")
      /\ \A r \in {"graphs", "nodes", "edges"} : used'[r] = used[r]
  BY <1>1, <1>5, DecodingPays DEF Wants
<1>7. IsDatasetAt(TopGraph, "type", "text") /\ IsGraph(TopGraph) /\ OnlyHardLinks(TopGraph)
  BY <1>1, <1>2, <1>5, <1>6 DEF IsDatasetAt, IsGraph, ContractInv, ReadableInv, EnvelopeRead
<1> DEFINE x == TypeItem(<<>>, TopGraph)
<1>8. /\ x.amount = Bytes(d, "text") /\ x \notin PaidItems
      /\ PaidItems' = PaidItems \cup {x}
  <2>1. x.amount = Bytes(d, "text")
    BY DEF TypeItem, Item, Bytes
  <2>2. PaidItems = VersionItems
    BY <1>2, <1>3 DEF PaidVersion
  <2>3. x \notin VersionItems
    <3>1. \A y \in VersionItems : y.part = <<"version", NoName>>
      BY ItemsAt
    <3>2. x.part = <<"type", NoName>>
      BY ItemsAt
    <3>3. <<"type", NoName>> # <<"version", NoName>>
      OBVIOUS
    <3> QED
      BY <3>1, <3>2, <3>3
  <2>4. PaidTree' = {} /\ PaidCallers' = {} /\ PaidHere' = {}
    BY <1>1, <1>2, <1>3 DEF PaidTree, PaidCallers, PaidHere
  <2>5. PaidVersion' = VersionItems
    BY <1>2, ItemsStay DEF PaidVersion
  <2>6. PaidFrame' = {TypeItem(frame.path, frame.graph)'}
    BY <1>2 DEF PaidFrame
  <2>7. TypeItem(frame.path, frame.graph)' = x
    BY <1>4, ItemsStay
  <2> QED
    BY <2>1, <2>2, <2>3, <2>4, <2>5, <2>6, <2>7 DEF PaidItems
<1> HIDE DEF x, d
<1>9. PaidInv'
  BY <1>2, <1>6, <1>8, PaidMore DEF ContractInv
<1>10. SeenInv'
  <2>1. SeenGraphs' = SeenGraphs /\ Entered' = Entered /\ Paths' = {}
    BY <1>1, <1>2, <1>3 DEF SeenGraphs, Entered, Paths
  <2> QED
    BY <1>1, <1>2, <1>6, <2>1 DEF SeenInv, ContractInv
<1>11. HeldInv'
  <2>1. HeldPaths = {} /\ HeldPaths' = {}
    BY <1>1, <1>3, <1>4 DEF HeldPaths, Paths, Awaited
  <2> QED
    BY <1>2, <1>6, <2>1 DEF HeldInv, ContractInv
<1>12. EdgesInv'
  BY <1>1, <1>2, <1>6, EdgesSame, <1>3 DEF ContractInv, Outside
<1>13. EnvelopeRead'
  <2>1. /\ OnlyHardLinks(Root)' <=> OnlyHardLinks(Root)
        /\ VersionReadable' <=> VersionReadable
        /\ Linked(Root, "version")' <=> Linked(Root, "version")
        /\ DataAt(Root, "version")' = DataAt(Root, "version")
        /\ VersionAccepted' <=> VersionAccepted
        /\ IsGraph(TopGraph)' <=> IsGraph(TopGraph)
    BY ContractStays, FileStays DEF VersionReadable, VersionAccepted, Within, TopGraph
  <2>2. EnvelopeRead
    BY <1>2 DEF ContractInv, ReadableInv
  <2> QED
    BY <1>1, <1>2, <1>7, <2>1, <2>2 DEF EnvelopeRead, BeforeVersion, Envelope
<1>14. FrameRead'
  <2>1. TypeRead(frame.graph)'
    <3>1. \A o : o = TopGraph => TypeRead(o)'
      BY <1>7, ContractStays DEF TypeRead
    <3> QED
      BY <1>4, <3>1
  <2> QED
    BY <1>1, <1>2, <2>1 DEF FrameRead
<1>15. ReadableInv'
  BY <1>1, <1>2, <1>3, <1>13, <1>14 DEF ReadableInv
<1> QED
  BY <1>9, <1>10, <1>11, <1>12, <1>15 DEF ContractInv

(* A graph is entered: it is one more of those seen.                        *)
LEMMA GraphEntered ==
  ASSUME ReaderInv, ContractInv, UNCHANGED <<file, call>>, ~\E k : Fail(k), EnterGraph
  PROVE  ContractInv'
<1> DEFINE s == Place(frame.path, frame.graph)
<1>1. /\ pc = "enter" /\ pc' = "graphLinks" /\ UNCHANGED <<version, frame, callers, tree>>
      /\ \A i \in DOMAIN visited : visited[i] # frame.graph
      /\ visited' = Append(visited, frame.graph) /\ Charge("graphs", 1)
  BY DEF EnterGraph
<1>2. /\ pc \in Traversal /\ pc' \in Traversal /\ pc \notin Inner /\ pc' \in Inner
      /\ pc # "failed" /\ pc \notin BeforeVersion /\ pc' \notin BeforeVersion
      /\ pc' \notin Counting /\ ~Decoding'
      /\ pc \notin {"metadata", "entries"} /\ pc' \notin {"metadata", "entries"}
  BY <1>1 DEF Traversal, Inner, BeforeVersion, Counting, Decoding
<1>3. /\ used \in [Resources -> Usize] /\ visited \in Seq(Groups) /\ frame.graph \in Groups
  BY DEF ReaderInv, SafeInv, TypeOK, Frames
<1>4. /\ call.limit["graphs"] # NoLimit => used'["graphs"] = used["graphs"] + 1
      /\ \A r \in {"bytes", "nodes", "edges"} : used'[r] = used[r]
  BY <1>1, <1>3 DEF Charge, Charged, Resources
<1>5. /\ IsFiniteSet(SeenGraphs) /\ Cardinality(SeenGraphs) = Len(visited)
      /\ Entered = {x.object : x \in SeenGraphs}
      /\ call.limit["graphs"] # NoLimit => used["graphs"] = Len(visited)
      /\ <<>> \notin Paths
  BY <1>2 DEF ContractInv, SeenInv
<1>6. SeenGraphs' = SeenGraphs \cup {s}
  <2>1. SeenGraphs' = {Place(x.path, x.object) : x \in {y \in tree : y.type = "NIRGraph"}}
           \cup {Place(callers[i].path, callers[i].graph) : i \in DOMAIN callers} \cup {s}
    BY <1>1, <1>2 DEF SeenGraphs
  <2>2. SeenGraphs = {Place(x.path, x.object) : x \in {y \in tree : y.type = "NIRGraph"}}
           \cup {Place(callers[i].path, callers[i].graph) : i \in DOMAIN callers}
    BY <1>2 DEF SeenGraphs
  <2> QED
    BY <2>1, <2>2
<1>7. s.object = frame.graph /\ s \notin SeenGraphs
  <2>1. s.object = frame.graph
    BY DEF Place
  <2>2. frame.graph \notin Entered
    BY <1>1 DEF Entered
  <2> QED
    BY <1>5, <2>1, <2>2
<1> HIDE DEF s
<1>8. IsFiniteSet(SeenGraphs') /\ Cardinality(SeenGraphs') = Len(visited) + 1
  BY <1>5, <1>6, <1>7, FS_AddElement
<1>9. Len(visited') = Len(visited) + 1
  BY <1>1, <1>3
<1>10. Entered' = {x.object : x \in SeenGraphs'}
  <2>1. Entered' = Entered \cup {frame.graph}
    <3>1. DOMAIN visited' = 1 .. Len(visited) + 1 /\ DOMAIN visited = 1 .. Len(visited)
          /\ Len(visited) \in Nat
      BY <1>1, <1>3
    <3>2. \A i \in DOMAIN visited : i \in DOMAIN visited' /\ visited'[i] = visited[i]
      BY <1>1, <1>3
    <3>3. visited'[Len(visited) + 1] = frame.graph /\ Len(visited) + 1 \in DOMAIN visited'
      BY <1>1, <1>3, <3>1
    <3>4. \A i \in DOMAIN visited' : i \in DOMAIN visited \/ i = Len(visited) + 1
      BY <3>1
    <3> QED
      BY <3>2, <3>3, <3>4 DEF Entered
  <2>2. {x.object : x \in SeenGraphs \cup {s}} = {x.object : x \in SeenGraphs} \cup {s.object}
    OBVIOUS
  <2> QED
    BY <1>5, <1>6, <1>7, <2>1, <2>2
<1>11. SeenInv'
  <2>1. call.limit["graphs"] # NoLimit => used'["graphs"] = Len(visited')
    BY <1>4, <1>5, <1>9
  <2>2. Paths' = Paths
    BY <1>1 DEF Paths
  <2> QED
    BY <1>5, <1>8, <1>9, <1>10, <2>1, <2>2 DEF SeenInv
<1>12. HeldInv'
  <2>1. HeldPaths' = HeldPaths
    BY <1>1 DEF HeldPaths, Paths, Awaited
  <2> QED
    BY <1>2, <1>4, <2>1 DEF HeldInv, ContractInv
<1>13. PaidInv'
  <2>1. PaidItems' = PaidVersion \cup PaidTree \cup PaidCallers \cup PaidFrame \cup PaidHere'
    BY <1>1, <1>2, PaidBase
  <2>2. PaidHere = {} /\ PaidHere' = {}
    BY <1>2 DEF PaidHere
  <2>3. PaidItems' = PaidItems
    BY <2>1, <2>2 DEF PaidItems
  <2> QED
    BY <1>2, <1>4, <2>3, PaidSame DEF ContractInv
<1>14. EdgesInv'
  BY <1>1, <1>2, <1>4, EdgesSame DEF ContractInv
<1>15. ReadableInv'
  <2>1. FrameRead'
    <3>1. TypeRead(frame.graph)' <=> TypeRead(frame.graph)
      BY <1>1, ContractStays
    <3>2. TypeRead(frame.graph)
      BY <1>2, ReadSoFar DEF FrameRead
    <3> QED
      BY <1>1, <1>2, <3>1, <3>2 DEF FrameRead
  <2> QED
    BY <1>1, <1>2, <2>1, ReadSoFar, StillReadable DEF ContractInv
<1> QED
  BY <1>11, <1>12, <1>13, <1>14, <1>15 DEF ContractInv

(* A step that only looks: nothing is decoded, entered or listed.           *)
LEMMA LookingOn ==
  ASSUME ReaderInv, ContractInv, UNCHANGED <<file, call, version, callers, visited, tree, used>>,
         pc \in Inner, pc' \in Inner, FrameRead',
         frame'.path = frame.path, frame'.graph = frame.graph, frame'.todo = frame.todo,
         PaidHere' = PaidHere,
         (pc' \in {"metadata", "entries"} /\ frame'.name = NoName) <=>
           (pc \in {"metadata", "entries"} /\ frame.name = NoName)
  PROVE  ContractInv'
<1>1. /\ pc \in Traversal /\ pc' \in Traversal /\ pc # "failed"
      /\ pc \notin BeforeVersion /\ pc' \notin BeforeVersion
  BY DEF Traversal, Inner, BeforeVersion
<1>2. SeenInv' /\ HeldInv'
  BY <1>1, StillSeen DEF ContractInv
<1>3. PaidInv'
  <2>1. PaidItems' = PaidVersion \cup PaidTree \cup PaidCallers \cup PaidFrame \cup PaidHere'
    BY <1>1, PaidBase
  <2>2. PaidItems' = PaidItems
    BY <2>1 DEF PaidItems
  <2> QED
    BY <1>1, <2>2, PaidSame DEF ContractInv
<1>4. EdgesInv'
  BY <1>1, EdgesSame DEF ContractInv
<1>5. ReadableInv'
  BY <1>1, ReadSoFar, StillReadable DEF ContractInv
<1> QED
  BY <1>2, <1>3, <1>4, <1>5 DEF ContractInv

(* The links of the graph are checked, and a member of it is opened.        *)
LEMMA LinksChecked ==
  ASSUME ReaderInv, ContractInv, UNCHANGED <<file, call>>, ~\E k : Fail(k),
         CheckGraphLinks \/ OpenMember
  PROVE  ContractInv'
<1>1. CASE CheckGraphLinks
  <2>1. /\ pc = "graphLinks" /\ pc' = "nodes" /\ OnlyHardLinks(frame.graph)
        /\ UNCHANGED <<version, frame, callers, visited, used, tree>>
    BY <1>1 DEF CheckGraphLinks, Goto
  <2>2. /\ pc \in Inner /\ pc' \in Inner /\ pc \in Traversal /\ pc' \notin Counting
        /\ ~Decoding' /\ PaidHere = {} /\ PaidHere' = {}
    BY <2>1 DEF Inner, Traversal, Counting, Decoding, PaidHere
  <2>3. TypeRead(frame.graph)
    BY <2>2, ReadSoFar DEF FrameRead
  <2>4. \A o : (TypeRead(o)' <=> TypeRead(o)) /\ (OnlyHardLinks(o)' <=> OnlyHardLinks(o))
    BY ContractStays
  <2>5. FrameRead'
    BY <2>1, <2>2, <2>3, <2>4 DEF FrameRead
  <2> QED
    BY <2>1, <2>2, <2>5, LookingOn
<1>2. CASE OpenMember
  <2>1. PICK n \in frame.todo :
          /\ OnlyHardLinks(At(frame.nodes, n))
          /\ frame' = [frame EXCEPT !.name = n, !.at = At(frame.nodes, n)]
    BY <1>2 DEF OpenMember
  <2>2. /\ pc = "members" /\ pc' = "nodeType"
        /\ UNCHANGED <<version, callers, visited, used, tree>>
    BY <1>2 DEF OpenMember
  <2>3. frame \in Frames
    BY DEF ReaderInv, SafeInv, TypeOK
  <2>4. /\ frame'.path = frame.path /\ frame'.graph = frame.graph /\ frame'.todo = frame.todo
        /\ frame'.nodes = frame.nodes /\ frame'.at = At(frame.nodes, n)
    BY <2>1, <2>3 DEF Frames
  <2>5. /\ pc \in Inner /\ pc' \in Inner /\ pc \in Traversal /\ pc \in Counting
        /\ PaidHere = {} /\ PaidHere' = {} /\ pc # "graphLinks"
    BY <2>2 DEF Inner, Traversal, Counting, PaidHere
  <2>6. TypeRead(frame.graph) /\ OnlyHardLinks(frame.graph) /\ OnlyHardLinks(frame.nodes)
    BY <2>5, ReadSoFar DEF FrameRead
  <2>7. \A o : (TypeRead(o)' <=> TypeRead(o)) /\ (OnlyHardLinks(o)' <=> OnlyHardLinks(o))
    BY ContractStays
  <2>8. /\ TypeRead(frame.graph)' /\ OnlyHardLinks(frame.graph)' /\ OnlyHardLinks(frame.nodes)'
        /\ OnlyHardLinks(frame.at)'
    <3>1. \A o : o = frame.graph => TypeRead(o)' /\ OnlyHardLinks(o)'
      BY <2>6, <2>7
    <3>2. \A o : o = frame.nodes => OnlyHardLinks(o)'
      BY <2>6, <2>7
    <3>3. \A o : o = At(frame.nodes, n) => OnlyHardLinks(o)'
      BY <2>1, <2>7
    <3> QED
      BY <2>4, <3>1, <3>2, <3>3
  <2>9. FrameRead'
    BY <2>2, <2>8 DEF FrameRead
  <2> QED
    BY <2>2, <2>4, <2>5, <2>9, LookingOn
<1> QED
  BY <1>1, <1>2

(* The names of a nodes group are paths the ledger was not charged for yet. *)
LEMMA NamesAreNew ==
  ASSUME ReaderInv, ContractInv, pc = "nodes", NEW g
  PROVE  LET T == {Append(frame.path, m) : m \in Members(g)}
         IN  /\ IsFiniteSet(HeldPaths \cup T)
             /\ Cardinality(HeldPaths \cup T) = Cardinality(HeldPaths) + Cardinality(Members(g))
             /\ Cardinality(Members(g)) \in Nat
<1> DEFINE n == Cardinality(Members(g))
           T == {Append(frame.path, m) : m \in Members(g)}
           f == [m \in Members(g) |-> Append(frame.path, m)]
<1>2. pc \in Traversal /\ pc # "failed" /\ pc \in Unlisted
  BY DEF Traversal, Inner, Unlisted
<1>3. frame \in Frames
  BY DEF ReaderInv, SafeInv, TypeOK
<1>4. Members(g) \in SUBSET Names /\ IsFiniteSet(Members(g)) /\ n \in Nat
  <2>1. Members(g) \in SUBSET Names
    BY DEF Members
  <2> QED
    BY <2>1, ContainerAssumption, FS_Subset, FS_CardinalityType
<1>9. HeldPaths \cap T = {}
  <2>1. SUFFICES ASSUME NEW m \in Members(g), Append(frame.path, m) \in HeldPaths
                 PROVE  FALSE
    OBVIOUS
  <2>2. m \in Names
    BY <1>4
  <2>3. Append(frame.path, m) \notin Paths
    BY <1>2, <2>2 DEF ReaderInv, LedgerInv, Apart
  <2>4. Append(frame.path, m) \notin Awaited(frame)
    BY <1>2 DEF ReaderInv, LedgerInv, Awaited
  <2>5. PICK i \in DOMAIN callers : Append(frame.path, m) \in Awaited(callers[i])
    BY <2>1, <2>3, <2>4 DEF HeldPaths
  <2>6. PICK k \in callers[i].todo : Append(frame.path, m) = Append(callers[i].path, k)
    BY <2>5 DEF Awaited
  <2>7. /\ frame.path \in Seq(Names) /\ callers[i].path # frame.path /\ callers \in Seq(Frames)
    BY <1>2, <2>5, Positions DEF ContractInv
  <2>8. callers[i] \in Frames
    BY <2>5, <2>7
  <2>9. callers[i].path \in Seq(Names) /\ k \in Names
    BY <2>6, <2>8 DEF Frames
  <2> DEFINE p == frame.path
             q == callers[i].path
  <2>10. p \in Seq(Names) /\ q \in Seq(Names) /\ Append(p, m) = Append(q, k) /\ p # q
    BY <2>6, <2>7, <2>9
  <2> HIDE DEF p, q
  <2> QED
    BY <2>2, <2>9, <2>10, AppendInjective
<1>10. IsFiniteSet(T) /\ Cardinality(T) = n
  <2>1. f \in [Members(g) -> T] /\ \A y \in T : \E x \in Members(g) : f[x] = y
    OBVIOUS
  <2>2. \A x, y \in Members(g) : f[x] = f[y] => x = y
    <3> DEFINE p == frame.path
    <3>1. p \in Seq(Names)
      BY <1>3 DEF Frames
    <3>2. SUFFICES ASSUME NEW x \in Members(g), NEW y \in Members(g),
                          Append(p, x) = Append(p, y)
                   PROVE  x = y
      OBVIOUS
    <3> HIDE DEF p
    <3>3. x \in Names /\ y \in Names
      BY <1>4
    <3> QED
      BY <3>1, <3>2, <3>3, AppendInjective
  <2> HIDE DEF T, f
  <2> QED
    BY <1>4, <2>1, <2>2, FiniteRange
<1> HIDE DEF T, f
<1>11. /\ IsFiniteSet(HeldPaths) /\ IsFiniteSet(HeldPaths \cup T)
       /\ Cardinality(HeldPaths \cup T) = Cardinality(HeldPaths) + Cardinality(T) - Cardinality({})
  <2>1. IsFiniteSet(HeldPaths)
    BY <1>2 DEF HeldInv, ContractInv
  <2> QED
    BY <1>9, <1>10, <2>1, FS_Union
<1>12. Cardinality({}) = 0 /\ Cardinality(HeldPaths) \in Nat
  BY <1>11, FS_EmptySet, FS_CardinalityType
<1>13. Cardinality(HeldPaths \cup T) = Cardinality(HeldPaths) + n
  BY <1>4, <1>10, <1>11, <1>12
<1> QED
  BY <1>4, <1>11, <1>13 DEF T

(* The members are listed: each is one more path the ledger was charged for.*)
LEMMA NodesListed ==
  ASSUME ReaderInv, ContractInv, UNCHANGED <<file, call>>, ~\E k : Fail(k), OpenNodes
  PROVE  ContractInv'
<1> DEFINE g == At(frame.graph, "nodes")
           n == Cardinality(Members(g))
           T == {Append(frame.path, m) : m \in Members(g)}
<1>1. /\ pc = "nodes" /\ pc' = "members" /\ UNCHANGED <<version, callers, visited, tree>>
      /\ frame' = [frame EXCEPT !.nodes = g, !.todo = Members(g)]
      /\ Charge("nodes", n) /\ OnlyHardLinks(g)
  BY DEF OpenNodes
<1>2. /\ pc \in Traversal /\ pc' \in Traversal /\ pc \in Inner /\ pc' \in Inner
      /\ pc # "failed" /\ pc \notin BeforeVersion /\ pc' \notin BeforeVersion
      /\ ~Decoding' /\ pc # "graphLinks" /\ pc \in Unlisted
      /\ pc \notin {"metadata", "entries"} /\ pc' \notin {"metadata", "entries"}
  BY <1>1 DEF Traversal, Inner, BeforeVersion, Decoding, Unlisted
<1>3. /\ used \in [Resources -> Usize] /\ frame \in Frames
  BY DEF ReaderInv, SafeInv, TypeOK
<1>4. Members(g) \in SUBSET Names /\ IsFiniteSet(Members(g)) /\ n \in Nat
  <2>1. Members(g) \in SUBSET Names
    BY DEF Members
  <2> QED
    BY <2>1, ContainerAssumption, FS_Subset, FS_CardinalityType
<1> HIDE DEF g
<1>5. /\ frame'.path = frame.path /\ frame'.graph = frame.graph
      /\ frame'.todo = Members(g) /\ frame'.nodes = g
  BY <1>1, <1>3 DEF Frames
<1>6. /\ call.limit["nodes"] # NoLimit => used'["nodes"] = used["nodes"] + n
      /\ \A r \in {"bytes", "graphs", "edges"} : used'[r] = used[r]
  BY <1>1, <1>3 DEF Charge, Charged, Resources
<1>7. SeenInv'
  <2>1. SeenGraphs' = SeenGraphs /\ Entered' = Entered /\ Paths' = Paths
    BY <1>1, <1>2, <1>5 DEF SeenGraphs, Entered, Paths
  <2> QED
    BY <1>1, <1>2, <1>6, <2>1 DEF SeenInv, ContractInv
<1>8. HeldPaths' = HeldPaths \cup T
  <2>1. frame.todo = {}
    BY <1>2 DEF ReaderInv, LedgerInv
  <2>2. Awaited(frame) = {} /\ Awaited(frame)' = T
    BY <1>5, <2>1 DEF Awaited
  <2>3. Paths' = Paths
    BY <1>1 DEF Paths
  <2>4. UNION {Awaited(callers[i]) : i \in DOMAIN callers}' =
        UNION {Awaited(callers[i]) : i \in DOMAIN callers}
    BY <1>1 DEF Awaited
  <2> QED
    BY <2>2, <2>3, <2>4 DEF HeldPaths
<1>9. /\ IsFiniteSet(HeldPaths \cup T)
      /\ Cardinality(HeldPaths \cup T) = Cardinality(HeldPaths) + n
  BY <1>1, NamesAreNew
<1> HIDE DEF T
<1>11. HeldInv'
  <2>1. call.limit["nodes"] # NoLimit => used["nodes"] = Cardinality(HeldPaths)
    BY <1>2 DEF HeldInv, ContractInv
  <2> QED
    BY <1>1, <1>6, <1>8, <1>9, <2>1 DEF HeldInv
<1>12. PaidInv'
  <2>1. PaidItems' = PaidVersion \cup PaidTree \cup PaidCallers \cup PaidFrame \cup PaidHere'
    BY <1>1, <1>2, <1>5, PaidBase
  <2>2. PaidHere = {} /\ PaidHere' = {}
    BY <1>2 DEF PaidHere
  <2>3. PaidItems' = PaidItems
    BY <2>1, <2>2 DEF PaidItems
  <2> QED
    BY <1>2, <1>6, <2>3, PaidSame DEF ContractInv
<1>13. EdgesInv'
  BY <1>1, <1>2, <1>6, EdgesSame DEF ContractInv
<1>14. ReadableInv'
  <2>1. TypeRead(frame.graph) /\ OnlyHardLinks(frame.graph)
    BY <1>2, ReadSoFar DEF FrameRead
  <2>2. \A o : (TypeRead(o)' <=> TypeRead(o)) /\ (OnlyHardLinks(o)' <=> OnlyHardLinks(o))
    BY ContractStays
  <2>3. /\ \A o : o = frame.graph => TypeRead(o)' /\ OnlyHardLinks(o)'
        /\ \A o : o = g => OnlyHardLinks(o)'
    BY <1>1, <2>1, <2>2
  <2>4. TypeRead(frame.graph)' /\ OnlyHardLinks(frame.graph)' /\ OnlyHardLinks(frame.nodes)'
    BY <1>5, <2>3
  <2>5. FrameRead'
    BY <1>2, <2>4 DEF FrameRead
  <2> QED
    BY <1>1, <1>2, <2>5, ReadSoFar, StillReadable DEF ContractInv
<1> QED
  BY <1>7, <1>11, <1>12, <1>13, <1>14 DEF ContractInv

(* The node at hand is a group of its own path.                             *)
LEMMA NodeAtHand ==
  ASSUME ReaderInv, ContractInv, pc \in Inner, Decoding
  PROVE  /\ frame \in Frames /\ frame.at \in Groups /\ used \in [Resources -> Usize]
         /\ frame.name \in Names /\ frame.name # NoName
         /\ Current = Append(frame.path, frame.name)
         /\ \A y \in PaidVersion \cup PaidTree \cup PaidCallers \cup PaidFrame :
              y.path # Current \/ y.part = <<"version", NoName>>
         /\ TypeRead(frame.graph) /\ OnlyHardLinks(frame.graph)
         /\ OnlyHardLinks(frame.nodes) /\ OnlyHardLinks(frame.at)
         /\ pc \in Traversal /\ pc \in Counting /\ pc # "failed" /\ pc \notin BeforeVersion
<1>1. frame \in Frames /\ frame.at \in Groups /\ used \in [Resources -> Usize]
  BY DEF ReaderInv, SafeInv, TypeOK, Frames
<1>2. /\ pc \in Traversal /\ pc \in Counting /\ pc # "graphLinks" /\ pc # "failed"
      /\ pc \notin BeforeVersion
  BY DEF Traversal, Counting, Inner, Decoding, BeforeVersion
<1>3. /\ frame.name \in Names /\ frame.name # NoName
      /\ Append(frame.path, frame.name) \notin Paths
  BY <1>2, Positions DEF ContractInv
<1>4. Current = Append(frame.path, frame.name)
  BY <1>3 DEF Current
<1>5. \A y \in PaidVersion \cup PaidTree \cup PaidCallers \cup PaidFrame :
        y.path # Current \/ y.part = <<"version", NoName>>
  BY <1>2, <1>3, <1>4, PaidElsewhere DEF ContractInv
<1>6. /\ TypeRead(frame.graph) /\ OnlyHardLinks(frame.graph)
      /\ OnlyHardLinks(frame.nodes) /\ OnlyHardLinks(frame.at)
  BY <1>2, ReadSoFar DEF FrameRead
<1> QED
  BY <1>1, <1>2, <1>3, <1>4, <1>5, <1>6

(* The position of a field in its plan.                                     *)
LEMMA PlanIsSeq ==
  ASSUME NEW o
  PROVE  /\ Plan(o) \in Seq(FieldSteps) /\ Len(Plan(o)) \in Nat
         /\ \A i \in DOMAIN Plan(o) : i \in Nat /\ i >= 1 /\ i <= Len(Plan(o))
         /\ DOMAIN Plan(o) = 1 .. Len(Plan(o))
<1>1. Plan(o) \in Seq(FieldSteps)
  <2>1. <<>> \in Seq(FieldSteps)
    OBVIOUS
  <2> QED
    BY <2>1, PlanFacts DEF Plan
<1> QED
  BY <1>1

(* The type of the node at hand is not paid yet.                            *)
LEMMA TypeIsNew ==
  ASSUME ReaderInv, ContractInv, pc = "nodeType"
  PROVE  TypeItem(Current, frame.at) \notin PaidItems
<1> DEFINE x == TypeItem(Current, frame.at)
<1>1. pc \in Inner /\ Decoding
  BY DEF Inner, Decoding
<1>2. \A y \in PaidVersion \cup PaidTree \cup PaidCallers \cup PaidFrame :
        y.path # Current \/ y.part = <<"version", NoName>>
  BY <1>1, NodeAtHand
<1>3. x.path = Current /\ x.part = <<"type", NoName>>
  BY ItemsAt
<1>4. <<"type", NoName>> # <<"version", NoName>>
  OBVIOUS
<1>5. PaidHere = {}
  BY DEF PaidHere
<1> QED
  BY <1>2, <1>3, <1>4, <1>5 DEF PaidItems

(* The type of a node is decoded; a leaf is next.                           *)
LEMMA LeafTyped ==
  ASSUME ReaderInv, ContractInv, UNCHANGED <<file, call>>, ~\E k : Fail(k), ReadNodeType,
         DataAt(frame.at, "type").value # "NIRGraph"
  PROVE  ContractInv'
<1> DEFINE d == DataAt(frame.at, "type")
           x == TypeItem(Current, frame.at)
<1>1. /\ pc = "nodeType" /\ pc' = "metadata" /\ UNCHANGED <<version, callers, visited, tree>>
      /\ HasDataset(frame.at, "type") /\ Verdict(d, "text") = "none"
      /\ Charge("bytes", Cost(d, "text"))
      /\ frame' = [frame EXCEPT !.type = d.value, !.field = 1]
      /\ SafeInv
  BY DEF ReadNodeType, ReaderInv
<1>2. /\ pc \in Inner /\ pc' \in Inner /\ pc' \in Traversal /\ pc' \notin BeforeVersion
      /\ Decoding
  BY <1>1 DEF Traversal, Inner, BeforeVersion, Decoding
<1>3. /\ frame \in Frames /\ frame.at \in Groups /\ frame.name # NoName
      /\ \A y \in PaidVersion \cup PaidTree \cup PaidCallers \cup PaidFrame :
           y.path # Current \/ y.part = <<"version", NoName>>
      /\ TypeRead(frame.graph) /\ OnlyHardLinks(frame.graph)
      /\ OnlyHardLinks(frame.nodes) /\ OnlyHardLinks(frame.at)
      /\ pc \in Traversal /\ pc # "failed" /\ pc \notin BeforeVersion
  BY <1>2, NodeAtHand
<1>4. d \in DatasetRecords
  BY <1>1, <1>3, ContainerFacts, KnownNames DEF SafeInv
<1> HIDE DEF d
<1>5. /\ frame'.path = frame.path /\ frame'.graph = frame.graph /\ frame'.todo = frame.todo
      /\ frame'.nodes = frame.nodes /\ frame'.at = frame.at /\ frame'.name = frame.name
      /\ frame'.field = 1
  BY <1>1, <1>3 DEF Frames
<1>6. /\ Is(d, "text") /\ Bytes(d, "text") \in Nat
      /\ call.limit["bytes"] # NoLimit => used'["bytes"] = used["bytes"] + Bytes(d, "text")
      /\ \A r \in {"graphs", "nodes", "edges"} : used'[r] = used[r]
  BY <1>1, <1>4, DecodingPays DEF Wants
<1>7. SeenInv' /\ HeldInv'
  BY <1>1, <1>2, <1>3, <1>5, <1>6, StillSeen DEF ContractInv
<1>8. PaidItems' = PaidItems \cup {x}
  <2>1. PaidItems' = PaidVersion \cup PaidTree \cup PaidCallers \cup PaidFrame \cup PaidHere'
    BY <1>1, <1>2, <1>3, <1>5, PaidBase
  <2>2. PaidHere = {}
    BY <1>1 DEF PaidHere
  <2>3. PaidHere' = PaidNode'
    BY <1>1 DEF PaidHere, PaidEntries
  <2>4. Current' = Current
    BY <1>5 DEF Current
  <2>5. {j \in DOMAIN Plan(frame.at) : j < frame.field}' = {}
    <3>1. Plan(frame.at)' = Plan(frame.at)
      BY <1>5, ContractStays
    <3> QED
      BY <1>5, <3>1, PlanIsSeq
  <2>6. TypeItem(Current, frame.at)' = x
    BY <1>5, <2>4, ItemsStay
  <2>7. PaidNode' = {TypeItem(Current, frame.at)'}
                      \cup {FieldItem(Current, frame.at, i)' :
                             i \in {j \in DOMAIN Plan(frame.at) : j < frame.field}'}
    BY <1>3, <1>5 DEF PaidNode
  <2>8. PaidNode' = {x}
    BY <2>5, <2>6, <2>7
  <2> QED
    BY <2>1, <2>2, <2>3, <2>8 DEF PaidItems
<1>9. x \notin PaidItems /\ x.amount = Bytes(d, "text")
  <2>1. x.amount = Bytes(d, "text")
    BY DEF TypeItem, Item, Bytes, d
  <2> QED
    BY <1>1, <2>1, TypeIsNew
<1> HIDE DEF x
<1>10. PaidInv'
  BY <1>3, <1>6, <1>8, <1>9, PaidMore DEF ContractInv
<1>11. EdgesInv'
  BY <1>1, <1>3, <1>5, <1>6, EdgesSame DEF ContractInv
<1>12. ReadableInv'
  <2>1. TypeRead(frame.at)
    BY <1>1, <1>6 DEF TypeRead, IsDatasetAt, d
  <2>2. \A o : (TypeRead(o)' <=> TypeRead(o)) /\ (OnlyHardLinks(o)' <=> OnlyHardLinks(o))
               /\ Plan(o)' = Plan(o)
    BY ContractStays
  <2>3. /\ \A o : o = frame.graph => TypeRead(o)' /\ OnlyHardLinks(o)'
        /\ \A o : o = frame.nodes => OnlyHardLinks(o)'
        /\ \A o : o = frame.at => TypeRead(o)' /\ OnlyHardLinks(o)'
    BY <1>3, <2>1, <2>2
  <2>4. /\ TypeRead(frame.graph)' /\ OnlyHardLinks(frame.graph)' /\ OnlyHardLinks(frame.nodes)'
        /\ OnlyHardLinks(frame.at)' /\ TypeRead(frame.at)'
    BY <1>5, <2>3
  <2>5. \A i \in DOMAIN Plan(frame.at)' : ~(i < frame'.field)
    <3>1. Plan(frame.at)' = Plan(frame.at)
      BY <1>5, <2>2
    <3> QED
      BY <1>5, <3>1, PlanIsSeq
  <2>6. FrameRead'
    BY <1>1, <1>3, <1>5, <2>4, <2>5 DEF FrameRead
  <2> QED
    BY <1>1, <1>2, <1>3, <2>6, ReadSoFar, StillReadable DEF ContractInv
<1> QED
  BY <1>7, <1>10, <1>11, <1>12 DEF ContractInv

(* The type of a node is decoded; it is a graph, and this one is suspended.  *)
LEMMA GraphTyped ==
  ASSUME ReaderInv, ContractInv, UNCHANGED <<file, call>>, ~\E k : Fail(k), ReadNodeType,
         DataAt(frame.at, "type").value = "NIRGraph"
  PROVE  ContractInv'
<1> DEFINE d == DataAt(frame.at, "type")
           x == TypeItem(Current, frame.at)
           n == Len(callers)
<1>1. /\ pc = "nodeType" /\ pc' = "enter" /\ UNCHANGED <<version, visited, tree>>
      /\ HasDataset(frame.at, "type") /\ Verdict(d, "text") = "none"
      /\ Charge("bytes", Cost(d, "text"))
      /\ callers' = Append(callers, frame)
      /\ frame' = NewFrame(frame.at, Append(frame.path, frame.name))
      /\ SafeInv /\ callers \in Seq(Frames)
  BY DEF ReadNodeType, ReaderInv, SafeInv, TypeOK
<1>2. /\ pc \in Inner /\ pc' \notin Inner /\ pc' \in Traversal /\ pc' \notin BeforeVersion
      /\ Decoding /\ ~Decoding' /\ pc' \notin Counting
      /\ pc \notin {"metadata", "entries"} /\ pc' \notin {"metadata", "entries"}
  BY <1>1 DEF Traversal, Inner, BeforeVersion, Decoding, Counting
<1>3. /\ frame \in Frames /\ frame.at \in Groups /\ frame.name # NoName
      /\ Current = Append(frame.path, frame.name)
      /\ \A y \in PaidVersion \cup PaidTree \cup PaidCallers \cup PaidFrame :
           y.path # Current \/ y.part = <<"version", NoName>>
      /\ TypeRead(frame.graph) /\ OnlyHardLinks(frame.graph)
      /\ OnlyHardLinks(frame.nodes) /\ OnlyHardLinks(frame.at)
      /\ pc \in Traversal /\ pc # "failed" /\ pc \notin BeforeVersion
  BY <1>2, NodeAtHand
<1>4. d \in DatasetRecords
  BY <1>1, <1>3, ContainerFacts, KnownNames DEF SafeInv
<1> HIDE DEF d
<1>5. /\ frame'.path = Current /\ frame'.graph = frame.at /\ frame'.todo = {}
  BY <1>1, <1>3 DEF NewFrame
<1>6. /\ Is(d, "text") /\ Bytes(d, "text") \in Nat
      /\ call.limit["bytes"] # NoLimit => used'["bytes"] = used["bytes"] + Bytes(d, "text")
      /\ \A r \in {"graphs", "nodes", "edges"} : used'[r] = used[r]
  BY <1>1, <1>4, DecodingPays DEF Wants
<1>7. /\ n \in Nat /\ DOMAIN callers' = DOMAIN callers \cup {n + 1}
      /\ callers'[n + 1] = frame /\ \A i \in DOMAIN callers : callers'[i] = callers[i]
  BY <1>1, <1>3
<1> HIDE DEF n
<1>8. SeenInv'
  <2>1. {Place(callers[i].path, callers[i].graph) : i \in DOMAIN callers}' =
        {Place(callers[i].path, callers[i].graph) : i \in DOMAIN callers}
          \cup {Place(frame.path, frame.graph)}
    BY <1>7
  <2>2. SeenGraphs' = SeenGraphs
    BY <1>1, <1>2, <2>1 DEF SeenGraphs
  <2>3. Entered' = Entered /\ Paths' = Paths
    BY <1>1 DEF Entered, Paths
  <2> QED
    BY <1>1, <1>3, <1>6, <2>2, <2>3 DEF SeenInv, ContractInv
<1>9. HeldInv'
  <2>1. Awaited(frame)' = {}
    BY <1>5 DEF Awaited
  <2>2. (UNION {Awaited(callers[i]) : i \in DOMAIN callers})' =
        (UNION {Awaited(callers[i]) : i \in DOMAIN callers}) \cup Awaited(frame)
    <3>1. (UNION {Awaited(callers[i]) : i \in DOMAIN callers})' =
          UNION {Awaited(callers'[i]) : i \in DOMAIN callers'}
      BY DEF Awaited
    <3>2. {Awaited(callers'[i]) : i \in DOMAIN callers'} =
          {Awaited(callers[i]) : i \in DOMAIN callers} \cup {Awaited(frame)}
      BY <1>7
    <3> QED
      BY <3>1, <3>2
  <2>3. Paths' = Paths
    BY <1>1 DEF Paths
  <2>4. HeldPaths' = HeldPaths
    BY <2>1, <2>2, <2>3 DEF HeldPaths
  <2> QED
    BY <1>1, <1>3, <1>6, <2>4 DEF HeldInv, ContractInv
<1>10. PaidItems' = PaidItems \cup {x}
  <2>1. PaidVersion' = PaidVersion
    BY <1>2, <1>3, ItemsStay DEF PaidVersion
  <2>2. PaidTree' = PaidTree
    BY <1>1, ItemsStay DEF PaidTree
  <2>3. PaidCallers' = PaidCallers \cup PaidFrame
    <3>1. PaidFrame = {TypeItem(frame.path, frame.graph)}
      BY <1>3 DEF PaidFrame
    <3>2. PaidCallers' = {TypeItem(callers'[i].path, callers'[i].graph) : i \in DOMAIN callers'}
      BY ItemsStay DEF PaidCallers
    <3> QED
      BY <1>7, <3>1, <3>2 DEF PaidCallers
  <2>4. PaidFrame' = {x}
    <3>1. PaidFrame' = {TypeItem(frame.path, frame.graph)'}
      BY <1>2 DEF PaidFrame
    <3>2. TypeItem(frame.path, frame.graph)' = x
      BY <1>5, ItemsStay
    <3> QED
      BY <3>1, <3>2
  <2>5. PaidHere = {} /\ PaidHere' = {}
    BY <1>2 DEF PaidHere
  <2> QED
    BY <2>1, <2>2, <2>3, <2>4, <2>5 DEF PaidItems
<1>11. x \notin PaidItems /\ x.amount = Bytes(d, "text")
  <2>1. x.amount = Bytes(d, "text")
    BY DEF TypeItem, Item, Bytes, d
  <2> QED
    BY <1>1, <2>1, TypeIsNew
<1> HIDE DEF x
<1>12. PaidInv'
  BY <1>3, <1>6, <1>10, <1>11, PaidMore DEF ContractInv
<1>13. EdgesInv'
  BY <1>1, <1>2, <1>3, <1>6, EdgesSame DEF ContractInv
<1>14. ReadableInv'
  <2>1. TypeRead(frame.at)
    BY <1>1, <1>6 DEF TypeRead, IsDatasetAt, d
  <2>2. \A o : o = frame.at => TypeRead(o)'
    BY <2>1, ContractStays
  <2>3. TypeRead(frame.graph)'
    BY <1>5, <2>2
  <2>4. FrameRead'
    BY <1>1, <1>2, <2>3 DEF FrameRead
  <2>5. \A i \in DOMAIN callers' : GraphRead(callers'[i])
    <3>1. GraphRead(frame)
      BY <1>3 DEF GraphRead
    <3>2. \A i \in DOMAIN callers : GraphRead(callers[i])
      BY <1>3, ReadSoFar
    <3> QED
      BY <1>7, <3>1, <3>2
  <2> QED
    BY <1>1, <1>2, <1>3, <2>4, <2>5, ReadSoFar, StillReadable DEF ContractInv
<1> QED
  BY <1>8, <1>9, <1>12, <1>13, <1>14 DEF ContractInv

(* The metadata group of the object at hand is opened.                      *)
LEMMA MetadataOpened ==
  ASSUME ReaderInv, ContractInv, UNCHANGED <<file, call>>, ~\E k : Fail(k), OpenMetadata
  PROVE  ContractInv'
<1>1. /\ pc = "metadata" /\ pc' = "entries"
      /\ UNCHANGED <<version, callers, visited, used, tree>> /\ frame \in Frames
  BY DEF OpenMetadata, ReaderInv, SafeInv, TypeOK
<1>2. /\ frame' = [frame EXCEPT !.keys = Keys(frame.at)]
      /\ MetadataRead(frame.at, Keys(frame.at))
  <2>1. CASE ~Linked(frame.at, "metadata")
    BY <2>1 DEF OpenMetadata, Keys, MetadataRead
  <2>2. CASE Linked(frame.at, "metadata")
    BY <2>2 DEF OpenMetadata, Keys, MetadataRead, HasGroup
  <2> QED
    BY <2>1, <2>2
<1>3. /\ frame'.path = frame.path /\ frame'.graph = frame.graph /\ frame'.todo = frame.todo
      /\ frame'.nodes = frame.nodes /\ frame'.at = frame.at /\ frame'.name = frame.name
      /\ frame'.field = frame.field /\ frame'.keys = Keys(frame.at)
  BY <1>1, <1>2 DEF Frames
<1>4. /\ pc \in Inner /\ pc' \in Inner /\ pc \in Traversal /\ pc \in Counting
      /\ (Decoding' <=> Decoding) /\ pc # "graphLinks" /\ pc # "failed"
  BY <1>1, <1>3 DEF Inner, Traversal, Counting, Decoding
<1>5. PaidHere' = PaidHere
  <2>1. Current' = Current
    BY <1>3 DEF Current
  <2>2. PaidEntries = {}
    BY <1>1 DEF PaidEntries
  <2>3. PaidEntries' = {}
    <3>1. Keys(frame.at)' = Keys(frame.at)
      BY <1>3, ContractStays
    <3>2. Keys(frame.at)' \ frame'.keys = {}
      BY <1>3, <3>1
    <3> QED
      BY <1>1, <3>2 DEF PaidEntries
  <2>4. PaidNode' = PaidNode
    <3>1. /\ EdgeItem(frame.path, frame.at)' = EdgeItem(frame.path, frame.at)
          /\ TypeItem(Current, frame.at)' = TypeItem(Current, frame.at)
          /\ Plan(frame.at)' = Plan(frame.at)
          /\ \A i : FieldItem(Current, frame.at, i)' = FieldItem(Current, frame.at, i)
      BY <1>3, <2>1, ItemsStay, ContractStays
    <3> QED
      BY <1>3, <3>1 DEF PaidNode
  <2> QED
    BY <1>1, <2>2, <2>3, <2>4 DEF PaidHere
<1>6. FrameRead'
  <2>1. FrameRead
    BY <1>4, ReadSoFar
  <2>2. /\ \A o : (TypeRead(o)' <=> TypeRead(o)) /\ (OnlyHardLinks(o)' <=> OnlyHardLinks(o))
                  /\ Plan(o)' = Plan(o)
        /\ \A o, i : (FieldReadable(o, i)' <=> FieldReadable(o, i))
                     /\ (MetadataRead(o, i)' <=> MetadataRead(o, i))
        /\ \A o, n, w : IsDatasetAt(o, n, w)' <=> IsDatasetAt(o, n, w)
    BY ContractStays
  <2>3. /\ TypeRead(frame.graph)' <=> TypeRead(frame.graph)
        /\ OnlyHardLinks(frame.graph)' <=> OnlyHardLinks(frame.graph)
        /\ OnlyHardLinks(frame.nodes)' <=> OnlyHardLinks(frame.nodes)
        /\ OnlyHardLinks(frame.at)' <=> OnlyHardLinks(frame.at)
        /\ TypeRead(frame.at)' <=> TypeRead(frame.at)
        /\ IsDatasetAt(frame.graph, "edges", "edges")' <=> IsDatasetAt(frame.graph, "edges", "edges")
        /\ Plan(frame.at)' = Plan(frame.at)
        /\ \A i : FieldReadable(frame.at, i)' <=> FieldReadable(frame.at, i)
    BY <1>3, <2>2
  <2>4. MetadataRead(frame.at, frame.keys)'
    <3>1. \A o, k : o = frame.at /\ k = Keys(frame.at) => MetadataRead(o, k)'
      BY <1>2, <2>2
    <3> QED
      BY <1>3, <3>1
  <2> QED
    BY <1>1, <1>3, <1>4, <2>1, <2>3, <2>4 DEF FrameRead
<1> QED
  BY <1>1, <1>3, <1>4, <1>5, <1>6, LookingOn

(* One more part of the object at hand is decoded.                          *)
LEMMA PartDecoded ==
  ASSUME ReaderInv, ContractInv, UNCHANGED <<file, call, version, callers, visited, tree, pc>>,
         pc = "entries", FrameRead',
         frame'.path = frame.path, frame'.graph = frame.graph, frame'.todo = frame.todo,
         frame'.name = frame.name,
         NEW x, x.amount \in Nat, x \notin PaidItems, PaidHere' = PaidHere \cup {x},
         call.limit["bytes"] # NoLimit => used'["bytes"] = used["bytes"] + x.amount,
         \A r \in {"graphs", "nodes", "edges"} : used'[r] = used[r]
  PROVE  ContractInv'
<1>1. /\ pc \in Traversal /\ pc' \in Traversal /\ pc # "failed"
      /\ pc \notin BeforeVersion /\ pc' \notin BeforeVersion
  BY DEF Traversal, Inner, BeforeVersion
<1>2. SeenInv' /\ HeldInv'
  BY <1>1, StillSeen DEF ContractInv
<1>3. PaidInv'
  <2>1. PaidItems' = PaidVersion \cup PaidTree \cup PaidCallers \cup PaidFrame \cup PaidHere'
    BY <1>1, PaidBase
  <2>2. PaidItems' = PaidItems \cup {x}
    BY <2>1 DEF PaidItems
  <2> QED
    BY <1>1, <2>2, PaidMore DEF ContractInv
<1>4. EdgesInv'
  BY <1>1, EdgesSame DEF ContractInv
<1>5. ReadableInv'
  BY <1>1, ReadSoFar, StillReadable DEF ContractInv
<1> QED
  BY <1>2, <1>3, <1>4, <1>5 DEF ContractInv

(* What is at hand was read, after a step that keeps it in hand.            *)
LEMMA FrameStaysRead ==
  ASSUME UNCHANGED <<file, pc>>, pc = "entries", FrameRead,
         frame'.path = frame.path, frame'.graph = frame.graph, frame'.nodes = frame.nodes,
         frame'.at = frame.at, frame'.name = frame.name,
         MetadataRead(frame.at, frame'.keys),
         frame.name # NoName =>
           \A i \in DOMAIN Plan(frame.at) : i < frame'.field => FieldReadable(frame.at, i)
  PROVE  FrameRead'
<1>1. /\ \A o : (TypeRead(o)' <=> TypeRead(o)) /\ (OnlyHardLinks(o)' <=> OnlyHardLinks(o))
                /\ Plan(o)' = Plan(o)
      /\ \A o, i : (FieldReadable(o, i)' <=> FieldReadable(o, i))
                   /\ (MetadataRead(o, i)' <=> MetadataRead(o, i))
      /\ \A o, n, w : IsDatasetAt(o, n, w)' <=> IsDatasetAt(o, n, w)
  BY ContractStays
<1>2. /\ TypeRead(frame.graph)' <=> TypeRead(frame.graph)
      /\ OnlyHardLinks(frame.graph)' <=> OnlyHardLinks(frame.graph)
      /\ OnlyHardLinks(frame.nodes)' <=> OnlyHardLinks(frame.nodes)
      /\ OnlyHardLinks(frame.at)' <=> OnlyHardLinks(frame.at)
      /\ TypeRead(frame.at)' <=> TypeRead(frame.at)
      /\ IsDatasetAt(frame.graph, "edges", "edges")' <=> IsDatasetAt(frame.graph, "edges", "edges")
      /\ Plan(frame.at)' = Plan(frame.at)
      /\ \A i : FieldReadable(frame.at, i)' <=> FieldReadable(frame.at, i)
  BY <1>1
<1>3. MetadataRead(frame.at, frame.keys)'
  <2>1. \A o, k : o = frame.at /\ k = frame'.keys => MetadataRead(o, k)'
    BY <1>1
  <2> QED
    BY <2>1
<1>4. Decoding' <=> Decoding
  BY DEF Decoding
<1> QED
  BY <1>2, <1>3, <1>4 DEF FrameRead

(* The items of the object at hand are not paid elsewhere, its type of a    *)
(* graph excepted.                                                          *)
LEMMA NotElsewhere ==
  ASSUME ReaderInv, ContractInv, pc \in {"metadata", "entries"}, NEW x, x.path = Current,
         x.part # <<"version", NoName>>, x.part # <<"type", NoName>>
  PROVE  x \notin PaidVersion \cup PaidTree \cup PaidCallers \cup PaidFrame
<1>1. pc \in Inner /\ pc \in Traversal
  BY DEF Inner, Traversal
<1>2. CASE frame.name = NoName
  <2>1. Current = frame.path
    BY <1>2 DEF Current
  <2> QED
    BY <1>1, <2>1, PaidElsewhere DEF ContractInv
<1>3. CASE frame.name # NoName
  <2>1. Decoding
    BY <1>3 DEF Decoding
  <2> QED
    BY <1>1, <2>1, NodeAtHand
<1> QED
  BY <1>2, <1>3

(* The items of the object at hand are at its path.                         *)
LEMMA HereParts ==
  ASSUME TRUE
  PROVE  /\ \A y \in PaidEntries : \E k \in Keys(frame.at) \ frame.keys :
              y.path = Current /\ y.part = <<"metadata", k>>
         /\ \A y \in PaidNode :
              \/ frame.name = NoName /\ y.part = <<"edges", NoName>>
              \/ frame.name # NoName /\ y.part = <<"type", NoName>>
              \/ /\ frame.name # NoName
                 /\ \E i \in DOMAIN Plan(frame.at) : i < frame.field /\ y.part = <<"field", i>>
<1>1. \A y \in PaidEntries : \E k \in Keys(frame.at) \ frame.keys :
        y.path = Current /\ y.part = <<"metadata", k>>
  BY ItemsAt DEF PaidEntries
<1>2. ASSUME NEW y \in PaidNode, frame.name = NoName
      PROVE  y.part = <<"edges", NoName>>
  BY <1>2, ItemsAt DEF PaidNode
<1>3. ASSUME NEW y \in PaidNode, frame.name # NoName
      PROVE  \/ y.part = <<"type", NoName>>
             \/ \E i \in DOMAIN Plan(frame.at) : i < frame.field /\ y.part = <<"field", i>>
  <2>1. CASE y = TypeItem(Current, frame.at)
    BY <2>1, ItemsAt
  <2>2. CASE y # TypeItem(Current, frame.at)
    <3>1. PICK i \in DOMAIN Plan(frame.at) :
            i < frame.field /\ y = FieldItem(Current, frame.at, i)
      BY <1>3, <2>2 DEF PaidNode
    <3> QED
      BY <3>1, ItemsAt
  <2> QED
    BY <2>1, <2>2
<1> QED
  BY <1>1, <1>2, <1>3

(* An entry that is still to be read is not paid yet.                       *)
LEMMA EntryIsNew ==
  ASSUME ReaderInv, ContractInv, pc = "entries", NEW k \in frame.keys
  PROVE  EntryItem(Current, frame.at, k) \notin PaidItems
<1> DEFINE x == EntryItem(Current, frame.at, k)
<1>1. x.path = Current /\ x.part = <<"metadata", k>>
  BY ItemsAt
<1> HIDE DEF x
<1>2. <<"metadata", k>> \notin {<<"version", NoName>>, <<"type", NoName>>, <<"edges", NoName>>}
      /\ \A i : <<"metadata", k>> # <<"field", i>>
  OBVIOUS
<1>3. x \notin PaidNode
  BY <1>1, <1>2, HereParts
<1>4. x \notin PaidEntries
  <2>1. \A j \in Keys(frame.at) \ frame.keys : <<"metadata", j>> # <<"metadata", k>>
    OBVIOUS
  <2> QED
    BY <1>1, <2>1, HereParts
<1>5. x \notin PaidVersion \cup PaidTree \cup PaidCallers \cup PaidFrame
  BY <1>1, <1>2, NotElsewhere
<1>6. x \notin PaidItems
  BY <1>3, <1>4, <1>5 DEF PaidItems, PaidHere
<1> QED
  BY <1>6 DEF x

(* An entry of the metadata is decoded.                                     *)
LEMMA EntryDecoded ==
  ASSUME ReaderInv, ContractInv, UNCHANGED <<file, call>>, ~\E k : Fail(k), ReadEntry
  PROVE  ContractInv'
<1> DEFINE md == At(frame.at, "metadata")
<1>1. PICK k \in frame.keys :
        /\ HasDataset(md, k) /\ Verdict(DataAt(md, k), "metadata") = "none"
        /\ frame' = [frame EXCEPT !.keys = @ \ {k}]
        /\ Charge("bytes", Cost(DataAt(md, k), "metadata"))
        /\ UNCHANGED <<pc, version, callers, visited, tree>>
  BY DEF ReadEntry
<1> DEFINE d == DataAt(md, k)
           x == EntryItem(Current, frame.at, k)
<1>2. /\ pc = "entries" /\ SafeInv /\ frame \in Frames /\ pc \in Traversal /\ frame.at \in Groups
      /\ k \in Names
  BY <1>1 DEF ReadEntry, ReaderInv, SafeInv, TypeOK, Traversal, Inner, Frames
<1>3. /\ frame'.path = frame.path /\ frame'.graph = frame.graph /\ frame'.todo = frame.todo
      /\ frame'.nodes = frame.nodes /\ frame'.at = frame.at /\ frame'.name = frame.name
      /\ frame'.field = frame.field /\ frame'.keys = frame.keys \ {k}
  BY <1>1, <1>2 DEF Frames
<1>4. FrameRead /\ MetadataRead(frame.at, frame.keys)
  BY <1>2, ReadSoFar DEF FrameRead
<1>5. frame.keys \subseteq Keys(frame.at) /\ k \in Keys(frame.at)
  BY <1>1, <1>4 DEF MetadataRead
<1>6. Linked(frame.at, "metadata") /\ HasGroup(frame.at, "metadata") /\ md \in Groups
  <2>1. Linked(frame.at, "metadata")
    BY <1>5 DEF Keys
  <2> QED
    BY <1>4, <2>1 DEF MetadataRead, HasGroup
<1>7. d \in DatasetRecords
  BY <1>1, <1>2, <1>6, ContainerFacts DEF SafeInv
<1>8. /\ Is(d, "metadata") /\ Bytes(d, "metadata") \in Nat
      /\ call.limit["bytes"] # NoLimit =>
           used'["bytes"] = used["bytes"] + Bytes(d, "metadata")
      /\ \A r \in {"graphs", "nodes", "edges"} : used'[r] = used[r]
  BY <1>1, <1>2, <1>7, DecodingPays DEF Wants
<1>9. x.amount = Bytes(d, "metadata") /\ x.path = Current /\ x.part = <<"metadata", k>>
  <2>1. x.amount = Bytes(d, "metadata")
    BY DEF EntryItem, Item, Bytes
  <2> QED
    BY <2>1, ItemsAt
<1>10. IsDatasetAt(md, k, "metadata")
  BY <1>1, <1>8 DEF IsDatasetAt
<1>11. MetadataRead(frame.at, frame'.keys)
  BY <1>3, <1>4, <1>10 DEF MetadataRead
<1> HIDE DEF d, md
<1>12. PaidHere' = PaidHere \cup {x}
  <2>1. Current' = Current
    BY <1>3 DEF Current
  <2>2. /\ \A j : EntryItem(Current, frame.at, j)' = EntryItem(Current, frame.at, j)
        /\ EdgeItem(frame.path, frame.at)' = EdgeItem(frame.path, frame.at)
        /\ TypeItem(Current, frame.at)' = TypeItem(Current, frame.at)
        /\ Plan(frame.at)' = Plan(frame.at) /\ Keys(frame.at)' = Keys(frame.at)
        /\ \A i : FieldItem(Current, frame.at, i)' = FieldItem(Current, frame.at, i)
    BY <1>3, <2>1, ItemsStay, ContractStays
  <2>3. PaidNode' = PaidNode
    BY <1>3, <2>2 DEF PaidNode
  <2>4. Keys(frame.at)' \ frame'.keys = (Keys(frame.at) \ frame.keys) \cup {k}
    BY <1>1, <1>3, <1>5, <2>2
  <2>5. PaidEntries' = {EntryItem(Current, frame.at, j)' : j \in Keys(frame.at)' \ frame'.keys}
    BY <1>1, <1>2 DEF PaidEntries
  <2>6. PaidEntries = {EntryItem(Current, frame.at, j) : j \in Keys(frame.at) \ frame.keys}
    BY <1>2 DEF PaidEntries
  <2>7. PaidEntries' = PaidEntries \cup {x}
    BY <2>2, <2>4, <2>5, <2>6
  <2> QED
    BY <1>1, <1>2, <2>3, <2>7 DEF PaidHere
<1>13. x \notin PaidItems
  BY <1>1, <1>2, EntryIsNew
<1> HIDE DEF x
<1>14. FrameRead'
  <2>1. pc = "entries" /\ frame.name # NoName =>
          \A i \in DOMAIN Plan(frame.at) : i < frame.field => FieldReadable(frame.at, i)
    BY <1>4 DEF FrameRead
  <2> QED
    BY <1>1, <1>2, <1>3, <1>4, <1>11, <2>1, FrameStaysRead
<1> QED
  BY <1>1, <1>2, <1>3, <1>8, <1>9, <1>12, <1>13, <1>14, PartDecoded

(* The field that is read next is not paid yet.                             *)
LEMMA FieldIsNew ==
  ASSUME ReaderInv, ContractInv, pc = "entries", frame.name # NoName
  PROVE  FieldItem(Current, frame.at, frame.field) \notin PaidItems
<1> DEFINE i == frame.field
           x == FieldItem(Current, frame.at, i)
<1>1. x.path = Current /\ x.part = <<"field", i>>
  BY ItemsAt
<1>2. i \in Nat
  BY DEF ReaderInv, SafeInv, TypeOK, Frames
<1> HIDE DEF x
<1>3. <<"field", i>> \notin {<<"version", NoName>>, <<"type", NoName>>, <<"edges", NoName>>}
      /\ \A k : <<"metadata", k>> # <<"field", i>>
  OBVIOUS
<1>4. x \notin PaidNode
  <2>1. \A j \in Nat : j < i => <<"field", j>> # <<"field", i>>
    BY <1>2
  <2>2. \A j \in DOMAIN Plan(frame.at) : j \in Nat
    BY PlanIsSeq
  <2> QED
    BY <1>1, <1>3, <2>1, <2>2, HereParts
<1>5. x \notin PaidEntries
  BY <1>1, <1>3, HereParts
<1>6. x \notin PaidVersion \cup PaidTree \cup PaidCallers \cup PaidFrame
  BY <1>1, <1>3, NotElsewhere
<1>7. x \notin PaidItems
  BY <1>4, <1>5, <1>6 DEF PaidItems, PaidHere
<1> QED
  BY <1>7 DEF x

(* A field is read, or its absence is allowed for.                          *)
LEMMA FieldDecoded ==
  ASSUME ReaderInv, ContractInv, UNCHANGED <<file, call>>, ~\E k : Fail(k), ReadField
  PROVE  ContractInv'
<1> DEFINE o == frame.at
           i == frame.field
           step == Plan(o)[i]
           d == DataAt(o, step.field)
           like == DataAt(o, step.like)
           x == FieldItem(Current, o, i)
<1>1. /\ pc = "entries" /\ SafeInv /\ frame.name # NoName /\ frame.type \in DOMAIN FieldPlan
      /\ i \in DOMAIN FieldPlan[frame.type] /\ frame.keys = {}
      /\ UNCHANGED <<pc, version, callers, visited, tree>> /\ NextField
  BY DEF ReadField, AtLeaf, ReaderInv
<1>2. /\ pc \in Inner /\ Decoding /\ pc # "nodeType"
  BY <1>1 DEF Inner, Decoding
<1>3. /\ frame \in Frames /\ o \in Groups /\ pc \in Traversal /\ pc # "failed"
      /\ used \in [Resources -> Usize]
  BY <1>2, NodeAtHand
<1>4. /\ frame.type = DataAt(o, "type").value /\ Plan(o) = FieldPlan[frame.type]
      /\ i \in DOMAIN Plan(o) /\ DataAt(o, "type").value \in DOMAIN FieldPlan
  BY <1>1, <1>2, <1>3, PlanFacts DEF ReaderInv, TreeInv
<1>5. /\ frame'.path = frame.path /\ frame'.graph = frame.graph /\ frame'.todo = frame.todo
      /\ frame'.nodes = frame.nodes /\ frame'.at = frame.at /\ frame'.name = frame.name
      /\ frame'.field = i + 1 /\ frame'.keys = {} /\ i \in Nat
  BY <1>1, <1>3 DEF Frames, NextField
<1>6. /\ FrameRead /\ MetadataRead(o, {})
      /\ \A j \in DOMAIN Plan(o) : j < i => FieldReadable(o, j)
  BY <1>1, <1>3, ReadSoFar DEF FrameRead
<1>7. \A j \in DOMAIN Plan(o) : j \in Nat
  BY PlanIsSeq
<1>8. step \in FieldSteps
  BY <1>4, PlanIsSeq
<1>9. step.field \in Names /\ step.want \in Wants /\ step.want # "edges"
      /\ step.when \in {"required", "optional", "default"}
  BY <1>8 DEF FieldSteps
<1>10. FieldItem(Current, o, i).amount =
         IF Linked(o, step.field) THEN Bytes(d, step.want)
         ELSE IF step.when = "default" THEN like.bytes ELSE 0
  BY DEF FieldItem, Item
<1>11. ASSUME Linked(o, step.field)
       PROVE  /\ FieldReadable(o, i)
              /\ call.limit["bytes"] # NoLimit => used'["bytes"] = used["bytes"] + x.amount
              /\ \A r \in {"graphs", "nodes", "edges"} : used'[r] = used[r]
  <2>1. /\ HasDataset(o, step.field) /\ Verdict(d, step.want) = "none"
        /\ Charge("bytes", Cost(d, step.want))
    BY <1>4, <1>11 DEF ReadField, FieldPresent
  <2>2. d \in DatasetRecords
    BY <1>1, <1>3, <1>9, <2>1, ContainerFacts DEF SafeInv
  <2> HIDE DEF d
  <2>3. /\ Is(d, step.want)
        /\ call.limit["bytes"] # NoLimit =>
             used'["bytes"] = used["bytes"] + Bytes(d, step.want)
        /\ \A r \in {"graphs", "nodes", "edges"} : used'[r] = used[r]
    <3> HIDE DEF step
    <3> QED
      BY <1>1, <1>9, <2>1, <2>2, DecodingPays
  <2>4. FieldReadable(o, i)
    BY <1>11, <2>1, <2>3 DEF FieldReadable, IsDatasetAt, d
  <2> QED
    BY <1>10, <1>11, <2>3, <2>4
<1>12. ASSUME ~Linked(o, step.field), step.when = "optional"
       PROVE  /\ FieldReadable(o, i)
              /\ call.limit["bytes"] # NoLimit => used'["bytes"] = used["bytes"] + x.amount
              /\ \A r \in {"graphs", "nodes", "edges"} : used'[r] = used[r]
  <2>1. used' = used
    BY <1>4, <1>12 DEF ReadField, FieldPresent
  <2>2. FieldReadable(o, i)
    BY <1>12 DEF FieldReadable
  <2>3. x.amount = 0
    BY <1>10, <1>12
  <2>4. used["bytes"] + 0 = used["bytes"]
    BY <1>3, UsizeAssumption DEF Resources, Usize
  <2> QED
    BY <2>1, <2>2, <2>3, <2>4
<1>13. ASSUME ~Linked(o, step.field), step.when = "default"
       PROVE  /\ FieldReadable(o, i)
              /\ call.limit["bytes"] # NoLimit => used'["bytes"] = used["bytes"] + x.amount
              /\ \A r \in {"graphs", "nodes", "edges"} : used'[r] = used[r]
  <2>1. Charge("bytes", like.bytes)
    BY <1>4, <1>13 DEF ReadField, FieldPresent
  <2>2. FieldReadable(o, i)
    BY <1>13 DEF FieldReadable
  <2>3. x.amount = like.bytes
    BY <1>10, <1>13
  <2>4. /\ call.limit["bytes"] # NoLimit => used'["bytes"] = used["bytes"] + like.bytes
        /\ \A r \in {"graphs", "nodes", "edges"} : used'[r] = used[r]
    BY <1>3, <2>1 DEF Charge, Charged, Resources
  <2> QED
    BY <2>2, <2>3, <2>4
<1>14. ~Linked(o, step.field) => step.when \in {"optional", "default"}
  BY <1>4 DEF ReadField, FieldPresent
<1>15. /\ FieldReadable(o, i)
       /\ call.limit["bytes"] # NoLimit => used'["bytes"] = used["bytes"] + x.amount
       /\ \A r \in {"graphs", "nodes", "edges"} : used'[r] = used[r]
  BY <1>11, <1>12, <1>13, <1>14
<1> HIDE DEF step, d, like
<1>16. \A j \in DOMAIN Plan(o) : j <= i => FieldReadable(o, j)
  <2>1. \A j \in DOMAIN Plan(o) : j <= i => j < i \/ j = i
    BY <1>5, <1>7
  <2> QED
    BY <1>6, <1>15, <2>1
<1>17. x.amount \in Nat
  BY <1>1, <1>3, <1>4, <1>16, FieldAmount
<1>18. x.path = Current /\ x.part = <<"field", i>>
  BY ItemsAt
<1> HIDE DEF o, i
<1>19. PaidHere' = PaidHere \cup {x}
  <2>1. Current' = Current
    BY <1>5 DEF Current
  <2>2. /\ TypeItem(Current, frame.at)' = TypeItem(Current, frame.at)
        /\ \A j : FieldItem(Current, frame.at, j)' = FieldItem(Current, frame.at, j)
        /\ \A j : EntryItem(Current, frame.at, j)' = EntryItem(Current, frame.at, j)
        /\ Plan(frame.at)' = Plan(frame.at) /\ Keys(frame.at)' = Keys(frame.at)
    BY <1>5, <2>1, ItemsStay, ContractStays
  <2>3. {j \in DOMAIN Plan(frame.at) : j < frame.field}' =
        {j \in DOMAIN Plan(frame.at) : j < frame.field} \cup {i}
    <3>1. \A j \in DOMAIN Plan(o) : j < i + 1 <=> j < i \/ j = i
      BY <1>5, <1>7
    <3>2. {j \in DOMAIN Plan(frame.at) : j < frame.field}' = {j \in DOMAIN Plan(o) : j < i + 1}
      BY <1>5, <2>2 DEF o
    <3> QED
      BY <1>4, <3>1, <3>2 DEF o, i
  <2>4. PaidNode' = {TypeItem(Current, frame.at)'}
                      \cup {FieldItem(Current, frame.at, j)' :
                             j \in {k \in DOMAIN Plan(frame.at) : k < frame.field}'}
    BY <1>1, <1>5 DEF PaidNode
  <2>5. PaidNode = {TypeItem(Current, frame.at)}
                      \cup {FieldItem(Current, frame.at, j) :
                             j \in {k \in DOMAIN Plan(frame.at) : k < frame.field}}
    BY <1>1 DEF PaidNode
  <2>6. PaidNode' = PaidNode \cup {x}
    BY <2>2, <2>3, <2>4, <2>5 DEF o
  <2>7. PaidEntries' = PaidEntries
    BY <1>1, <1>5, <2>2 DEF PaidEntries
  <2> QED
    BY <1>1, <2>6, <2>7 DEF PaidHere
<1> HIDE DEF x
<1>20. x \notin PaidItems
  BY <1>1, FieldIsNew DEF x, o, i
<1>21. FrameRead'
  <2>1. \A j \in DOMAIN Plan(frame.at) : j < frame'.field => FieldReadable(frame.at, j)
    <3>1. \A j \in DOMAIN Plan(o) : j < i + 1 => j <= i
      BY <1>5, <1>7
    <3> QED
      BY <1>5, <1>16, <3>1 DEF o
  <2>2. MetadataRead(frame.at, frame'.keys)
    BY <1>5, <1>6 DEF o
  <2> QED
    BY <1>1, <1>5, <1>6, <2>1, <2>2, FrameStaysRead
<1> QED
  BY <1>1, <1>5, <1>15, <1>17, <1>19, <1>20, <1>21, PartDecoded

(* A leaf is finished: what was held and paid for it joins the tree.         *)
LEMMA LeafFinished ==
  ASSUME ReaderInv, ContractInv, UNCHANGED <<file, call>>, FinishLeaf
  PROVE  ContractInv'
<1> DEFINE o == frame.at
           p == Append(frame.path, frame.name)
           e == Entry(p, o, frame.type)
<1>1. /\ pc = "entries" /\ pc' = "members" /\ frame.name # NoName /\ frame.keys = {}
      /\ frame.type \in DOMAIN FieldPlan /\ frame.field \notin DOMAIN FieldPlan[frame.type]
      /\ tree' = tree \cup {e} /\ frame' = [frame EXCEPT !.todo = @ \ {frame.name}]
      /\ UNCHANGED <<version, callers, visited, used>>
  BY DEF FinishLeaf, AtLeaf, Decoded
<1>2. /\ pc \in Inner /\ pc' \in Inner /\ Decoding /\ pc' \in Traversal /\ pc # "nodeType"
      /\ pc' \notin BeforeVersion /\ ~Decoding' /\ pc' # "graphLinks"
      /\ pc' \notin {"metadata", "entries"}
  BY <1>1 DEF Inner, Traversal, Decoding, BeforeVersion
<1>3. /\ frame \in Frames /\ o \in Groups /\ pc \in Traversal /\ pc # "failed"
      /\ pc \notin BeforeVersion /\ frame.name \in Names /\ Current = p
      /\ TypeRead(frame.graph) /\ OnlyHardLinks(frame.graph)
      /\ OnlyHardLinks(frame.nodes) /\ OnlyHardLinks(o)
  BY <1>2, NodeAtHand
<1>4. /\ frame.type = DataAt(o, "type").value /\ frame.type # "NIRGraph"
      /\ frame.name \in frame.todo /\ p # <<>>
  <2>1. frame.type = DataAt(o, "type").value /\ frame.type # "NIRGraph"
    BY <1>1, <1>2, <1>3 DEF ReaderInv, TreeInv, TokenInv
  <2>2. frame.name \in frame.todo
    BY <1>2, <1>3 DEF ReaderInv, LedgerInv
  <2>3. p # <<>>
    BY <1>3, Positions DEF ContractInv
  <2> QED
    BY <2>1, <2>2, <2>3
<1>5. /\ frame'.path = frame.path /\ frame'.graph = frame.graph
      /\ frame'.todo = frame.todo \ {frame.name} /\ frame'.nodes = frame.nodes
  BY <1>1, <1>3 DEF Frames
<1>6. e.path = p /\ e.object = o /\ e.type = frame.type
  BY DEF Entry
<1>7. FrameRead /\ MetadataRead(o, {}) /\ TypeRead(o)
      /\ \A i \in DOMAIN Plan(o) : i < frame.field => FieldReadable(o, i)
  BY <1>1, <1>3, ReadSoFar DEF FrameRead
<1>8. /\ Plan(o) = FieldPlan[frame.type] /\ DataAt(o, "type").value \in DOMAIN FieldPlan
      /\ \A i \in DOMAIN Plan(o) : i < frame.field
  <2>1. Plan(o) = FieldPlan[frame.type]
    BY <1>1, <1>4, PlanFacts
  <2>2. frame.field \in Nat /\ frame.field >= 1 /\ frame.field \notin DOMAIN Plan(o)
    BY <1>1, <1>3, <2>1 DEF Frames
  <2>3. frame.field > Len(Plan(o))
    BY <2>2, PlanIsSeq
  <2> QED
    BY <1>1, <1>4, <2>1, <2>2, <2>3, PlanIsSeq
<1>9. ~IsGraph(o)
  BY <1>4 DEF IsGraph
<1>10. ObjectReadable(o)
  <2>1. LeafReadable(o)
    BY <1>7, <1>8 DEF LeafReadable
  <2>2. MetadataReadable(o)
    BY <1>7 DEF MetadataRead, MetadataReadable, Keys
  <2> QED
    BY <1>3, <1>7, <1>9, <2>1, <2>2 DEF ObjectReadable, TypeRead
<1> HIDE DEF e, p, o
<1>11. Paths' = Paths \cup {p}
  BY <1>1, <1>6 DEF Paths
<1>12. {y \in tree' : y.type = "NIRGraph"} = {y \in tree : y.type = "NIRGraph"}
  BY <1>1, <1>4, <1>6
<1>13. SeenInv'
  <2>1. SeenGraphs' = SeenGraphs
    BY <1>1, <1>2, <1>5, <1>12 DEF SeenGraphs
  <2>2. Entered' = Entered
    BY <1>1 DEF Entered
  <2> QED
    BY <1>1, <1>2, <1>3, <1>4, <1>11, <2>1, <2>2 DEF SeenInv, ContractInv
<1>14. HeldInv'
  <2>1. p \in Awaited(frame)
    BY <1>4 DEF Awaited, p
  <2>2. Awaited(frame)' \subseteq Awaited(frame)
    BY <1>5 DEF Awaited
  <2>3. Awaited(frame) \subseteq Awaited(frame)' \cup {p}
    BY <1>5 DEF Awaited, p
  <2>4. (UNION {Awaited(callers[i]) : i \in DOMAIN callers})' =
        UNION {Awaited(callers[i]) : i \in DOMAIN callers}
    BY <1>1 DEF Awaited
  <2>5. HeldPaths' = HeldPaths
    BY <1>4, <1>11, <2>1, <2>2, <2>3, <2>4 DEF HeldPaths
  <2> QED
    BY <1>1, <1>3, <2>5 DEF HeldInv, ContractInv
<1>15. PaidItems' = PaidItems
  <2>1. PaidVersion' = PaidVersion
    BY <1>2, <1>3, ItemsStay DEF PaidVersion
  <2>2. PaidTree' = PaidTree \cup ItemsOf(p, o)
    <3>1. PaidTree' = UNION {ItemsOf(x.path, x.object) : x \in tree'}
      BY ItemsStay DEF PaidTree
    <3>2. {ItemsOf(x.path, x.object) : x \in tree'} =
          {ItemsOf(x.path, x.object) : x \in tree} \cup {ItemsOf(p, o)}
      BY <1>1, <1>6
    <3> QED
      BY <3>1, <3>2 DEF PaidTree
  <2>3. PaidCallers' = PaidCallers
    BY <1>1, ItemsStay DEF PaidCallers
  <2>4. PaidFrame' = PaidFrame
    BY <1>2, <1>3, <1>5, ItemsStay DEF PaidFrame
  <2>5. PaidHere' = {}
    BY <1>2 DEF PaidHere
  <2>6. PaidHere = ItemsOf(p, o)
    <3>1. PaidEntries = {EntryItem(p, o, k) : k \in Keys(o)}
      BY <1>1, <1>3 DEF PaidEntries, o
    <3>2. {j \in DOMAIN Plan(o) : j < frame.field} = DOMAIN Plan(o)
      BY <1>8
    <3>3. PaidNode = {TypeItem(p, o)} \cup {FieldItem(p, o, i) : i \in DOMAIN Plan(o)}
      BY <1>1, <1>3, <3>2 DEF PaidNode, o
    <3> QED
      BY <1>1, <1>9, <3>1, <3>3 DEF PaidHere, ItemsOf
  <2> QED
    BY <2>1, <2>2, <2>3, <2>4, <2>5, <2>6 DEF PaidItems
<1>16. PaidInv'
  BY <1>1, <1>3, <1>15, PaidSame DEF ContractInv
<1>17. EdgesInv'
  <2>1. PaidEdges' = PaidEdges
    BY <1>1, <1>2, <1>12, ItemsStay DEF PaidEdges
  <2> QED
    BY <1>1, <1>3, <2>1 DEF EdgesInv, ContractInv
<1>18. ReadableInv'
  <2>1. \A x \in tree' : ObjectReadable(x.object)
    BY <1>1, <1>3, <1>6, <1>10, ReadSoFar
  <2>2. \A x : (TypeRead(x)' <=> TypeRead(x)) /\ (OnlyHardLinks(x)' <=> OnlyHardLinks(x))
    BY ContractStays
  <2>3. /\ \A x : x = frame.graph => TypeRead(x)' /\ OnlyHardLinks(x)'
        /\ \A x : x = frame.nodes => OnlyHardLinks(x)'
    BY <1>3, <2>2
  <2>4. FrameRead'
    BY <1>2, <1>5, <2>3 DEF FrameRead
  <2> QED
    BY <1>1, <1>2, <1>3, <2>1, <2>4, ReadSoFar, StillReadable DEF ContractInv
<1> QED
  BY <1>13, <1>14, <1>16, <1>17, <1>18 DEF ContractInv

(* The edges of the graph at hand are not paid yet.                         *)
LEMMA EdgesAreNew ==
  ASSUME ReaderInv, ContractInv, pc = "members"
  PROVE  /\ EdgeItem(frame.path, frame.graph) \notin PaidItems
         /\ EdgesItem(frame.path, frame.graph) \notin PaidEdges
<1> DEFINE p == frame.path
           x == EdgeItem(p, frame.graph)
           z == EdgesItem(p, frame.graph)
<1>1. pc \in Traversal /\ PaidHere = {} /\ p \notin Paths
  <2>1. pc \in Traversal
    BY DEF Traversal, Inner
  <2> QED
    BY <2>1, Positions DEF ContractInv, PaidHere
<1>2. x.path = p /\ x.part = <<"edges", NoName>>
  BY ItemsAt
<1>3. <<"edges", NoName>> \notin {<<"version", NoName>>, <<"type", NoName>>}
  OBVIOUS
<1>4. \A y \in PaidVersion \cup PaidTree \cup PaidCallers \cup PaidFrame :
        y.path # p \/ y.part \in {<<"version", NoName>>, <<"type", NoName>>}
  BY <1>1, PaidElsewhere DEF ContractInv
<1>5. \A q, o : EdgesItem(q, o).path = q
  BY DEF EdgesItem, Item
<1>6. PaidEdges = {EdgesItem(y.path, y.object) : y \in {w \in tree : w.type = "NIRGraph"}}
  BY DEF PaidEdges
<1>7. \A y \in tree : y.path # p
  BY <1>1 DEF Paths
<1> HIDE DEF x, p
<1>8. x \notin PaidItems
  BY <1>1, <1>2, <1>3, <1>4 DEF PaidItems
<1>9. z \notin PaidEdges
  BY <1>5, <1>6, <1>7
<1> QED
  BY <1>8, <1>9 DEF x, p

(* The edges are decoded, on two ledgers.                                   *)
LEMMA EdgesDecoded ==
  ASSUME ReaderInv, ContractInv, UNCHANGED <<file, call>>, ~\E k : Fail(k), ReadEdges
  PROVE  ContractInv'
<1> DEFINE g == frame.graph
           p == frame.path
           d == DataAt(g, "edges")
           x == EdgeItem(p, g)
           z == EdgesItem(p, g)
<1>1. /\ pc = "members" /\ pc' = "metadata" /\ frame.todo = {}
      /\ HasDataset(g, "edges") /\ Verdict(d, "edges") = "none"
      /\ used' = [used EXCEPT
                    !["edges"] = Charged(call.limit["edges"], @, EdgeCount(d)),
                    !["bytes"] = Charged(call.limit["bytes"], @, Cost(d, "edges"))]
      /\ frame' = [frame EXCEPT !.name = NoName, !.at = g]
      /\ UNCHANGED <<version, callers, visited, tree>>
      /\ SafeInv /\ frame \in Frames /\ g \in Groups /\ used \in [Resources -> Usize]
  BY DEF ReadEdges, ReaderInv, SafeInv, TypeOK, Frames
<1>2. /\ pc \in Inner /\ pc' \in Inner /\ pc' \in Traversal /\ pc # "nodeType"
      /\ pc \in Traversal /\ pc \notin BeforeVersion /\ pc \in Counting
      /\ pc' \notin BeforeVersion /\ pc # "graphLinks" /\ pc # "failed"
      /\ pc \notin {"metadata", "entries"} /\ "edges" \in Wants
  BY <1>1 DEF Inner, Traversal, Counting, BeforeVersion, Wants
<1>3. d \in DatasetRecords
  BY <1>1, ContainerFacts, KnownNames DEF SafeInv
<1> HIDE DEF d
<1>4. /\ frame'.path = p /\ frame'.graph = g /\ frame'.todo = frame.todo
      /\ frame'.nodes = frame.nodes /\ frame'.at = g /\ frame'.name = NoName
  BY <1>1 DEF Frames
<1>5. /\ Is(d, "edges") /\ Bytes(d, "edges") \in Nat
      /\ call.limit["bytes"] # NoLimit => Cost(d, "edges") = Bytes(d, "edges")
  BY <1>1, <1>2, <1>3, VerdictExact DEF SafeInv
<1>6. /\ call.limit["bytes"] # NoLimit => used'["bytes"] = used["bytes"] + Bytes(d, "edges")
      /\ call.limit["edges"] # NoLimit => used'["edges"] = used["edges"] + EdgeCount(d)
      /\ used'["graphs"] = used["graphs"] /\ used'["nodes"] = used["nodes"]
  BY <1>1, <1>5 DEF Charged, Resources
<1>7. IsDatasetAt(g, "edges", "edges") /\ EdgeCount(d) \in Nat
  <2>1. IsDatasetAt(g, "edges", "edges")
    BY <1>1, <1>5 DEF IsDatasetAt, d
  <2> QED
    BY <1>1, <1>2, <2>1, KnownNames, ReadableAmount DEF d
<1>8. p \notin Paths /\ ~Decoding'
  BY <1>1, <1>2, <1>4, Positions DEF ContractInv, Decoding
<1>9. SeenInv' /\ HeldInv'
  BY <1>1, <1>2, <1>4, <1>6, StillSeen DEF ContractInv
<1>10. PaidItems' = PaidItems \cup {x}
  <2>1. PaidItems' = PaidVersion \cup PaidTree \cup PaidCallers \cup PaidFrame \cup PaidHere'
    BY <1>1, <1>2, <1>4, PaidBase
  <2>2. PaidHere = {}
    BY <1>2 DEF PaidHere
  <2>3. PaidHere' = {EdgeItem(frame.path, frame.at)'}
    BY <1>1, <1>4 DEF PaidHere, PaidEntries, PaidNode
  <2>4. EdgeItem(frame.path, frame.at)' = x
    BY <1>4, ItemsStay
  <2> QED
    BY <2>1, <2>2, <2>3, <2>4 DEF PaidItems
<1>11. x \notin PaidItems /\ x.amount = Bytes(d, "edges")
  <2>1. x.amount = Bytes(d, "edges")
    BY DEF EdgeItem, Item, d
  <2> QED
    BY <1>1, <2>1, EdgesAreNew
<1> HIDE DEF x
<1>12. PaidInv'
  BY <1>2, <1>5, <1>6, <1>10, <1>11, PaidMore DEF ContractInv
<1>13. PaidEdges' = PaidEdges \cup {z} /\ z \notin PaidEdges /\ z.amount = EdgeCount(d)
  <2>1. z.amount = EdgeCount(d)
    BY DEF EdgesItem, Item, d
  <2>2. PaidEdges = {EdgesItem(y.path, y.object) : y \in {w \in tree : w.type = "NIRGraph"}}
    BY <1>2 DEF PaidEdges
  <2>3. PaidEdges' = PaidEdges \cup {EdgesItem(frame'.path, frame'.graph)}
    BY <1>1, <1>4, <2>2, ItemsStay DEF PaidEdges
  <2> QED
    BY <1>1, <1>4, <2>1, <2>3, EdgesAreNew
<1> HIDE DEF z
<1>14. EdgesInv'
  <2>1. Countables(PaidEdges)
        /\ (call.limit["edges"] # NoLimit => used["edges"] = Total(PaidEdges))
    BY <1>2 DEF EdgesInv, ContractInv
  <2>2. /\ Countables(PaidEdges \cup {z})
        /\ Total(PaidEdges \cup {z}) = Total(PaidEdges) + EdgeCount(d)
    BY <1>7, <1>13, <2>1, TotalAdd
  <2>3. Countables(PaidEdges') /\ Total(PaidEdges') = Total(PaidEdges) + EdgeCount(d)
    BY <1>13, <2>2
  <2>4. Countables(PaidEdges)' /\ Total(PaidEdges)' = Total(PaidEdges) + EdgeCount(d)
    BY <2>3 DEF Countables, Total
  <2> QED
    BY <1>6, <2>1, <2>4 DEF EdgesInv
<1>15. ReadableInv'
  <2>1. TypeRead(g) /\ OnlyHardLinks(g) /\ OnlyHardLinks(frame.nodes)
    BY <1>2, ReadSoFar DEF FrameRead
  <2>2. /\ \A o : (TypeRead(o)' <=> TypeRead(o)) /\ (OnlyHardLinks(o)' <=> OnlyHardLinks(o))
        /\ \A o, n, w : IsDatasetAt(o, n, w)' <=> IsDatasetAt(o, n, w)
    BY ContractStays
  <2>3. /\ \A o : o = g => TypeRead(o)' /\ OnlyHardLinks(o)' /\ IsDatasetAt(o, "edges", "edges")'
        /\ \A o : o = frame.nodes => OnlyHardLinks(o)'
    BY <1>7, <2>1, <2>2
  <2>4. FrameRead'
    BY <1>1, <1>4, <1>8, <2>3 DEF FrameRead
  <2> QED
    BY <1>1, <1>2, <2>4, ReadSoFar, StillReadable DEF ContractInv
<1> QED
  BY <1>9, <1>12, <1>14, <1>15 DEF ContractInv

(* A graph is left: what was held and paid for it joins the tree, and the   *)
(* graph above it is at hand again.                                         *)
LEMMA GraphLeft ==
  ASSUME ReaderInv, ContractInv, UNCHANGED <<file, call>>, LeaveGraph
  PROVE  ContractInv'
<1> DEFINE g == frame.graph
           p == frame.path
           e == Entry(p, g, "NIRGraph")
           n == Len(callers)
           c == callers[n]
<1>1. /\ pc = "entries" /\ frame.name = NoName /\ frame.keys = {}
      /\ tree' = tree \cup {e} /\ UNCHANGED <<version, visited, used>>
      /\ frame \in Frames /\ g \in Groups /\ callers \in Seq(Frames)
  BY DEF LeaveGraph, ReaderInv, SafeInv, TypeOK, Frames
<1>2. /\ pc \in Inner /\ pc \in Traversal /\ pc \in Counting /\ pc # "graphLinks"
      /\ pc # "failed" /\ pc \notin BeforeVersion /\ ~Decoding
  BY <1>1 DEF Inner, Traversal, Counting, Decoding, BeforeVersion
<1>3. /\ frame.todo = {} /\ Nested /\ p \notin Paths /\ <<>> \notin Paths
      /\ callers = <<>> => p = <<>>
      /\ callers # <<>> => p # <<>>
      /\ IsGraph(g) /\ HasGroup(g, "nodes") /\ frame.nodes = At(g, "nodes")
  <2>1. frame.todo = {}
    BY <1>1, <1>2 DEF ReaderInv, LedgerInv
  <2>2. IsGraph(g) /\ HasGroup(g, "nodes") /\ frame.nodes = At(g, "nodes")
    BY <1>2 DEF ReaderInv, TreeInv, OpenSound, Listed
  <2> QED
    BY <1>2, <2>1, <2>2, Positions DEF ContractInv
<1>4. /\ TypeRead(g) /\ OnlyHardLinks(g) /\ OnlyHardLinks(frame.nodes) /\ frame.at = g
      /\ IsDatasetAt(g, "edges", "edges") /\ MetadataRead(g, {})
  BY <1>1, <1>2, ReadSoFar DEF FrameRead
<1>5. ObjectReadable(g)
  <2>1. GraphReadable(g)
    BY <1>3, <1>4 DEF GraphReadable
  <2>2. MetadataReadable(g)
    BY <1>4 DEF MetadataRead, MetadataReadable, Keys
  <2> QED
    BY <1>1, <1>3, <1>4, <2>1, <2>2 DEF ObjectReadable, TypeRead
<1>6. e.path = p /\ e.object = g /\ e.type = "NIRGraph"
  BY DEF Entry
<1>7. PaidHere = {EntryItem(p, g, k) : k \in Keys(g)} \cup {EdgeItem(p, g)}
  <2>1. PaidEntries = {EntryItem(p, g, k) : k \in Keys(g)}
    BY <1>1, <1>4 DEF PaidEntries, Current
  <2> QED
    BY <1>1, <1>4, <2>1 DEF PaidHere, PaidNode
<1>8. ItemsOf(p, g) = PaidFrame \cup PaidHere
  BY <1>2, <1>3, <1>7 DEF ItemsOf, PaidFrame
<1> HIDE DEF e
<1>9. Paths' = Paths \cup {p}
  BY <1>1, <1>6 DEF Paths
<1>10. {y \in tree' : y.type = "NIRGraph"} = {y \in tree : y.type = "NIRGraph"} \cup {e}
  BY <1>1, <1>6
<1>11. PaidTree' = PaidTree \cup PaidFrame \cup PaidHere
  <2>1. PaidTree' = UNION {ItemsOf(x.path, x.object) : x \in tree'}
    BY ItemsStay DEF PaidTree
  <2>2. {ItemsOf(x.path, x.object) : x \in tree'} =
        {ItemsOf(x.path, x.object) : x \in tree} \cup {ItemsOf(p, g)}
    BY <1>1, <1>6
  <2> QED
    BY <1>8, <2>1, <2>2 DEF PaidTree
<1>12. EdgesInv'
  <2>1. pc' \notin {"metadata", "entries"}
    BY DEF LeaveGraph
  <2>2. PaidEdges = {EdgesItem(y.path, y.object) : y \in {w \in tree : w.type = "NIRGraph"}}
                      \cup {EdgesItem(p, g)}
    BY <1>1 DEF PaidEdges
  <2>3. PaidEdges' = {EdgesItem(y.path, y.object) : y \in {w \in tree' : w.type = "NIRGraph"}}
    BY <2>1, ItemsStay DEF PaidEdges
  <2>4. PaidEdges' = PaidEdges
    BY <1>6, <1>10, <2>2, <2>3
  <2> QED
    BY <1>1, <1>2, <2>4 DEF EdgesInv, ContractInv
<1>13. \A x \in tree' : ObjectReadable(x.object)
  BY <1>1, <1>2, <1>5, <1>6, ReadSoFar
<1>14. {Place(y.path, y.object) : y \in {w \in tree' : w.type = "NIRGraph"}} =
       {Place(y.path, y.object) : y \in {w \in tree : w.type = "NIRGraph"}} \cup {Place(p, g)}
  BY <1>6, <1>10
<1>15. Entered' = Entered
  BY <1>1 DEF Entered
<1>16. CASE callers = <<>>
  <2>1. pc' = "done" /\ UNCHANGED <<frame, callers>> /\ p = <<>>
    BY <1>3, <1>16 DEF LeaveGraph
  <2>2. /\ pc' \notin Inner /\ pc' \notin Traversal /\ pc' \notin BeforeVersion
        /\ pc' \notin {"metadata", "entries"} /\ pc' # "failed" /\ ~Decoding'
        /\ pc' \notin Counting
    BY <2>1 DEF Inner, Traversal, Counting, Decoding, BeforeVersion
  <2>3. SeenInv'
    <3>1. SeenGraphs' = SeenGraphs
      BY <1>2, <1>14, <2>1, <2>2 DEF SeenGraphs
    <3> QED
      BY <1>1, <1>2, <1>15, <2>2, <3>1 DEF SeenInv, ContractInv
  <2>4. HeldInv'
    <3>1. HeldPaths' = HeldPaths
      BY <1>9, <2>1 DEF HeldPaths, Awaited
    <3> QED
      BY <1>1, <1>2, <3>1 DEF HeldInv, ContractInv
  <2>5. PaidInv'
    <3>1. PaidCallers = {} /\ PaidCallers' = {} /\ PaidFrame' = {} /\ PaidHere' = {}
      BY <1>16, <2>1, <2>2 DEF PaidCallers, PaidFrame, PaidHere
    <3>2. PaidVersion' = PaidVersion
      BY <1>2, <2>2, ItemsStay DEF PaidVersion
    <3>3. PaidItems' = PaidItems
      BY <1>11, <3>1, <3>2 DEF PaidItems
    <3> QED
      BY <1>1, <1>2, <3>3, PaidSame DEF ContractInv
  <2>6. FrameRead'
    BY <2>1, <2>2 DEF FrameRead
  <2>7. ReadableInv'
    BY <1>1, <1>2, <1>13, <2>1, <2>2, <2>6, StillReadable DEF ContractInv
  <2> QED
    BY <1>12, <2>3, <2>4, <2>5, <2>7 DEF ContractInv
<1>17. CASE callers # <<>>
  <2>1. /\ pc' = "members" /\ frame' = [c EXCEPT !.todo = @ \ {c.name}]
        /\ callers' = SubSeq(callers, 1, n - 1)
    BY <1>17 DEF LeaveGraph, Decoded
  <2>2. /\ pc' \in Inner /\ pc' \in Traversal /\ pc' \notin BeforeVersion
        /\ pc' \notin {"metadata", "entries"} /\ pc' # "failed" /\ ~Decoding'
        /\ pc' # "graphLinks"
    BY <2>1 DEF Inner, Traversal, Decoding, BeforeVersion
  <2>3. /\ n \in Nat \ {0} /\ c \in Frames
        /\ callers' \in Seq(Frames) /\ Len(callers') = n - 1
        /\ \A i \in 1 .. n - 1 : callers'[i] = callers[i]
    BY <1>1, <1>17, <2>1, PopLast
  <2>4. /\ DOMAIN callers = DOMAIN callers' \cup {n}
        /\ \A i \in DOMAIN callers' : callers'[i] = callers[i]
    <3>1. DOMAIN callers' = 1 .. n - 1 /\ DOMAIN callers = 1 .. n
      BY <1>1, <2>3
    <3> HIDE DEF n
    <3> QED
      BY <2>3, <3>1
  <2>5. p = Append(c.path, c.name) /\ c.name \in c.todo /\ p # <<>>
    BY <1>3, <1>17, <2>4 DEF Nested
  <2>6. /\ frame'.path = c.path /\ frame'.graph = c.graph /\ frame'.nodes = c.nodes
        /\ frame'.todo = c.todo \ {c.name}
    BY <2>1, <2>3 DEF Frames
  <2>7. GraphRead(c)
    BY <1>2, <2>4, ReadSoFar
  <2> HIDE DEF p, c, n
  <2>8. SeenInv'
    <3>1. {Place(callers[i].path, callers[i].graph) : i \in DOMAIN callers} =
          {Place(callers'[i].path, callers'[i].graph) : i \in DOMAIN callers'}
            \cup {Place(c.path, c.graph)}
      BY <2>4 DEF c
    <3>2. SeenGraphs' = {Place(y.path, y.object) : y \in {w \in tree' : w.type = "NIRGraph"}}
            \cup {Place(callers'[i].path, callers'[i].graph) : i \in DOMAIN callers'}
            \cup {Place(c.path, c.graph)}
      BY <2>2, <2>6 DEF SeenGraphs
    <3>3. SeenGraphs = {Place(y.path, y.object) : y \in {w \in tree : w.type = "NIRGraph"}}
            \cup {Place(callers[i].path, callers[i].graph) : i \in DOMAIN callers}
            \cup {Place(p, g)}
      BY <1>2 DEF SeenGraphs, p
    <3>4. SeenGraphs' = SeenGraphs
      BY <1>14, <3>1, <3>2, <3>3
    <3> QED
      BY <1>1, <1>2, <1>3, <1>9, <1>15, <2>5, <3>4 DEF SeenInv, ContractInv
  <2>9. HeldInv'
    <3>1. (UNION {Awaited(callers[i]) : i \in DOMAIN callers}) =
          (UNION {Awaited(callers'[i]) : i \in DOMAIN callers'}) \cup Awaited(c)
      <4>1. {Awaited(callers[i]) : i \in DOMAIN callers} =
            {Awaited(callers'[i]) : i \in DOMAIN callers'} \cup {Awaited(c)}
        BY <2>4 DEF c
      <4> QED
        BY <4>1
    <3>2. (UNION {Awaited(callers[i]) : i \in DOMAIN callers})' =
          UNION {Awaited(callers'[i]) : i \in DOMAIN callers'}
      BY DEF Awaited
    <3>3. Awaited(frame) = {}
      BY <1>3 DEF Awaited
    <3>4. /\ Awaited(frame)' \subseteq Awaited(c) /\ p \in Awaited(c)
          /\ Awaited(c) \subseteq Awaited(frame)' \cup {p}
      BY <2>5, <2>6 DEF Awaited
    <3>5. HeldPaths' = HeldPaths
      BY <1>9, <2>5, <3>1, <3>2, <3>3, <3>4 DEF HeldPaths
    <3> QED
      BY <1>1, <1>2, <3>5 DEF HeldInv, ContractInv
  <2>10. PaidInv'
    <3>1. PaidCallers = PaidCallers' \cup PaidFrame'
      <4>1. PaidCallers' = {TypeItem(callers'[i].path, callers'[i].graph) : i \in DOMAIN callers'}
        BY ItemsStay DEF PaidCallers
      <4>2. PaidFrame' = {TypeItem(c.path, c.graph)}
        BY <2>2, <2>6, ItemsStay DEF PaidFrame
      <4> QED
        BY <2>4, <4>1, <4>2 DEF PaidCallers, c
    <3>2. PaidHere' = {}
      BY <2>2 DEF PaidHere
    <3>3. PaidVersion' = PaidVersion
      BY <1>2, <2>2, ItemsStay DEF PaidVersion
    <3>4. PaidItems' = PaidItems
      BY <1>11, <3>1, <3>2, <3>3 DEF PaidItems
    <3> QED
      BY <1>1, <1>2, <3>4, PaidSame DEF ContractInv
  <2>11. FrameRead'
    <3>1. \A x : (TypeRead(x)' <=> TypeRead(x)) /\ (OnlyHardLinks(x)' <=> OnlyHardLinks(x))
      BY ContractStays
    <3>2. /\ \A x : x = c.graph => TypeRead(x)' /\ OnlyHardLinks(x)'
          /\ \A x : x = c.nodes => OnlyHardLinks(x)'
      BY <2>7, <3>1 DEF GraphRead
    <3> QED
      BY <2>1, <2>2, <2>6, <3>2 DEF FrameRead
  <2>12. \A i \in DOMAIN callers' : GraphRead(callers'[i])
    BY <1>2, <2>4, ReadSoFar
  <2>13. ReadableInv'
    BY <1>1, <1>2, <1>13, <2>2, <2>11, <2>12, StillReadable DEF ContractInv
  <2> QED
    BY <1>12, <2>8, <2>9, <2>10, <2>13 DEF ContractInv
<1> QED
  BY <1>16, <1>17

(* A read that fails promises nothing of what it decoded.                   *)
LEMMA ContractFail ==
  ASSUME NEW k, Fail(k)
  PROVE  ContractInv'
<1>1. pc' = "failed"
  BY DEF Fail
<1> QED
  BY <1>1 DEF ContractInv, SeenInv, HeldInv, ReadableInv, PaidInv, EdgesInv

(* Every step keeps the ledgers the totals of what has been decoded.        *)
LEMMA ContractStep ==
  ASSUME ReaderInv, ContractInv, [Next]_vars
  PROVE  ContractInv'
<1>1. CASE UNCHANGED vars
  <2>1. /\ UNCHANGED <<file, call, pc, version, frame, callers, visited, used, tree>>
    BY <1>1 DEF vars
  <2>2. SeenInv' <=> SeenInv
    BY <2>1 DEF SeenInv, SeenGraphs, Entered, Paths
  <2>3. HeldInv' <=> HeldInv
    BY <2>1 DEF HeldInv, HeldPaths, Awaited, Paths
  <2>4. PaidInv' <=> PaidInv
    <3>1. PaidHere' = PaidHere
      BY <2>1, ItemsStay, ContractStays DEF PaidHere, PaidEntries, PaidNode, Current
    <3>2. PaidItems' = PaidItems
      BY <2>1, <3>1, PaidBase DEF PaidItems
    <3> QED
      BY <2>1, <3>2 DEF PaidInv, Countables, Total
  <2>5. EdgesInv' <=> EdgesInv
    <3>1. PaidEdges' = PaidEdges
      BY <2>1, ItemsStay DEF PaidEdges
    <3> QED
      BY <2>1, <3>1 DEF EdgesInv, Countables, Total
  <2>6. ReadableInv' <=> ReadableInv
    <3>1. EnvelopeRead' <=> EnvelopeRead
      <4>1. /\ OnlyHardLinks(Root)' <=> OnlyHardLinks(Root)
            /\ VersionReadable' <=> VersionReadable
            /\ Linked(Root, "version")' <=> Linked(Root, "version")
            /\ DataAt(Root, "version")' = DataAt(Root, "version")
            /\ VersionAccepted' <=> VersionAccepted
            /\ IsGraph(TopGraph)' <=> IsGraph(TopGraph)
            /\ OnlyHardLinks(TopGraph)' <=> OnlyHardLinks(TopGraph)
        BY <2>1, ContractStays, FileStays DEF VersionReadable, VersionAccepted, Within, TopGraph
      <4>2. Returned' <=> Returned
        BY <2>1 DEF Returned
      <4> QED
        BY <2>1, <4>1, <4>2 DEF EnvelopeRead
    <3>2. FrameRead' <=> FrameRead
      BY <2>1, ContractStays, FileStays DEF FrameRead, Decoding
    <3> QED
      BY <2>1, <3>1, <3>2, ContractStays DEF ReadableInv
  <2> QED
    BY <2>2, <2>3, <2>4, <2>5, <2>6 DEF ContractInv
<1>2. CASE \E k : Fail(k)
  BY <1>2, ContractFail
<1>3. CASE Next /\ ~\E k : Fail(k)
  <2>1. UNCHANGED <<file, call>>
    BY <1>3 DEF Next
  <2>2. ~UnknownType /\ ~IoFault
    BY <1>3 DEF UnknownType, IoFault
  <2>3. \/ OpenFile \/ CheckRootLinks \/ LoadVersion \/ EnforceVersionPolicy
        \/ OpenTopGraph \/ ReadRootType
        \/ EnterGraph \/ CheckGraphLinks \/ OpenNodes \/ OpenMember \/ ReadNodeType
        \/ OpenMetadata \/ ReadEntry \/ ReadField \/ FinishLeaf
        \/ ReadEdges \/ LeaveGraph
    BY <1>3, <2>2 DEF Next
  <2> QED
    BY <1>3, <2>1, <2>3, EnvelopeContract, VersionDecoded, RootDecoded, GraphEntered,
       LinksChecked, NodesListed, LeafTyped, GraphTyped, MetadataOpened, EntryDecoded,
       FieldDecoded, LeafFinished, EdgesDecoded, GraphLeft
<1> QED
  BY <1>1, <1>2, <1>3

(* Nothing is decoded at the start.                                         *)
LEMMA ContractInit == Init => ContractInv
<1>1. SUFFICES ASSUME Init PROVE ContractInv
  OBVIOUS
<1>2. /\ pc = "open" /\ frame = NewFrame(Root, <<>>) /\ callers = <<>> /\ visited = <<>>
      /\ tree = {} /\ used = [r \in Resources |-> 0] /\ version = NoVersion
  BY <1>1 DEF Init
<1>3. frame.todo = {} /\ DOMAIN callers = {} /\ DOMAIN visited = {} /\ Len(visited) = 0
  BY <1>2 DEF NewFrame
<1>4. \A r \in Resources : used[r] = 0
  BY <1>2
<1>5. IsFiniteSet({}) /\ Cardinality({}) = 0
  BY FS_EmptySet
<1>6. SeenInv
  <2>1. SeenGraphs = {} /\ Entered = {} /\ Paths = {}
    BY <1>2, <1>3 DEF SeenGraphs, Entered, Paths, Inner
  <2> QED
    BY <1>3, <1>4, <1>5, <2>1 DEF SeenInv, Resources
<1>7. HeldInv
  <2>1. HeldPaths = {}
    BY <1>2, <1>3 DEF HeldPaths, Paths, Awaited
  <2> QED
    BY <1>4, <1>5, <2>1 DEF HeldInv, Resources
<1>8. ReadableInv
  BY <1>2 DEF ReadableInv, EnvelopeRead, FrameRead, BeforeVersion, Envelope, Traversal, Inner,
     Returned, Counting, Decoding
<1>9. PaidInv
  <2>1. PaidItems = {}
    BY <1>2, <1>3 DEF PaidItems, PaidVersion, PaidTree, PaidCallers, PaidFrame, PaidHere,
       BeforeVersion, Traversal, Inner
  <2> QED
    BY <1>4, <2>1, TotalOfNone DEF PaidInv, Resources
<1>10. EdgesInv
  <2>1. PaidEdges = {}
    BY <1>2 DEF PaidEdges
  <2> QED
    BY <1>4, <2>1, TotalOfNone DEF EdgesInv, Resources
<1> QED
  BY <1>6, <1>7, <1>8, <1>9, <1>10 DEF ContractInv

-----------------------------------------------------------------------------
(***************************************************************************)
(* The verdict.  What the reader holds is part of what the container       *)
(* describes, so an acceptable container has room for the next part, and a *)
(* read that returns has held all of it.                                   *)
(***************************************************************************)

(* Where the traversal is, the container has an occurrence.                 *)
LEMMA OccursHere ==
  ASSUME ReaderInv, ContractInv, pc \in Traversal
  PROVE  /\ Place(frame.path, frame.graph) \in GraphOccurrences
         /\ \A i \in DOMAIN callers :
              /\ Place(callers[i].path, callers[i].graph) \in GraphOccurrences
              /\ \A n \in callers[i].todo :
                   Place(Append(callers[i].path, n), At(callers[i].nodes, n)) \in Occurrences
         /\ \A n \in frame.todo :
              /\ n \in Members(frame.nodes)
              /\ Place(Append(frame.path, n), At(frame.nodes, n)) \in Occurrences
         /\ pc = "nodes" /\ HasGroup(frame.graph, "nodes") =>
              \A n \in Members(At(frame.graph, "nodes")) :
                Place(Append(frame.path, n), At(At(frame.graph, "nodes"), n)) \in Occurrences
         /\ Decoding => Place(Current, frame.at) \in Occurrences
         /\ pc \in {"metadata", "entries"} =>
              /\ Place(Current, frame.at) \in Occurrences
              /\ IsGraph(frame.at) <=> frame.name = NoName
         /\ TypeOK /\ HasGroup(Root, "node")
<1> DEFINE n == Len(callers)
<1>1. /\ TypeOK /\ callers \in Seq(Frames) /\ frame \in Frames /\ n \in Nat /\ pc # "failed"
      /\ MaxGraphs \in Nat
  BY OptionsAssumption DEF ReaderInv, SafeInv, TypeOK, Traversal, Inner
<1>2. /\ HasGroup(Root, "node") /\ OpenSound(frame)
      /\ \A i \in DOMAIN callers : OpenSound(callers[i]) /\ Listed(callers[i])
      /\ pc \in Counting => Listed(frame)
      /\ Decoding => frame.at = At(frame.nodes, frame.name)
      /\ Decoding /\ pc # "nodeType" => frame.type = DataAt(frame.at, "type").value
  BY <1>1 DEF ReaderInv, TreeInv
<1>3. /\ Len(frame.path) = n /\ \A i \in DOMAIN callers : Len(callers[i].path) = i - 1
      /\ Decoding => frame.name \in frame.todo
      /\ pc \in Unlisted => frame.todo = {}
  BY <1>1 DEF ReaderInv, LedgerInv, Nested
<1>4. n <= MaxGraphs /\ (pc \in Inner => n + 1 <= MaxGraphs)
  BY <1>1 DEF ReaderInv, DepthInv, SafeInv, TypeOK
<1>5. DOMAIN callers = 1 .. n
  BY <1>1
<1>6. \A x : x \in Occurrences /\ IsGraph(x.object) => x \in GraphOccurrences
  BY DEF GraphOccurrences
<1>7. \A p, o : Place(p, o).path = p /\ Place(p, o).object = o
  BY DEF Place
<1>8. ASSUME NEW f, OpenSound(f), NEW k \in Nat, Len(f.path) = k, k <= MaxGraphs
      PROVE  Place(f.path, f.graph) \in GraphOccurrences
  BY <1>1, <1>6, <1>7, <1>8 DEF OpenSound, Occurrences
<1>9. ASSUME NEW f, OpenSound(f), HasGroup(f.graph, "nodes"),
             NEW k \in Nat, Len(f.path) = k, k + 1 <= MaxGraphs
      PROVE  \A m \in Members(At(f.graph, "nodes")) :
               Place(Append(f.path, m), At(At(f.graph, "nodes"), m)) \in Occurrences
  <2>1. k + 1 \in 1 .. MaxGraphs /\ k + 1 \in 0 .. MaxGraphs
    BY <1>1, <1>9
  <2> DEFINE p == f.path
             g == f.graph
  <2>2. Place(p, g) \in Levels[Len(p)] /\ IsGraph(g) /\ HasGroup(g, "nodes")
        /\ Len(p) + 1 \in 1 .. MaxGraphs /\ Len(p) \in Nat /\ Len(p) = k
    BY <1>9, <2>1 DEF OpenSound
  <2> HIDE DEF p, g
  <2>3. \A m \in Members(At(g, "nodes")) :
          Place(Append(p, m), At(At(g, "nodes"), m)) \in Levels[Len(p) + 1]
    BY <1>1, <1>2, <2>2, MemberOccurs
  <2>4. \A m \in Members(At(g, "nodes")) :
          Place(Append(p, m), At(At(g, "nodes"), m)) \in Occurrences
    BY <2>1, <2>2, <2>3 DEF Occurrences
  <2> QED
    BY <2>4 DEF p, g
<1>10. Place(frame.path, frame.graph) \in GraphOccurrences /\ IsGraph(frame.graph)
  BY <1>1, <1>2, <1>3, <1>4, <1>8 DEF OpenSound
<1>11. ASSUME NEW i \in DOMAIN callers
       PROVE  /\ Place(callers[i].path, callers[i].graph) \in GraphOccurrences
              /\ \A m \in callers[i].todo :
                   Place(Append(callers[i].path, m), At(callers[i].nodes, m)) \in Occurrences
  <2>1. i - 1 \in Nat /\ i - 1 <= MaxGraphs /\ i - 1 + 1 <= MaxGraphs
    BY <1>1, <1>4, <1>5
  <2> DEFINE c == callers[i]
  <2>2. /\ OpenSound(c) /\ HasGroup(c.graph, "nodes") /\ c.nodes = At(c.graph, "nodes")
        /\ c.todo \subseteq Members(c.nodes) /\ Len(c.path) = i - 1
    BY <1>2, <1>3 DEF Listed
  <2> HIDE DEF c
  <2>3. Place(c.path, c.graph) \in GraphOccurrences
    BY <1>8, <2>1, <2>2
  <2>4. \A m \in Members(At(c.graph, "nodes")) :
          Place(Append(c.path, m), At(At(c.graph, "nodes"), m)) \in Occurrences
    BY <1>9, <2>1, <2>2
  <2> QED
    BY <2>2, <2>3, <2>4 DEF c
<1>12. pc \in Inner /\ HasGroup(frame.graph, "nodes") =>
         \A m \in Members(At(frame.graph, "nodes")) :
           Place(Append(frame.path, m), At(At(frame.graph, "nodes"), m)) \in Occurrences
  BY <1>1, <1>2, <1>3, <1>4, <1>9
<1>13. ASSUME NEW m \in frame.todo
       PROVE  /\ m \in Members(frame.nodes)
              /\ Place(Append(frame.path, m), At(frame.nodes, m)) \in Occurrences
  <2>1. pc \in Counting /\ pc \in Inner
    BY <1>3, <1>13 DEF Unlisted, Counting, Traversal, Inner
  <2> QED
    BY <1>2, <1>12, <1>13, <2>1 DEF Listed
<1>14. Decoding => Place(Current, frame.at) \in Occurrences
  <2>1. SUFFICES ASSUME Decoding PROVE Place(Current, frame.at) \in Occurrences
    OBVIOUS
  <2>2. Current = Append(frame.path, frame.name)
    BY <2>1, Positions DEF ContractInv, Current
  <2> QED
    BY <1>2, <1>3, <1>13, <2>1, <2>2
<1>15. ASSUME pc \in {"metadata", "entries"}
       PROVE  /\ Place(Current, frame.at) \in Occurrences
              /\ IsGraph(frame.at) <=> frame.name = NoName
  <2>1. CASE frame.name = NoName
    <3>1. frame.at = frame.graph /\ Current = frame.path
      BY <1>15, <2>1, ReadSoFar DEF FrameRead, Current
    <3> QED
      BY <1>10, <2>1, <3>1 DEF GraphOccurrences
  <2>2. CASE frame.name # NoName
    <3>1. Decoding /\ pc # "nodeType"
      BY <1>15, <2>2 DEF Decoding
    <3>2. frame.type # "NIRGraph"
      BY <1>15, <2>2 DEF ReaderInv, TokenInv
    <3>3. ~IsGraph(frame.at)
      BY <1>2, <3>1, <3>2 DEF IsGraph
    <3> QED
      BY <1>14, <2>2, <3>1, <3>3
  <2> QED
    BY <2>1, <2>2
<1>16. pc = "nodes" => pc \in Inner
  BY DEF Inner
<1> QED
  BY <1>1, <1>2, <1>10, <1>11, <1>12, <1>13, <1>14, <1>15, <1>16

(* The paths of the nodes the container describes.                          *)
NodePaths == {x.path : x \in Occurrences} \ {<<>>}

(* They are as many as the occurrences below the root.                      *)
LEMMA NodePathsCount ==
  ASSUME TypeOK, HasGroup(Root, "node")
  PROVE  /\ IsFiniteSet(NodePaths) /\ Cardinality(NodePaths) = Cardinality(Occurrences) - 1
         /\ Place(<<>>, TopGraph) \in Occurrences
<1> DEFINE Q == {x.path : x \in Occurrences}
           f == [x \in Occurrences |-> x.path]
<1>1. f \in [Occurrences -> Q] /\ \A y \in Q : \E x \in Occurrences : f[x] = y
  OBVIOUS
<1>2. \A x \in Occurrences : x \in Places
  <2>1. TAKE x \in Occurrences
  <2>2. PICK d \in 0 .. MaxGraphs : x \in Levels[d]
    BY DEF Occurrences
  <2> QED
    BY <2>2, LevelsUnfold
<1>3. \A x, y \in Occurrences : f[x] = f[y] => x = y
  <2>1. SUFFICES ASSUME NEW x \in Occurrences, NEW y \in Occurrences, x.path = y.path
                 PROVE  x = y
    OBVIOUS
  <2>2. x.object = y.object
    BY <2>1, PathLeadsToOne
  <2>3. x \in [path : Seq(Names), object : Objects] /\ y \in [path : Seq(Names), object : Objects]
    BY <1>2 DEF Places
  <2> QED
    BY <2>1, <2>2, <2>3
<1>4. IsFiniteSet(Occurrences)
  BY OccurrencesFinite
<1>5. Place(<<>>, TopGraph) \in Occurrences
  <2>1. 0 \in 0 .. MaxGraphs
    BY OptionsAssumption
  <2> QED
    BY <2>1, LevelsUnfold DEF Occurrences
<1>6. <<>> \in Q
  <2>1. Place(<<>>, TopGraph).path = <<>>
    BY DEF Place
  <2> QED
    BY <1>5, <2>1
<1> HIDE DEF Q, f
<1>7. IsFiniteSet(Q) /\ Cardinality(Q) = Cardinality(Occurrences)
  BY <1>1, <1>3, <1>4, FiniteRange
<1>8. IsFiniteSet(Q \ {<<>>}) /\ Cardinality(Q \ {<<>>}) = Cardinality(Q) - 1
  BY <1>6, <1>7, FS_RemoveElement
<1> QED
  BY <1>5, <1>7, <1>8 DEF NodePaths, Q

(* Nothing is held or paid that the container does not describe.            *)
LEMMA Included ==
  ASSUME ReaderInv, ContractInv, pc \in Traversal
  PROVE  /\ SeenGraphs \subseteq GraphOccurrences
         /\ HeldPaths \subseteq NodePaths
         /\ PaidItems \subseteq ByteItems
         /\ PaidEdges \subseteq EdgeItems
<1>1. /\ Place(frame.path, frame.graph) \in GraphOccurrences
      /\ \A i \in DOMAIN callers :
           Place(callers[i].path, callers[i].graph) \in GraphOccurrences
      /\ \A i \in DOMAIN callers : \A n \in callers[i].todo :
           Place(Append(callers[i].path, n), At(callers[i].nodes, n)) \in Occurrences
      /\ \A n \in frame.todo : Place(Append(frame.path, n), At(frame.nodes, n)) \in Occurrences
      /\ pc \in {"metadata", "entries"} =>
           /\ Place(Current, frame.at) \in Occurrences
           /\ IsGraph(frame.at) <=> frame.name = NoName
  BY OccursHere
<1>2. /\ \A x \in tree : Sound(x)
      /\ frame \in Frames /\ callers \in Seq(Frames)
  BY DEF ReaderInv, SafeInv, TypeOK, TreeInv, Traversal, Inner
<1>3. \A x \in tree : /\ Place(x.path, x.object) \in Occurrences
                      /\ x.type = "NIRGraph" => Place(x.path, x.object) \in GraphOccurrences
  BY <1>2 DEF Sound, GraphOccurrences, Place
<1>4. \A p, o : Place(p, o).path = p /\ Place(p, o).object = o
  BY DEF Place
<1>5. GraphOccurrences \subseteq Occurrences
  BY DEF GraphOccurrences
<1>6. SeenGraphs \subseteq GraphOccurrences
  BY <1>1, <1>3 DEF SeenGraphs
<1>7. HeldPaths \subseteq NodePaths
  <2>1. \A p, o : Place(p, o) \in Occurrences /\ p # <<>> => p \in NodePaths
    BY <1>4 DEF NodePaths
  <2>2. Paths \ {<<>>} \subseteq NodePaths
    BY <1>3, <2>1 DEF Paths
  <2>3. \A p \in Seq(Names) : \A n \in Names : Append(p, n) # <<>>
    BY EmptySeq
  <2>4. Awaited(frame) \subseteq NodePaths
    <3>1. \A n \in frame.todo : Append(frame.path, n) \in NodePaths
      <4>1. TAKE n \in frame.todo
      <4>2. frame.path \in Seq(Names) /\ n \in Names
        BY <1>2 DEF Frames
      <4>3. Append(frame.path, n) # <<>>
        BY <2>3, <4>2
      <4> QED
        BY <1>1, <2>1, <4>3
    <3> QED
      BY <3>1 DEF Awaited
  <2>5. \A i \in DOMAIN callers : Awaited(callers[i]) \subseteq NodePaths
    <3>1. ASSUME NEW i \in DOMAIN callers, NEW n \in callers[i].todo
          PROVE  Append(callers[i].path, n) \in NodePaths
      <4>1. callers[i] \in Frames
        BY <1>2, <3>1
      <4>2. callers[i].path \in Seq(Names) /\ n \in Names
        BY <3>1, <4>1 DEF Frames
      <4>3. Append(callers[i].path, n) # <<>>
        BY <2>3, <4>2
      <4> QED
        BY <1>1, <2>1, <3>1, <4>3
    <3> QED
      BY <3>1 DEF Awaited
  <2> QED
    BY <2>2, <2>4, <2>5 DEF HeldPaths
<1>8. \A p, o : Place(p, o) \in Occurrences => ItemsOf(p, o) \subseteq ByteItems
  BY <1>4 DEF ByteItems
<1>9. PaidItems \subseteq ByteItems
  <2>1. PaidVersion \subseteq ByteItems
    BY DEF PaidVersion, ByteItems
  <2>2. PaidTree \subseteq ByteItems
    BY <1>3, <1>8 DEF PaidTree
  <2>3. \A p, o : TypeItem(p, o) \in ItemsOf(p, o)
    BY DEF ItemsOf
  <2>4. PaidCallers \subseteq ByteItems /\ PaidFrame \subseteq ByteItems
    BY <1>1, <1>5, <1>8, <2>3 DEF PaidCallers, PaidFrame
  <2>5. PaidHere \subseteq ByteItems
    <3>1. CASE pc \in {"metadata", "entries"}
      <4>1. ItemsOf(Current, frame.at) \subseteq ByteItems
        BY <1>1, <1>8, <3>1
      <4>2. PaidEntries \subseteq ItemsOf(Current, frame.at)
        BY DEF PaidEntries, ItemsOf
      <4>3. PaidNode \subseteq ItemsOf(Current, frame.at)
        BY <1>1, <3>1 DEF PaidNode, ItemsOf, Current
      <4> QED
        BY <4>1, <4>2, <4>3 DEF PaidHere
    <3>2. CASE pc \notin {"metadata", "entries"}
      BY <3>2 DEF PaidHere
    <3> QED
      BY <3>1, <3>2
  <2> QED
    BY <2>1, <2>2, <2>4, <2>5 DEF PaidItems
<1>10. \A p, o : Place(p, o) \in GraphOccurrences => EdgesItem(p, o) \in EdgeItems
  BY <1>4 DEF EdgeItems
<1>11. PaidEdges \subseteq EdgeItems
  BY <1>1, <1>3, <1>10 DEF PaidEdges
<1> QED
  BY <1>6, <1>7, <1>9, <1>11

(* An acceptable container has room for every part that is not paid yet.    *)
LEMMA RoomLeft ==
  ASSUME ReaderInv, ContractInv, Acceptable, call.entry = "read", pc # "failed"
  PROVE  /\ \A x \in ByteItems : PaidItems \subseteq ByteItems /\ x \notin PaidItems =>
              x.amount \in Nat /\ Affords("bytes", x.amount)
         /\ \A x \in EdgeItems : PaidEdges \subseteq EdgeItems /\ x \notin PaidEdges =>
              x.amount \in Nat /\ Affords("edges", x.amount)
<1>1. SafeInv /\ TypeOK
  BY DEF ReaderInv, SafeInv
<1>2. Countables(ByteItems) /\ Countables(EdgeItems)
  BY <1>1, DescribedItems
<1>3. /\ call.limit["bytes"] # NoLimit =>
           used["bytes"] = Total(PaidItems) /\ Total(ByteItems) <= call.limit["bytes"]
      /\ call.limit["edges"] # NoLimit =>
           used["edges"] = Total(PaidEdges) /\ Total(EdgeItems) <= call.limit["edges"]
  BY DEF ContractInv, PaidInv, EdgesInv, Acceptable, WithinLimits, Within
<1>4. \A r \in Resources : call.limit[r] # NoLimit => call.limit[r] \in Nat
  BY <1>1, CallFacts, UsizeAssumption DEF TypeOK, Limits, Usize
<1>5. \A x \in ByteItems : PaidItems \subseteq ByteItems /\ x \notin PaidItems =>
        x.amount \in Nat /\ Affords("bytes", x.amount)
  <2>1. SUFFICES ASSUME NEW x \in ByteItems, PaidItems \subseteq ByteItems, x \notin PaidItems
                 PROVE  x.amount \in Nat /\ Affords("bytes", x.amount)
    OBVIOUS
  <2>2. /\ Total(PaidItems) + x.amount <= Total(ByteItems)
        /\ Total(PaidItems) \in Nat /\ Total(ByteItems) \in Nat
    BY <1>2, <2>1, RoomForOneMore
  <2>3. x.amount \in Nat
    BY <1>2 DEF Countables
  <2> QED
    BY <1>3, <1>4, <2>2, <2>3 DEF Affords, Resources
<1>6. \A x \in EdgeItems : PaidEdges \subseteq EdgeItems /\ x \notin PaidEdges =>
        x.amount \in Nat /\ Affords("edges", x.amount)
  <2>1. SUFFICES ASSUME NEW x \in EdgeItems, PaidEdges \subseteq EdgeItems, x \notin PaidEdges
                 PROVE  x.amount \in Nat /\ Affords("edges", x.amount)
    OBVIOUS
  <2>2. /\ Total(PaidEdges) + x.amount <= Total(EdgeItems)
        /\ Total(PaidEdges) \in Nat /\ Total(EdgeItems) \in Nat
    BY <1>2, <2>1, RoomForOneMore
  <2>3. x.amount \in Nat
    BY <1>2 DEF Countables
  <2> QED
    BY <1>3, <1>4, <2>2, <2>3 DEF Affords, Resources
<1> QED
  BY <1>5, <1>6

(* What an acceptable container holds at the place of the traversal.        *)
LEMMA GoodHere ==
  ASSUME ReaderInv, ContractInv, Acceptable, pc \in Traversal
  PROVE  /\ call.entry = "read" /\ pc # "failed" /\ frame \in Frames
         /\ \A x \in Occurrences : ObjectReadable(x.object)
         /\ WithinLimits /\ NoGraphAlias
         /\ ObjectReadable(frame.graph) /\ IsGraph(frame.graph) /\ GraphReadable(frame.graph)
         /\ \A n \in frame.todo : ObjectReadable(At(frame.nodes, n))
         /\ Decoding \/ pc \in {"metadata", "entries"} => ObjectReadable(frame.at)
         /\ \A x \in ByteItems : x \notin PaidItems =>
              x.amount \in Nat /\ Affords("bytes", x.amount)
         /\ \A x \in EdgeItems : x \notin PaidEdges =>
              x.amount \in Nat /\ Affords("edges", x.amount)
<1>1. /\ pc \notin Envelope \cup Halted /\ pc # "failed"
      /\ frame \in Frames
  BY DEF Traversal, Inner, Envelope, Halted, ReaderInv, SafeInv, TypeOK
<1>2. call.entry = "read"
  BY <1>1 DEF ReaderInv, VersionInv
<1>3. /\ \A x \in Occurrences : ObjectReadable(x.object)
      /\ WithinLimits /\ NoGraphAlias
  BY <1>2 DEF Acceptable
<1>4. \A p, o : Place(p, o) \in Occurrences => ObjectReadable(o)
  BY <1>3 DEF Place
<1>5. /\ Place(frame.path, frame.graph) \in GraphOccurrences
      /\ \A n \in frame.todo : Place(Append(frame.path, n), At(frame.nodes, n)) \in Occurrences
      /\ Decoding => Place(Current, frame.at) \in Occurrences
      /\ pc \in {"metadata", "entries"} => Place(Current, frame.at) \in Occurrences
  BY OccursHere
<1>6. Place(frame.path, frame.graph) \in Occurrences /\ IsGraph(frame.graph)
  BY <1>5 DEF GraphOccurrences, Place
<1>7. ObjectReadable(frame.graph) /\ GraphReadable(frame.graph)
  BY <1>4, <1>6 DEF ObjectReadable
<1>8. PaidItems \subseteq ByteItems /\ PaidEdges \subseteq EdgeItems
  BY Included
<1>9. /\ \A x \in ByteItems : x \notin PaidItems =>
           x.amount \in Nat /\ Affords("bytes", x.amount)
      /\ \A x \in EdgeItems : x \notin PaidEdges =>
           x.amount \in Nat /\ Affords("edges", x.amount)
  BY <1>1, <1>2, <1>8, RoomLeft
<1> QED
  BY <1>1, <1>2, <1>3, <1>4, <1>5, <1>6, <1>7, <1>9

(* A readable dataset for which there is room is decoded.                   *)
LEMMA DecodingSucceeds ==
  ASSUME SafeInv, NEW o \in Groups, NEW n \in Names, NEW want \in Wants,
         IsDatasetAt(o, n, want), Affords("bytes", Bytes(DataAt(o, n), want)),
         want = "edges" => Affords("edges", EdgeCount(DataAt(o, n)))
  PROVE  HasDataset(o, n) /\ Verdict(DataAt(o, n), want) = "none"
<1>1. DataAt(o, n) \in DatasetRecords
  BY ReadableAmount
<1>2. HasDataset(o, n) /\ Is(DataAt(o, n), want)
  BY DEF IsDatasetAt
<1> QED
  BY <1>1, <1>2, VerdictExact DEF SafeInv

(* The checks before the first graph refuse no acceptable container.        *)
LEMMA EnvelopeSucceeds ==
  ASSUME ReaderInv, ContractInv, Acceptable,
         CheckRootLinks \/ LoadVersion \/ EnforceVersionPolicy \/ OpenTopGraph \/ ReadRootType
  PROVE  pc' # "failed"
<1>1. SafeInv /\ TypeOK /\ Root \in Groups /\ {"version", "type", "node"} \subseteq Names
  BY KnownNames, ContainerAssumption DEF ReaderInv, SafeInv
<1>2. VersionReadable /\ VersionAccepted
  BY DEF Acceptable
<1>3. ASSUME pc \in {"node", "rootType"}
      PROVE  /\ call.entry = "read" /\ HasGroup(Root, "node") /\ IsGraph(TopGraph)
             /\ Place(<<>>, TopGraph) \in Occurrences /\ ObjectReadable(TopGraph)
  <2>1. call.entry = "read"
    BY <1>3 DEF ReaderInv, VersionInv, Envelope, Halted
  <2>2. /\ HasGroup(Root, "node") /\ IsGraph(TopGraph)
        /\ \A x \in Occurrences : ObjectReadable(x.object)
    BY <2>1 DEF Acceptable
  <2>3. Place(<<>>, TopGraph) \in Occurrences
    BY <1>1, <2>2, NodePathsCount
  <2>4. Place(<<>>, TopGraph).object = TopGraph
    BY DEF Place
  <2>5. ObjectReadable(TopGraph)
    BY <2>2, <2>3, <2>4
  <2> QED
    BY <2>1, <2>2, <2>3, <2>5
<1>4. CASE CheckRootLinks
  <2>1. OnlyHardLinks(Root)
    BY <1>2 DEF VersionReadable
  <2> QED
    BY <1>4, <2>1 DEF CheckRootLinks, Goto
<1>5. CASE LoadVersion
  <2>1. CASE ~Linked(Root, "version")
    BY <1>5, <2>1 DEF LoadVersion, Goto
  <2>2. CASE Linked(Root, "version")
    <3>1. /\ IsDatasetAt(Root, "version", "text")
          /\ Within("bytes", DataAt(Root, "version").cost)
      BY <1>2, <2>2 DEF VersionReadable
    <3>2. pc = "version" /\ pc \in Outside /\ pc \in BeforeVersion /\ pc # "failed"
      BY <1>5 DEF LoadVersion, Outside, BeforeVersion
    <3>3. PaidItems = {}
      BY <3>2, OutsideFacts DEF PaidVersion
    <3>4. call.limit["bytes"] # NoLimit => used["bytes"] = 0
      BY <3>2, <3>3, TotalOfNone DEF ContractInv, PaidInv
    <3>5. Bytes(DataAt(Root, "version"), "text") = DataAt(Root, "version").cost
          /\ Bytes(DataAt(Root, "version"), "text") \in Nat
      <4>1. Bytes(DataAt(Root, "version"), "text") \in Nat
        BY <1>1, <3>1, ReadableAmount DEF Wants
      <4> QED
        BY <4>1 DEF Bytes
    <3>6. Affords("bytes", Bytes(DataAt(Root, "version"), "text"))
      BY <3>1, <3>4, <3>5 DEF Affords, Within
    <3>7. HasDataset(Root, "version") /\ Verdict(DataAt(Root, "version"), "text") = "none"
      BY <1>1, <3>1, <3>6, DecodingSucceeds DEF Wants
    <3> QED
      BY <1>5, <2>2, <3>7 DEF LoadVersion
  <2> QED
    BY <2>1, <2>2
<1>6. CASE EnforceVersionPolicy
  <2>1. pc = "policy"
    BY <1>6 DEF EnforceVersionPolicy
  <2>2. version = IF Linked(Root, "version") THEN DataAt(Root, "version").value ELSE NoVersion
    BY <2>1 DEF ContractInv, ReadableInv, EnvelopeRead, BeforeVersion
  <2>3. PolicyAccepts /\ (version # NoVersion <=> Linked(Root, "version"))
    BY <1>1, <1>2, <2>2, PolicyExact
  <2>4. call.entry = "readVersion" => version # NoVersion
    BY <2>3 DEF Acceptable
  <2> QED
    BY <1>6, <2>3, <2>4 DEF EnforceVersionPolicy, Goto
<1>7. CASE OpenTopGraph
  <2>1. HasGroup(Root, "node") /\ OnlyHardLinks(TopGraph)
    BY <1>3, <1>7 DEF OpenTopGraph, ObjectReadable
  <2> QED
    BY <1>7, <2>1 DEF OpenTopGraph, Goto
<1>8. CASE ReadRootType
  <2> DEFINE x == TypeItem(<<>>, TopGraph)
  <2>1. pc = "rootType"
    BY <1>8 DEF ReadRootType
  <2>2. /\ call.entry = "read" /\ IsDatasetAt(TopGraph, "type", "text") /\ TopGraph \in Groups
        /\ Place(<<>>, TopGraph) \in Occurrences /\ DataAt(TopGraph, "type").value = "NIRGraph"
    BY <1>3, <2>1 DEF ObjectReadable, IsGraph
  <2>3. pc \in Outside /\ pc # "failed"
    BY <2>1 DEF Outside
  <2>4. PaidItems \subseteq VersionItems /\ VersionItems \subseteq ByteItems
    BY <2>3, OutsideFacts DEF PaidVersion, ByteItems
  <2>5. x \in ByteItems
    <3>1. Place(<<>>, TopGraph).path = <<>> /\ Place(<<>>, TopGraph).object = TopGraph
      BY DEF Place
    <3>2. x \in ItemsOf(<<>>, TopGraph)
      BY DEF ItemsOf
    <3> QED
      BY <2>2, <3>1, <3>2 DEF ByteItems
  <2>6. x \notin VersionItems
    <3>1. <<"type", NoName>> # <<"version", NoName>>
      OBVIOUS
    <3> QED
      BY <3>1, ItemsAt
  <2>7. Affords("bytes", x.amount)
    BY <2>2, <2>3, <2>4, <2>5, <2>6, RoomLeft
  <2>8. x.amount = Bytes(DataAt(TopGraph, "type"), "text")
    BY DEF TypeItem, Item, Bytes
  <2>9. Affords("bytes", Bytes(DataAt(TopGraph, "type"), "text"))
    BY <2>7, <2>8
  <2>10. HasDataset(TopGraph, "type") /\ Verdict(DataAt(TopGraph, "type"), "text") = "none"
    BY <1>1, <2>2, <2>9, DecodingSucceeds DEF Wants
  <2> QED
    BY <1>8, <2>2, <2>10 DEF ReadRootType
<1> QED
  BY <1>4, <1>5, <1>6, <1>7, <1>8

(* The checks on the links of a group, likewise.                            *)
LEMMA LinksSucceed ==
  ASSUME ReaderInv, ContractInv, Acceptable, CheckGraphLinks \/ OpenMember \/ OpenMetadata
  PROVE  pc' # "failed"
<1>1. pc \in Traversal
  BY DEF CheckGraphLinks, OpenMember, OpenMetadata, Traversal, Inner
<1>2. /\ ObjectReadable(frame.graph)
      /\ \A n \in frame.todo : ObjectReadable(At(frame.nodes, n))
      /\ pc \in {"metadata", "entries"} => ObjectReadable(frame.at)
      /\ frame \in Frames /\ pc # "failed"
  BY <1>1, GoodHere
<1>3. CASE CheckGraphLinks
  <2>1. OnlyHardLinks(frame.graph)
    BY <1>2 DEF ObjectReadable
  <2> QED
    BY <1>3, <2>1 DEF CheckGraphLinks, Goto
<1>4. CASE OpenMember
  <2>1. PICK n \in frame.todo :
          \/ ~HasGroup(frame.nodes, n) /\ Fail("Io")
          \/ /\ HasGroup(frame.nodes, n)
             /\ IF ~OnlyHardLinks(At(frame.nodes, n)) THEN Fail("InvalidGraph")
                ELSE pc' = "nodeType"
    BY <1>4 DEF OpenMember
  <2>2. n \in Members(frame.nodes)
    BY <1>1, OccursHere
  <2>3. HasGroup(frame.nodes, n) /\ OnlyHardLinks(At(frame.nodes, n))
    BY <1>2, <2>2 DEF ObjectReadable, HasGroup, Members
  <2> QED
    BY <2>1, <2>3
<1>5. CASE OpenMetadata
  <2>1. pc = "metadata" /\ ObjectReadable(frame.at)
    BY <1>2, <1>5 DEF OpenMetadata
  <2>2. Linked(frame.at, "metadata") =>
          At(frame.at, "metadata") \in Groups /\ OnlyHardLinks(At(frame.at, "metadata"))
    BY <2>1 DEF ObjectReadable, MetadataReadable, HasGroup
  <2> QED
    BY <1>5, <2>2 DEF OpenMetadata
<1> QED
  BY <1>3, <1>4, <1>5

(* A graph of an acceptable container is entered by its only path, and      *)
(* there is room for it.                                                    *)
LEMMA GraphSucceeds ==
  ASSUME ReaderInv, ContractInv, Acceptable, EnterGraph
  PROVE  pc' # "failed"
<1> DEFINE s == Place(frame.path, frame.graph)
<1>1. pc = "enter" /\ pc \in Traversal /\ pc \notin Inner /\ pc # "failed"
  BY DEF EnterGraph, Traversal, Inner
<1>2. /\ TypeOK /\ LimitsRespected /\ callers \in Seq(Frames) /\ visited \in Seq(Groups)
      /\ MaxGraphs \in Nat
  BY OptionsAssumption DEF ReaderInv, SafeInv, TypeOK
<1>3. /\ WithinLimits /\ NoGraphAlias /\ call.entry = "read"
  BY <1>1, GoodHere
<1>4. /\ IsFiniteSet(SeenGraphs) /\ Cardinality(SeenGraphs) = Len(visited)
      /\ Entered = {x.object : x \in SeenGraphs}
      /\ call.limit["graphs"] # NoLimit => used["graphs"] = Len(visited)
  BY <1>1 DEF ContractInv, SeenInv
<1>5. SeenGraphs \subseteq GraphOccurrences /\ s \in GraphOccurrences
  BY <1>1, Included, OccursHere
<1>6. s.path = frame.path /\ s.object = frame.graph
  BY DEF Place
<1>7. s \notin SeenGraphs
  <2>1. frame.path \notin Paths /\ \A i \in DOMAIN callers : callers[i].path # frame.path
    BY <1>1, Positions DEF ContractInv
  <2>2. SeenGraphs = {Place(x.path, x.object) : x \in {y \in tree : y.type = "NIRGraph"}}
           \cup {Place(callers[i].path, callers[i].graph) : i \in DOMAIN callers}
    BY <1>1 DEF SeenGraphs
  <2>3. \A p, o : Place(p, o).path = p
    BY DEF Place
  <2>4. \A x \in tree : Place(x.path, x.object) # s
    BY <1>6, <2>1, <2>3 DEF Paths
  <2>5. \A i \in DOMAIN callers : Place(callers[i].path, callers[i].graph) # s
    BY <1>6, <2>1, <2>3
  <2> HIDE DEF s
  <2> QED
    BY <2>2, <2>4, <2>5
<1> HIDE DEF s
<1>8. \A i \in DOMAIN visited : visited[i] # frame.graph
  <2>1. SUFFICES ASSUME NEW i \in DOMAIN visited, visited[i] = frame.graph PROVE FALSE
    OBVIOUS
  <2>2. frame.graph \in Entered
    BY <2>1 DEF Entered
  <2>3. PICK z \in SeenGraphs : z.object = frame.graph
    BY <1>4, <2>2
  <2>4. z = s
    BY <1>3, <1>5, <1>6, <2>3 DEF NoGraphAlias
  <2> QED
    BY <1>7, <2>3, <2>4
<1>9. Len(visited) \in Nat /\ Len(visited) + 1 <= Cardinality(GraphOccurrences)
      /\ Cardinality(GraphOccurrences) \in Nat
  <2>1. IsFiniteSet(GraphOccurrences)
    BY <1>3, DescribedItems DEF ReaderInv
  <2>2. IsFiniteSet(SeenGraphs \cup {s}) /\ Cardinality(SeenGraphs \cup {s}) = Len(visited) + 1
    BY <1>4, <1>7, FS_AddElement
  <2>3. SeenGraphs \cup {s} \subseteq GraphOccurrences
    BY <1>5
  <2>4. Cardinality(SeenGraphs \cup {s}) <= Cardinality(GraphOccurrences)
    BY <2>1, <2>3, FS_Subset
  <2> QED
    BY <1>2, <2>1, <2>2, <2>4, FS_CardinalityType
<1>10. Admits(call.limit["graphs"], used["graphs"], 1)
  <2>1. call.limit["graphs"] # NoLimit =>
          Cardinality(GraphOccurrences) <= call.limit["graphs"] /\ call.limit["graphs"] \in Nat
    <3>1. call.limit["graphs"] \in Limits
      BY <1>2, CallFacts DEF TypeOK, Resources
    <3> QED
      BY <1>3, <3>1, UsizeAssumption DEF WithinLimits, Within, Limits, Usize
  <2>2. Affords("graphs", 1)
    BY <1>4, <1>9, <2>1 DEF Affords
  <2> QED
    BY <1>2, <2>2, AdmitsExactly DEF Resources
<1>11. ~(Len(visited) >= MaxGraphs)
  BY <1>2, <1>3, <1>9 DEF NoGraphAlias
<1> QED
  BY <1>1, <1>8, <1>10, <1>11 DEF EnterGraph

(* The members of a graph are nodes no other name stands for.               *)
LEMMA NodesSucceed ==
  ASSUME ReaderInv, ContractInv, Acceptable, OpenNodes
  PROVE  pc' # "failed"
<1> DEFINE g == At(frame.graph, "nodes")
           n == Cardinality(Members(g))
           T == {Append(frame.path, m) : m \in Members(g)}
<1>1. pc = "nodes" /\ pc \in Traversal /\ pc # "failed"
  BY DEF OpenNodes, Traversal, Inner
<1>2. TypeOK /\ LimitsRespected /\ frame \in Frames /\ HasGroup(Root, "node")
  BY <1>1, OccursHere DEF ReaderInv, SafeInv, TypeOK
<1>3. /\ WithinLimits /\ HasGroup(frame.graph, "nodes") /\ OnlyHardLinks(g)
  BY <1>1, GoodHere DEF GraphReadable
<1>4. /\ IsFiniteSet(HeldPaths)
      /\ call.limit["nodes"] # NoLimit => used["nodes"] = Cardinality(HeldPaths)
  BY <1>1 DEF ContractInv, HeldInv
<1>5. /\ IsFiniteSet(HeldPaths \cup T)
      /\ Cardinality(HeldPaths \cup T) = Cardinality(HeldPaths) + n
      /\ n \in Nat
  BY <1>1, NamesAreNew
<1>6. HeldPaths \cup T \subseteq NodePaths
  <2>1. HeldPaths \subseteq NodePaths
    BY <1>1, Included
  <2>2. \A m \in Members(g) : Append(frame.path, m) \in NodePaths
    <3>1. TAKE m \in Members(g)
    <3>2. Place(Append(frame.path, m), At(g, m)) \in Occurrences
      BY <1>1, <1>3, OccursHere
    <3>3. Place(Append(frame.path, m), At(g, m)).path = Append(frame.path, m)
      BY DEF Place
    <3>4. Append(frame.path, m) # <<>>
      BY <1>1, <3>1, Positions DEF ContractInv, Members
    <3> QED
      BY <3>2, <3>3, <3>4 DEF NodePaths
  <2> QED
    BY <2>1, <2>2
<1>7. Admits(call.limit["nodes"], used["nodes"], n)
  <2>1. /\ IsFiniteSet(NodePaths) /\ Cardinality(NodePaths) = Cardinality(Occurrences) - 1
    BY <1>2, NodePathsCount
  <2> HIDE DEF T, n
  <2>2. Cardinality(HeldPaths) + n <= Cardinality(Occurrences) - 1
    BY <1>5, <1>6, <2>1, FS_Subset
  <2>3. call.limit["nodes"] # NoLimit =>
          Cardinality(Occurrences) - 1 <= call.limit["nodes"] /\ call.limit["nodes"] \in Nat
    <3>1. call.limit["nodes"] \in Limits
      BY <1>2, CallFacts DEF TypeOK, Resources
    <3> QED
      BY <1>3, <3>1, UsizeAssumption DEF WithinLimits, Within, Limits, Usize
  <2>4. Cardinality(HeldPaths) \in Nat /\ Cardinality(NodePaths) \in Nat
    BY <1>4, <2>1, FS_CardinalityType
  <2>5. Affords("nodes", n)
    BY <1>4, <1>5, <2>1, <2>2, <2>3, <2>4 DEF Affords
  <2> QED
    BY <1>2, <1>5, <2>5, AdmitsExactly DEF Resources
<1> HIDE DEF T
<1> QED
  BY <1>1, <1>3, <1>7 DEF OpenNodes

(* What is described at the place of the traversal is part of the total.    *)
LEMMA ItemsDescribed ==
  ASSUME NEW p, NEW o, Place(p, o) \in Occurrences
  PROVE  /\ ItemsOf(p, o) \subseteq ByteItems
         /\ IsGraph(o) => EdgesItem(p, o) \in EdgeItems
<1>1. Place(p, o).path = p /\ Place(p, o).object = o
  BY DEF Place
<1> QED
  BY <1>1 DEF ByteItems, EdgeItems, GraphOccurrences

(* The type of every node is decoded.                                       *)
LEMMA TypeSucceeds ==
  ASSUME ReaderInv, ContractInv, Acceptable, ReadNodeType
  PROVE  pc' # "failed"
<1> DEFINE x == TypeItem(Current, frame.at)
           d == DataAt(frame.at, "type")
<1>1. pc = "nodeType" /\ pc \in Traversal /\ Decoding
  BY DEF ReadNodeType, Traversal, Inner, Decoding
<1>2. SafeInv /\ frame.at \in Groups /\ "type" \in Names
  BY KnownNames DEF ReaderInv, SafeInv, TypeOK, Frames
<1>3. IsDatasetAt(frame.at, "type", "text")
  BY <1>1, GoodHere DEF ObjectReadable
<1>4. x \in ByteItems
  <2>1. Place(Current, frame.at) \in Occurrences
    BY <1>1, OccursHere
  <2>2. x \in ItemsOf(Current, frame.at)
    BY DEF ItemsOf
  <2> QED
    BY <2>1, <2>2, ItemsDescribed
<1>5. Affords("bytes", x.amount)
  BY <1>1, <1>4, TypeIsNew, GoodHere
<1>6. x.amount = Bytes(d, "text")
  BY DEF TypeItem, Item, Bytes
<1>7. Affords("bytes", Bytes(d, "text"))
  BY <1>5, <1>6
<1>8. HasDataset(frame.at, "type") /\ Verdict(d, "text") = "none"
  BY <1>2, <1>3, <1>7, DecodingSucceeds DEF Wants
<1> HIDE DEF d, x
<1> QED
  BY <1>8 DEF ReadNodeType, d

(* Every metadata entry is decoded.                                         *)
LEMMA EntrySucceeds ==
  ASSUME ReaderInv, ContractInv, Acceptable, ReadEntry
  PROVE  pc' # "failed"
<1> DEFINE md == At(frame.at, "metadata")
<1>1. pc = "entries" /\ pc \in Traversal /\ pc # "failed"
  BY DEF ReadEntry, Traversal, Inner
<1>2. PICK k \in frame.keys :
        \/ ~HasDataset(md, k) /\ Fail("Io")
        \/ /\ HasDataset(md, k)
           /\ IF Verdict(DataAt(md, k), "metadata") # "none"
              THEN Fail(Verdict(DataAt(md, k), "metadata"))
              ELSE UNCHANGED pc
  BY DEF ReadEntry
<1> DEFINE x == EntryItem(Current, frame.at, k)
<1>3. SafeInv /\ k \in Names /\ "metadata" \in Names /\ frame.at \in Groups
  BY KnownNames DEF ReaderInv, SafeInv, TypeOK, Frames
<1>4. k \in Keys(frame.at)
  BY <1>1, ReadSoFar DEF FrameRead, MetadataRead
<1>5. md \in Groups /\ IsDatasetAt(md, k, "metadata")
  <2>1. MetadataReadable(frame.at)
    BY <1>1, GoodHere DEF ObjectReadable
  <2>2. Linked(frame.at, "metadata") /\ k \in Members(md)
    BY <1>4 DEF Keys
  <2> QED
    BY <2>1, <2>2 DEF MetadataReadable, HasGroup
<1>6. x \in ByteItems
  <2>1. Place(Current, frame.at) \in Occurrences
    BY <1>1, OccursHere
  <2>2. x \in ItemsOf(Current, frame.at)
    BY <1>4 DEF ItemsOf
  <2> QED
    BY <2>1, <2>2, ItemsDescribed
<1>7. Affords("bytes", x.amount)
  BY <1>1, <1>6, EntryIsNew, GoodHere
<1>8. x.amount = Bytes(DataAt(md, k), "metadata")
  BY DEF EntryItem, Item, Bytes
<1>9. Affords("bytes", Bytes(DataAt(md, k), "metadata"))
  BY <1>7, <1>8
<1> HIDE DEF md, x
<1>10. HasDataset(md, k) /\ Verdict(DataAt(md, k), "metadata") = "none"
  BY <1>3, <1>5, <1>9, DecodingSucceeds DEF Wants
<1> QED
  BY <1>1, <1>2, <1>10

(* A leaf has a decoder, and its decoder reads every field of its plan.     *)
LEMMA FieldSucceeds ==
  ASSUME ReaderInv, ContractInv, Acceptable, AtLeaf
  PROVE  /\ frame.type \in DOMAIN FieldPlan
         /\ ReadField => pc' # "failed"
<1> DEFINE o == frame.at
           i == frame.field
           step == Plan(o)[i]
           d == DataAt(o, step.field)
           like == DataAt(o, step.like)
           x == FieldItem(Current, o, i)
<1>1. pc = "entries" /\ pc \in Inner /\ pc \in Traversal /\ pc # "failed" /\ pc # "nodeType"
      /\ Decoding /\ frame.name # NoName
  BY DEF AtLeaf, Traversal, Inner, Decoding
<1>2. SafeInv /\ o \in Groups /\ TypeOK /\ LimitsRespected
  BY DEF ReaderInv, SafeInv, TypeOK, Frames
<1>3. LeafReadable(o) /\ ~IsGraph(o)
  <2>1. ~IsGraph(o)
    BY <1>1, OccursHere
  <2> QED
    BY <1>1, <2>1, GoodHere DEF ObjectReadable
<1>4. frame.type = DataAt(o, "type").value /\ frame.type \in DOMAIN FieldPlan
  BY <1>1, <1>3 DEF LeafReadable, ReaderInv, TreeInv
<1>5. SUFFICES ASSUME ReadField PROVE pc' # "failed"
  BY <1>4
<1>6. i \in DOMAIN Plan(o) /\ Plan(o) = FieldPlan[frame.type]
  BY <1>4, <1>5, PlanFacts DEF ReadField
<1>7. FieldReadable(o, i) /\ \A j \in DOMAIN Plan(o) : FieldReadable(o, j)
  BY <1>3, <1>6 DEF LeafReadable
<1>8. step \in FieldSteps
  BY <1>6, PlanIsSeq
<1>9. step.field \in Names /\ step.want \in Wants /\ step.want # "edges"
      /\ step.when \in {"required", "optional", "default"}
  BY <1>8 DEF FieldSteps
<1>10. x.amount = IF Linked(o, step.field) THEN Bytes(d, step.want)
                  ELSE IF step.when = "default" THEN like.bytes ELSE 0
  BY DEF FieldItem, Item
<1>11. x \in ByteItems
  <2>1. Place(Current, o) \in Occurrences
    BY <1>1, OccursHere
  <2>2. x \in ItemsOf(Current, o)
    BY <1>3, <1>6 DEF ItemsOf
  <2> QED
    BY <2>1, <2>2, ItemsDescribed
<1>12. Affords("bytes", x.amount) /\ x.amount \in Nat
  BY <1>1, <1>11, FieldIsNew, GoodHere
<1>13. CASE Linked(o, step.field)
  <2>1. IsDatasetAt(o, step.field, step.want)
    BY <1>7, <1>13 DEF FieldReadable
  <2>2. Affords("bytes", Bytes(d, step.want))
    BY <1>10, <1>12, <1>13
  <2>3. HasDataset(o, step.field) /\ Verdict(d, step.want) = "none"
    <3> HIDE DEF step
    <3> QED
      BY <1>2, <1>9, <2>1, <2>2, DecodingSucceeds
  <2> HIDE DEF d, like
  <2> QED
    BY <1>1, <1>5, <1>6, <1>13, <2>3 DEF ReadField, FieldPresent, d
<1>14. CASE ~Linked(o, step.field)
  <2>1. step.when # "required"
    BY <1>7, <1>14 DEF FieldReadable
  <2>2. step.when = "default" => Fits(like.bytes)
    <3>1. ASSUME step.when = "default" PROVE Admits(call.limit["bytes"], used["bytes"], x.amount)
      BY <1>2, <1>12, AdmitsExactly DEF Resources
    <3>2. step.when = "default" => x.amount = like.bytes
      BY <1>10, <1>14
    <3> HIDE DEF step, like, x
    <3> QED
      BY <3>1, <3>2 DEF Fits
  <2> HIDE DEF d
  <2> QED
    BY <1>1, <1>5, <1>6, <1>14, <2>1, <2>2 DEF ReadField, FieldPresent
<1> QED
  BY <1>13, <1>14

(* The edge list of every graph is decoded.                                 *)
LEMMA EdgesSucceed ==
  ASSUME ReaderInv, ContractInv, Acceptable, ReadEdges
  PROVE  pc' # "failed"
<1> DEFINE g == frame.graph
           p == frame.path
           d == DataAt(g, "edges")
           x == EdgeItem(p, g)
           z == EdgesItem(p, g)
<1>1. pc = "members" /\ pc \in Traversal /\ pc # "failed"
  BY DEF ReadEdges, Traversal, Inner
<1>2. SafeInv /\ g \in Groups /\ "edges" \in Names /\ "edges" \in Wants
  BY KnownNames DEF ReaderInv, SafeInv, TypeOK, Frames, Wants
<1>3. IsDatasetAt(g, "edges", "edges") /\ IsGraph(g)
  BY <1>1, GoodHere DEF GraphReadable
<1>4. x \in ByteItems /\ z \in EdgeItems
  <2>1. Place(p, g) \in Occurrences
    BY <1>1, OccursHere DEF GraphOccurrences
  <2>2. x \in ItemsOf(p, g)
    BY <1>3 DEF ItemsOf
  <2> QED
    BY <1>3, <2>1, <2>2, ItemsDescribed
<1>5. Affords("bytes", x.amount) /\ Affords("edges", z.amount)
  BY <1>1, <1>4, EdgesAreNew, GoodHere
<1>6. x.amount = Bytes(d, "edges") /\ z.amount = EdgeCount(d)
  BY DEF EdgeItem, EdgesItem, Item
<1>7. Affords("bytes", Bytes(d, "edges")) /\ Affords("edges", EdgeCount(d))
  BY <1>5, <1>6
<1>8. HasDataset(g, "edges") /\ Verdict(d, "edges") = "none"
  BY <1>2, <1>3, <1>7, DecodingSucceeds
<1> HIDE DEF d, x, z
<1> QED
  BY <1>8 DEF ReadEdges, d

(* A read that has returned has met all of the contract.                    *)
LEMMA ReturnedIsAcceptable ==
  ASSUME ReaderInv, ContractInv, pc = "done"
  PROVE  Acceptable
<1>1. /\ SafeInv /\ TypeOK /\ LimitsRespected /\ TreeInv /\ MaxGraphs \in Nat
      /\ pc # "failed" /\ pc \notin BeforeVersion /\ pc \notin Envelope
      /\ call.entry \in {"read", "readVersion"}
      /\ \A r \in Resources : call.limit[r] # NoLimit => used[r] <= call.limit[r]
  BY OptionsAssumption
     DEF ReaderInv, SafeInv, LimitsRespected, TypeOK, CallRecords, BeforeVersion, Envelope
<1>2. /\ VersionReadable /\ VersionAccepted
      /\ call.entry = "readVersion" => Linked(Root, "version")
      /\ Returned => IsGraph(TopGraph)
  BY <1>1 DEF ContractInv, ReadableInv, EnvelopeRead
<1>3. CASE call.entry = "readVersion"
  BY <1>2, <1>3 DEF Acceptable
<1>4. CASE call.entry = "read"
  <2>1. Returned /\ HasGroup(Root, "node") /\ IsGraph(TopGraph) /\ tree = Described
    <3>1. Returned
      BY <1>4 DEF Returned
    <3> QED
      BY <1>1, <1>2, <3>1, WholeTree DEF TreeInv
  <2> DEFINE e(x) == Entry(x.path, x.object, DataAt(x.object, "type").value)
  <2>2. \A x \in Occurrences : e(x) \in tree
    BY <2>1 DEF Described
  <2>3. \A x : e(x).path = x.path /\ e(x).object = x.object
               /\ e(x).type = DataAt(x.object, "type").value
    BY DEF Entry
  <2>4. \A x \in GraphOccurrences :
          x \in Occurrences /\ e(x).type = "NIRGraph" /\ IsGraph(x.object)
    BY <2>3 DEF GraphOccurrences, IsGraph
  <2> HIDE DEF e
  <2>5. \A x \in Occurrences : x = Place(x.path, x.object)
    <3>1. TAKE x \in Occurrences
    <3>2. PICK d \in 0 .. MaxGraphs : x \in Levels[d]
      BY DEF Occurrences
    <3>3. x \in Places
      BY <1>1, <2>1, <3>2, LevelsUnfold
    <3> QED
      BY <3>3 DEF Places, Place
  <2>6. \A x \in Occurrences : ObjectReadable(x.object)
    BY <1>1, <2>2, <2>3 DEF ContractInv, ReadableInv
  <2>7. \A x, y \in GraphOccurrences : x.object = y.object => x = y
    <3>1. SUFFICES ASSUME NEW x \in GraphOccurrences, NEW y \in GraphOccurrences,
                          x.object = y.object
                   PROVE  x = y
      OBVIOUS
    <3>2. e(x) = e(y)
      BY <2>2, <2>3, <2>4, <3>1 DEF ReaderInv, TokenInv, GraphsDecodedOnce
    <3>3. x.path = y.path
      BY <2>3, <3>2
    <3> QED
      BY <2>4, <2>5, <3>1, <3>3
  <2>8. GraphOccurrences \subseteq SeenGraphs
    <3>1. \A x \in GraphOccurrences : Place(e(x).path, e(x).object) \in SeenGraphs
      BY <2>2, <2>4 DEF SeenGraphs
    <3> QED
      BY <2>3, <2>4, <2>5, <3>1
  <2>9. Cardinality(GraphOccurrences) <= Len(visited) /\ Len(visited) <= MaxGraphs
        /\ Cardinality(GraphOccurrences) \in Nat /\ Len(visited) \in Nat
        /\ (call.limit["graphs"] # NoLimit => used["graphs"] = Len(visited))
    <3>1. /\ IsFiniteSet(SeenGraphs) /\ Cardinality(SeenGraphs) = Len(visited)
          /\ call.limit["graphs"] # NoLimit => used["graphs"] = Len(visited)
      BY <1>1 DEF ContractInv, SeenInv
    <3>2. IsFiniteSet(GraphOccurrences)
      BY <2>8, <3>1, FS_Subset
    <3> QED
      BY <2>8, <3>1, <3>2, FS_Subset, FS_CardinalityType DEF ReaderInv, DepthInv
  <2>10. NoGraphAlias
    BY <1>1, <2>7, <2>9 DEF NoGraphAlias
  <2>11. \A r \in Resources : call.limit[r] # NoLimit => call.limit[r] \in Nat
    BY <1>1, CallFacts, UsizeAssumption DEF TypeOK, Limits, Usize
  <2>12. Within("graphs", Cardinality(GraphOccurrences))
    BY <1>1, <2>9, <2>11 DEF Within, Resources
  <2>13. Within("nodes", Cardinality(Occurrences) - 1)
    <3>1. NodePaths \subseteq HeldPaths
      BY <2>2, <2>3 DEF NodePaths, HeldPaths, Paths
    <3>2. /\ IsFiniteSet(NodePaths) /\ Cardinality(NodePaths) = Cardinality(Occurrences) - 1
      BY <1>1, <2>1, NodePathsCount
    <3>3. /\ IsFiniteSet(HeldPaths)
          /\ call.limit["nodes"] # NoLimit => used["nodes"] = Cardinality(HeldPaths)
      BY <1>1 DEF ContractInv, HeldInv
    <3>4. Cardinality(NodePaths) <= Cardinality(HeldPaths)
          /\ Cardinality(NodePaths) \in Nat /\ Cardinality(HeldPaths) \in Nat
      BY <3>1, <3>2, <3>3, FS_Subset, FS_CardinalityType
    <3> QED
      BY <1>1, <2>11, <3>2, <3>3, <3>4 DEF Within, Resources
  <2>14. Within("bytes", Total(ByteItems))
    <3>1. VersionItems = PaidVersion
      BY <1>1 DEF PaidVersion
    <3>2. \A x \in Occurrences : ItemsOf(x.path, x.object) \subseteq PaidTree
      BY <2>2, <2>3 DEF PaidTree
    <3>3. ByteItems \subseteq PaidItems
      BY <3>1, <3>2 DEF ByteItems, PaidItems
    <3>4. /\ Countables(PaidItems)
          /\ call.limit["bytes"] # NoLimit => used["bytes"] = Total(PaidItems)
      BY <1>1 DEF ContractInv, PaidInv
    <3>5. Total(ByteItems) <= Total(PaidItems)
          /\ Total(ByteItems) \in Nat /\ Total(PaidItems) \in Nat
      BY <3>3, <3>4, TotalOfPart, UnitsFinite
    <3> QED
      BY <1>1, <2>11, <3>4, <3>5 DEF Within, Resources
  <2>15. Within("edges", Total(EdgeItems))
    <3>1. \A x \in GraphOccurrences : EdgesItem(e(x).path, e(x).object) \in PaidEdges
      BY <2>2, <2>4 DEF PaidEdges
    <3>2. EdgeItems \subseteq PaidEdges
      BY <2>3, <3>1 DEF EdgeItems
    <3>3. /\ Countables(PaidEdges)
          /\ call.limit["edges"] # NoLimit => used["edges"] = Total(PaidEdges)
      BY <1>1 DEF ContractInv, EdgesInv
    <3>4. Total(EdgeItems) <= Total(PaidEdges)
          /\ Total(EdgeItems) \in Nat /\ Total(PaidEdges) \in Nat
      BY <3>2, <3>3, TotalOfPart, UnitsFinite
    <3> QED
      BY <1>1, <2>11, <3>3, <3>4 DEF Within, Resources
  <2> QED
    BY <1>2, <1>4, <2>1, <2>6, <2>10, <2>12, <2>13, <2>14, <2>15 DEF Acceptable, WithinLimits
<1> QED
  BY <1>1, <1>3, <1>4

(* Whether a container is acceptable does not change during the call.       *)
LEMMA AcceptableStays ==
  ASSUME UNCHANGED <<file, call>>
  PROVE  Acceptable' <=> Acceptable
<1>1. Occurrences' = Occurrences
  BY FileStays
<1>2. \A o : (IsGraph(o)' <=> IsGraph(o)) /\ (ObjectReadable(o)' <=> ObjectReadable(o))
             /\ (OnlyHardLinks(o)' <=> OnlyHardLinks(o))
  BY FileStays, ContractStays
<1>3. GraphOccurrences' = GraphOccurrences
  BY <1>1, <1>2 DEF GraphOccurrences
<1>4. NoGraphAlias' <=> NoGraphAlias
  BY <1>3 DEF NoGraphAlias
<1>5. ByteItems' = ByteItems
  BY <1>1, ItemsStay DEF ByteItems
<1>6. EdgeItems' = EdgeItems
  BY <1>3, ItemsStay DEF EdgeItems
<1>7. WithinLimits' <=> WithinLimits
  BY <1>1, <1>3, <1>5, <1>6 DEF WithinLimits, Within, Total
<1>8. /\ VersionReadable' <=> VersionReadable
      /\ VersionAccepted' <=> VersionAccepted
      /\ Linked(Root, "version")' <=> Linked(Root, "version")
      /\ HasGroup(Root, "node")' <=> HasGroup(Root, "node")
      /\ IsGraph(TopGraph)' <=> IsGraph(TopGraph)
  BY <1>2, ContractStays, FileStays DEF VersionReadable, VersionAccepted, Within, TopGraph
<1>9. (\A x \in Occurrences : ObjectReadable(x.object))' <=>
      (\A x \in Occurrences : ObjectReadable(x.object))
  BY <1>1, <1>2
<1> QED
  BY <1>4, <1>7, <1>8, <1>9 DEF Acceptable

(* A read of an acceptable container fails only by a fault of HDF5.         *)
RefusalInv == pc = "failed" /\ ~call.faulty => ~Acceptable

(* No step fails on an acceptable container.                                *)
LEMMA RefusalStep ==
  ASSUME ReaderInv, ContractInv, RefusalInv, [Next]_vars
  PROVE  RefusalInv'
<1>1. UNCHANGED <<file, call>>
  BY DEF Next, vars
<1>2. SUFFICES ASSUME pc' = "failed", ~call.faulty, Acceptable PROVE FALSE
  BY <1>1, AcceptableStays DEF RefusalInv
<1>3. CASE UNCHANGED vars
  BY <1>2, <1>3 DEF RefusalInv, vars
<1>4. CASE Next
  <2>1. ~IoFault
    BY <1>2 DEF IoFault
  <2>2. ~UnknownType
    BY <1>2, FieldSucceeds DEF UnknownType
  <2>3. ~(OpenFile \/ FinishLeaf \/ LeaveGraph)
    <3>1. ~OpenFile /\ ~FinishLeaf
      BY <1>2 DEF OpenFile, Goto, FinishLeaf
    <3>2. LeaveGraph => pc' \in {"done", "members"}
      BY DEF LeaveGraph
    <3> QED
      BY <1>2, <3>1, <3>2
  <2>4. ~(CheckRootLinks \/ LoadVersion \/ EnforceVersionPolicy \/ OpenTopGraph \/ ReadRootType)
    BY <1>2, EnvelopeSucceeds
  <2>5. ~(CheckGraphLinks \/ OpenMember \/ OpenMetadata)
    BY <1>2, LinksSucceed
  <2>6. ~EnterGraph /\ ~OpenNodes
    BY <1>2, GraphSucceeds, NodesSucceed
  <2>7. ~ReadNodeType /\ ~ReadEntry /\ ~ReadEdges
    BY <1>2, TypeSucceeds, EntrySucceeds, EdgesSucceed
  <2>8. ~ReadField
    BY <1>2, FieldSucceeds DEF ReadField
  <2> QED
    BY <1>4, <2>1, <2>2, <2>3, <2>4, <2>5, <2>6, <2>7, <2>8 DEF Next
<1> QED
  BY <1>3, <1>4

(* A read returns exactly on the containers the contract calls acceptable:  *)
(* no order of links, no sharing of groups and no early return lets one     *)
(* pass that breaks a limit or holds an unreadable part, and none that the  *)
(* options allow is refused unless HDF5 itself fails.                       *)
THEOREM AcceptedExactly == Spec => []AcceptsExactly
<1>1. ReaderInv /\ ContractInv /\ RefusalInv => AcceptsExactly
  BY ReturnedIsAcceptable DEF AcceptsExactly, RefusalInv
<1>2. Init => ReaderInv /\ ContractInv /\ RefusalInv
  <2>1. Init => pc = "open"
    BY DEF Init
  <2> QED
    BY <2>1, SafeInit, DepthInit, TokenInit, VersionInit, LedgerInit, TreeInit, ContractInit
       DEF ReaderInv, RefusalInv
<1>3. ReaderInv /\ ContractInv /\ RefusalInv /\ [Next]_vars =>
        ReaderInv' /\ ContractInv' /\ RefusalInv'
  <2>1. ReaderInv /\ [Next]_vars => ReaderInv'
    BY SafeStep, DepthStep, TokenStep, VersionStep, LedgerStep, TreeStep DEF ReaderInv
  <2> QED
    BY <2>1, ContractStep, RefusalStep
<1> QED
  BY <1>1, <1>2, <1>3, PTL DEF Spec

-----------------------------------------------------------------------------
(***************************************************************************)
(* The order of counting a graph and opening its metadata.                 *)
(***************************************************************************)
LeafInv ==
  pc \in {"metadata", "entries"} /\ frame.name # NoName => frame.type # "NIRGraph"

LEMMA LeafStep ==
  ASSUME TypeOK, LeafInv, [Next]_vars
  PROVE  LeafInv'
<1>1. SUFFICES ASSUME pc' \in {"metadata", "entries"}, frame'.name # NoName
               PROVE  frame'.type # "NIRGraph"
  BY DEF LeafInv
<1>2. frame \in Frames
  BY DEF TypeOK
<1>3. CASE UNCHANGED vars
  BY <1>1, <1>3 DEF LeafInv, vars
<1>4. CASE ReadNodeType
  BY <1>1, <1>2, <1>4 DEF ReadNodeType, Fail, Frames
<1>5. CASE OpenMetadata
  BY <1>1, <1>2, <1>5 DEF OpenMetadata, Fail, Frames, LeafInv
<1>6. CASE ReadEntry
  BY <1>1, <1>2, <1>6 DEF ReadEntry, Fail, Frames, LeafInv
<1>7. CASE ReadField
  BY <1>1, <1>2, <1>7 DEF ReadField, NextField, AtLeaf, Fail, Frames, LeafInv
<1>8. CASE ReadEdges
  BY <1>1, <1>2, <1>8 DEF ReadEdges, Fail, Frames
<1>9. CASE OpenFile \/ CheckRootLinks \/ LoadVersion \/ EnforceVersionPolicy
             \/ OpenTopGraph \/ ReadRootType
  BY <1>1, <1>9 DEF OpenFile, CheckRootLinks, LoadVersion, EnforceVersionPolicy,
                    OpenTopGraph, ReadRootType, Goto, Fail
<1>10. CASE EnterGraph \/ CheckGraphLinks \/ OpenNodes \/ OpenMember
  BY <1>1, <1>10 DEF EnterGraph, CheckGraphLinks, OpenNodes, OpenMember, Goto, Fail
<1>11. CASE UnknownType \/ FinishLeaf \/ LeaveGraph \/ IoFault
  BY <1>1, <1>11 DEF UnknownType, FinishLeaf, LeaveGraph, IoFault, Fail
<1> QED
  BY <1>3, <1>4, <1>5, <1>6, <1>7, <1>8, <1>9, <1>10, <1>11 DEF Next

(* A graph has its token and its place in the ledger before anything of its *)
(* metadata is opened, whatever the container links to: a graph that is one *)
(* too many spends no bytes on metadata.                                    *)
THEOREM GraphsAreCountedFirst == Spec => []GraphsCountedFirst
<1>1. ReaderInv /\ ContractInv /\ LeafInv => GraphsCountedFirst
  <2>1. SUFFICES ASSUME ReaderInv, ContractInv, LeafInv, pc \in {"metadata", "entries"},
                        DataAt(frame.at, "type").value = "NIRGraph"
                 PROVE  /\ \E i \in DOMAIN visited : visited[i] = frame.at
                        /\ call.limit["graphs"] # NoLimit => used["graphs"] = Len(visited)
    BY DEF GraphsCountedFirst
  <2>2. frame.name = NoName
    <3>1. SUFFICES ASSUME frame.name # NoName PROVE FALSE
      OBVIOUS
    <3>2. frame.type = DataAt(frame.at, "type").value
      BY <2>1, <3>1 DEF ReaderInv, TreeInv, Decoding
    <3> QED
      BY <2>1, <3>1, <3>2 DEF LeafInv
  <2>3. frame.at = frame.graph
    BY <2>1, <2>2 DEF ContractInv, ReadableInv, FrameRead
  <2>4. frame.graph \in Entered
    BY <2>1 DEF ReaderInv, TokenInv, Inner, Open
  <2> QED
    BY <2>1, <2>3, <2>4 DEF Entered, ContractInv, SeenInv
<1>2. Init => ReaderInv /\ ContractInv /\ LeafInv
  <2>1. Init => pc = "open"
    BY DEF Init
  <2> QED
    BY <2>1, SafeInit, DepthInit, TokenInit, VersionInit, LedgerInit, TreeInit, ContractInit
       DEF ReaderInv, LeafInv
<1>3. ReaderInv /\ ContractInv /\ LeafInv /\ [Next]_vars =>
        ReaderInv' /\ ContractInv' /\ LeafInv'
  <2>1. ReaderInv /\ [Next]_vars => ReaderInv'
    BY SafeStep, DepthStep, TokenStep, VersionStep, LedgerStep, TreeStep DEF ReaderInv
  <2>2. ReaderInv => TypeOK
    BY DEF ReaderInv, SafeInv
  <2> QED
    BY <2>1, <2>2, ContractStep, LeafStep
<1> QED
  BY <1>1, <1>2, <1>3, PTL DEF Spec

=============================================================================
