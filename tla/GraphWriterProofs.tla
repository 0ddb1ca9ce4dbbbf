------------------------- MODULE GraphWriterProofs --------------------------
(***************************************************************************)
(* Proofs about GraphWriter, for every set of graphs and options that      *)
(* write_with can be called with, and every limit of HDF5 and the reader:  *)
(* the preflight leaves nothing to refuse; every graph that is written can *)
(* be read; what is read is what the documentation says it is, and writing *)
(* and reading it once more changes nothing.                               *)
(***************************************************************************)
EXTENDS GraphWriter, TLAPS

-----------------------------------------------------------------------------
(* Every field is written in one of the ways the encoder knows.             *)
LEMMA WritesForms ==
  ASSUME NEW type \in LeafTypes, NEW f \in DOMAIN Writes(type)
  PROVE  Writes(type)[f] \in Forms
<1>1. CASE type \in {"Input", "Output"}
  <2>1. Writes(type) = [shape |-> "usizes"]
    BY <1>1 DEF Writes
  <2> QED
    BY <2>1 DEF Forms
<1>2. CASE type = "Conv1d"
  BY <1>2 DEF Writes, Forms
<1>3. CASE type = "Conv2d"
  BY <1>3 DEF Writes, Forms
<1>4. CASE type = "Flatten"
  BY <1>4 DEF Writes, Forms
<1>5. CASE type \notin {"Input", "Output", "Conv1d", "Conv2d", "Flatten"}
  BY <1>5 DEF LeafTypes, Writes, Tensors, Forms
<1> QED
  BY <1>1, <1>2, <1>3, <1>4, <1>5

(* The tensor fields that a write_* function writes are the fields whose    *)
(* rank check_node_tensor_ranks looks at: two lists kept by hand.           *)
LEMMA TensorsAreChecked ==
  ASSUME NEW type \in LeafTypes, NEW f \in DOMAIN Writes(type), Writes(type)[f] = "tensor"
  PROVE  f \in RankChecked(type)
<1>1. CASE type \in {"Input", "Output"}
  <2>1. Writes(type) = [shape |-> "usizes"]
    BY <1>1 DEF Writes
  <2>2. f = "shape" /\ Writes(type)[f] = "usizes"
    BY <2>1
  <2> QED
    BY <2>2
<1>2. CASE type = "Affine"
  BY <1>2 DEF Writes, Tensors, RankChecked
<1>3. CASE type = "Linear"
  BY <1>3 DEF Writes, Tensors, RankChecked
<1>4. CASE type = "Scale"
  BY <1>4 DEF Writes, Tensors, RankChecked
<1>5. CASE type = "Conv1d"
  BY <1>5 DEF Writes, Tensors, RankChecked
<1>6. CASE type = "Conv2d"
  BY <1>6 DEF Writes, Tensors, RankChecked
<1>7. CASE type = "CubaLI"
  BY <1>7 DEF Writes, Tensors, RankChecked
<1>8. CASE type = "CubaLIF"
  BY <1>8 DEF Writes, Tensors, RankChecked
<1>9. CASE type = "I"
  BY <1>9 DEF Writes, Tensors, RankChecked
<1>10. CASE type = "IF"
  BY <1>10 DEF Writes, Tensors, RankChecked
<1>11. CASE type = "LI"
  BY <1>11 DEF Writes, Tensors, RankChecked
<1>12. CASE type = "LIF"
  BY <1>12 DEF Writes, Tensors, RankChecked
<1>13. CASE type \in {"SumPool2d", "AvgPool2d"}
  BY <1>13 DEF Writes, Tensors, RankChecked
<1>14. CASE type = "Delay"
  BY <1>14 DEF Writes, Tensors, RankChecked
<1>15. CASE type = "Flatten"
  BY <1>15 DEF Writes, Tensors, RankChecked
<1>16. CASE type = "Threshold"
  BY <1>16 DEF Writes, Tensors, RankChecked
<1> QED
  BY <1>1, <1>2, <1>3, <1>4, <1>5, <1>6, <1>7, <1>8, <1>9, <1>10, <1>11, <1>12, <1>13, <1>14, <1>15, <1>16 DEF LeafTypes

(* Every extent check of the encoder has been made by check_usize_fields.   *)
LEMMA ExtentsAreChecked ==
  ASSUME NEW type \in LeafTypes, NEW fields, ExtentsLegal(type, fields),
         NEW f \in Present(fields), f \in DOMAIN Writes(type)
  PROVE  Encodes(Writes(type)[f], fields[f])
<1>1. CASE type \in {"Input", "Output"}
  <2>1. Writes(type) = [shape |-> "usizes"]
    BY <1>1 DEF Writes
  <2>2. f = "shape" /\ Writes(type)[f] = "usizes"
    BY <2>1
  <2> QED
    BY <2>2, <1>1 DEF ExtentsLegal, Encodes
<1>2. CASE type = "Flatten"
  BY <1>2 DEF Writes, ExtentsLegal, Encodes, Present
<1>3. CASE type = "Conv1d"
  BY <1>3 DEF Writes, ExtentsLegal, Encodes, Present
<1>4. CASE type = "Conv2d"
  BY <1>4 DEF Writes, ExtentsLegal, Encodes, Present
<1>5. CASE type \notin {"Input", "Output", "Flatten", "Conv1d", "Conv2d"}
  BY <1>5 DEF LeafTypes, Writes, Tensors, Encodes
<1> QED
  BY <1>1, <1>2, <1>3, <1>4, <1>5

(* A dataset of a legal rank, legal extents and a legal level can be        *)
(* created: the filter is set only on what can be chunked.                  *)
LEMMA ArraysAreCreatable ==
  ASSUME NEW class, NEW shape, NEW data, NEW level, Len(shape) <= MaxRank,
         ~Unlimits(Array(class, shape, data, None)),
         level # None => level \in 0 .. 9
  PROVE  Creatable(Array(class, shape, data, level))
  BY DEF Array, Creatable, Unlimits

LEMMA ScalarsAreCreatable ==
  ASSUME NEW class, NEW value
  PROVE  Creatable(Scalar(class, value)) /\ ~Unlimits(Scalar(class, value))
  BY EncodingAssumption DEF Scalar, Creatable, Unlimits

LEMMA FieldsAreCreatable ==
  ASSUME NEW type \in LeafTypes, NEW fields, NEW f \in Present(fields),
         f \in DOMAIN Writes(type), NEW level, level # None => level \in 0 .. 9,
         f \in RankChecked(type) => Len(fields[f].shape) <= MaxRank,
         ~Unlimits(Encoded(Writes(type)[f], fields[f], None))
  PROVE  Creatable(Encoded(Writes(type)[f], fields[f], level))
<1> DEFINE how == Writes(type)[f]
           v   == fields[f]
<1>1. CASE how = "tensor"
  <2>1. Len(v.shape) <= MaxRank
    BY <1>1, TensorsAreChecked
  <2>2. \A l : Encoded(how, v, l) = Array(v.class, v.shape, v.data, l)
    BY <1>1 DEF Encoded
  <2> QED
    BY <2>1, <2>2, ArraysAreCreatable
<1>2. CASE how = "usizes"
  <2>1. \A l : Encoded(how, v, l) = Array("i64", <<Len(v)>>, v, l)
    BY <1>2 DEF Encoded
  <2>2. Len(<<Len(v)>>) <= MaxRank
    BY EncodingAssumption
  <2> QED
    BY <2>1, <2>2, ArraysAreCreatable
<1>3. CASE how \in {"int", "usize", "extent"}
  <2>1. PICK value : Encoded(how, v, level) = Scalar("i64", value)
    BY <1>3 DEF Encoded
  <2> QED
    BY <2>1, ScalarsAreCreatable
<1>4. CASE how = "pair"
  <2>1. \A l : Encoded(how, v, l) = Array("i64", <<2>>, Pair(v), l)
    BY <1>4 DEF Encoded
  <2>2. Len(<<2>>) <= MaxRank
    BY EncodingAssumption
  <2> QED
    BY <2>1, <2>2, ArraysAreCreatable
<1>5. CASE how \in {"padding", "paddings"}
  <2>1. \/ \E class, value : Encoded(how, v, level) = Scalar(class, value)
        \/ \A l : Encoded(how, v, l) = Array("i64", <<2>>, Pair(v.extents), l)
    BY <1>5 DEF Encoded
  <2>2. Len(<<2>>) <= MaxRank
    BY EncodingAssumption
  <2> QED
    BY <2>1, <2>2, ScalarsAreCreatable, ArraysAreCreatable
<1>6. how \in Forms
  BY WritesForms
<1> QED
  BY <1>1, <1>2, <1>3, <1>4, <1>5, <1>6 DEF Forms

-----------------------------------------------------------------------------
(* Every metadata value is written after its text, rank and level were      *)
(* checked, if HDF5 takes its extents.                                      *)
LEMMA ValuesEncode ==
  ASSUME NEW m, NEW level, level # None => level \in 0 .. 9,
         m.kind \in {"String", "StringList"} => Storable(m.data),
         m.kind = "Tensor" => Len(m.shape) <= MaxRank,
         ~Unlimits(EncodedValue(m, None))
  PROVE  ValueEncodes(m, level)
<1>1. CASE m.kind = "Tensor"
  BY <1>1, ArraysAreCreatable DEF EncodedValue, ValueEncodes
<1>2. CASE m.kind = "StringList"
  <2>1. Creatable(StringList(m.data))
    BY <1>2, EncodingAssumption DEF StringList, Creatable, EncodedValue
  <2> QED
    BY <1>2, <2>1 DEF EncodedValue, ValueEncodes
<1>3. CASE m.kind \notin {"Tensor", "StringList"}
  BY <1>3, ScalarsAreCreatable DEF EncodedValue, ValueEncodes
<1> QED
  BY <1>1, <1>2, <1>3

(* What the checks have found when the graph is handed to the encoder.      *)
Checked(g) ==
  /\ NamesLegal(g)
  /\ StringsLegal(g)
  /\ UsizesLegal(g)
  /\ RanksLegal(g)
  /\ LevelLegal

(* The checks leave the encoder nothing to refuse but an extent.            *)
LEMMA CheckedGraphsEncode ==
  ASSUME NEW g, \A p \in DOMAIN g : Shaped(g[p]), Checked(g), ~HasUnlimited(g)
  PROVE  GraphEncodes(g)
<1>1. ASSUME NEW p \in DOMAIN g
      PROVE  FieldsEncode(g[p].type, g[p].fields, options.compression)
  <2>1. CASE g[p].type \in LeafTypes /\ DOMAIN g[p].fields = DOMAIN Writes(g[p].type)
    <3> SUFFICES ASSUME NEW f \in Present(g[p].fields)
                 PROVE  /\ Encodes(Writes(g[p].type)[f], g[p].fields[f])
                        /\ Creatable(Encoded(Writes(g[p].type)[f], g[p].fields[f],
                                             options.compression))
      BY DEF FieldsEncode
    <3>1. f \in DOMAIN Writes(g[p].type)
      BY <2>1 DEF Present
    <3>2. Encodes(Writes(g[p].type)[f], g[p].fields[f])
      BY <2>1, <3>1, ExtentsAreChecked DEF Checked, UsizesLegal
    <3>3. f \in RankChecked(g[p].type) => Len(g[p].fields[f].shape) <= MaxRank
      BY DEF Checked, RanksLegal
    <3>5. ~Unlimits(Encoded(Writes(g[p].type)[f], g[p].fields[f], None))
      BY <3>2 DEF HasUnlimited
    <3>4. Creatable(Encoded(Writes(g[p].type)[f], g[p].fields[f], options.compression))
      BY <2>1, <3>1, <3>3, <3>5, FieldsAreCreatable DEF Checked, LevelLegal
    <3> QED
      BY <3>2, <3>4
  <2>2. CASE DOMAIN g[p].fields = {}
    BY <2>2 DEF FieldsEncode, Present
  <2> QED
    BY <2>1, <2>2 DEF Shaped
<1>2. ASSUME NEW p \in DOMAIN g, NEW k \in DOMAIN g[p].metadata
      PROVE  ValueEncodes(g[p].metadata[k], options.compression)
  <2>1. g[p].metadata[k] \in MetadataOf(g, p)
    BY DEF MetadataOf
  <2>2. ~Unlimits(EncodedValue(g[p].metadata[k], None))
    BY <2>1 DEF HasUnlimited
  <2> QED
    BY <2>1, <2>2, ValuesEncode DEF Checked, StringsLegal, RanksLegal, LevelLegal
<1> QED
  BY <1>1, <1>2 DEF GraphEncodes, NodeEncodes, Checked, NamesLegal, StringsLegal

-----------------------------------------------------------------------------
(* A graph that the encoder took has no extent that HDF5 does not take: the *)
(* extents of a dataset do not depend on the deflate level.                 *)
LEMMA EncodedGraphsAreLimited ==
  ASSUME NEW g, \A p \in DOMAIN g : Shaped(g[p]), GraphEncodes(g)
  PROVE  ~HasUnlimited(g)
<1>1. ASSUME NEW p \in DOMAIN g, NEW f \in Present(g[p].fields)
      PROVE  ~Unlimits(Encoded(Writes(g[p].type)[f], g[p].fields[f], None))
  <2> DEFINE how == Writes(g[p].type)[f]
             v   == g[p].fields[f]
  <2>1. Creatable(Encoded(how, v, options.compression))
    BY DEF GraphEncodes, NodeEncodes, FieldsEncode
  <2>2. how \in Forms
    <3>1. f \in DOMAIN g[p].fields
      BY DEF Present
    <3>2. g[p].type \in LeafTypes /\ f \in DOMAIN Writes(g[p].type)
      BY <3>1 DEF Shaped
    <3> QED
      BY <3>2, WritesForms
  <2> HIDE DEF how, v
  <2>3. Encoded(how, v, None).shape = Encoded(how, v, options.compression).shape
    BY <2>2 DEF Forms, Encoded, Array, Scalar
  <2>4. ~Unlimits(Encoded(how, v, None))
    BY <2>1, <2>3 DEF Creatable, Unlimits
  <2> QED
    BY <2>4 DEF how, v
<1>2. ASSUME NEW p \in DOMAIN g, NEW m \in MetadataOf(g, p)
      PROVE  ~Unlimits(EncodedValue(m, None))
  <2>1. Creatable(EncodedValue(m, options.compression))
    BY DEF GraphEncodes, NodeEncodes, ValueEncodes, MetadataOf
  <2>2. EncodedValue(m, None).shape = EncodedValue(m, options.compression).shape
    BY DEF EncodedValue, Array, Scalar, StringList
  <2> QED
    BY <2>1, <2>2 DEF Creatable, Unlimits
<1> QED
  BY <1>1, <1>2 DEF HasUnlimited

-----------------------------------------------------------------------------
(* A decoder's steps, and the names of the fields they read.                *)
NamesOf(steps) == {steps[i].field : i \in DOMAIN steps}
Decodes(steps, names) == (\E S : steps \in Seq(S)) /\ NamesOf(steps) = names

LEMMA DecodesConcat ==
  ASSUME NEW s, NEW A, Decodes(s, A), NEW t, NEW B, Decodes(t, B)
  PROVE  Decodes(s \o t, A \cup B)
<1> PICK S : s \in Seq(S)
  BY DEF Decodes
<1> PICK T : t \in Seq(T)
  BY DEF Decodes
<1>0. s \in Seq(S \cup T) /\ t \in Seq(S \cup T)
  OBVIOUS
<1>1. s \o t \in Seq(S \cup T)
  BY <1>0
<1>2. NamesOf(s \o t) \subseteq NamesOf(s) \cup NamesOf(t)
  <2> SUFFICES ASSUME NEW i \in DOMAIN (s \o t)
               PROVE  (s \o t)[i].field \in NamesOf(s) \cup NamesOf(t)
    BY DEF NamesOf
  <2>1. CASE i <= Len(s)
    <3>1. i \in DOMAIN s /\ (s \o t)[i] = s[i]
      BY <1>0, <2>1
    <3> QED
      BY <3>1 DEF NamesOf
  <2>2. CASE i > Len(s)
    <3>1. i - Len(s) \in DOMAIN t /\ (s \o t)[i] = t[i - Len(s)]
      BY <1>0, <2>2
    <3> QED
      BY <3>1 DEF NamesOf
  <2> QED
    BY <1>0, <2>1, <2>2
<1>3. NamesOf(s) \subseteq NamesOf(s \o t)
  <2> SUFFICES ASSUME NEW i \in DOMAIN s
               PROVE  s[i].field \in NamesOf(s \o t)
    BY DEF NamesOf
  <2>1. i \in DOMAIN (s \o t) /\ (s \o t)[i] = s[i]
    BY <1>0
  <2> QED
    BY <2>1 DEF NamesOf
<1>4. NamesOf(t) \subseteq NamesOf(s \o t)
  <2> SUFFICES ASSUME NEW i \in DOMAIN t
               PROVE  t[i].field \in NamesOf(s \o t)
    BY DEF NamesOf
  <2>1. Len(s) + i \in DOMAIN (s \o t) /\ (s \o t)[Len(s) + i] = t[i]
    BY <1>0
  <2> QED
    BY <2>1 DEF NamesOf
<1> QED
  BY <1>1, <1>2, <1>3, <1>4 DEF Decodes

LEMMA DecodesOne ==
  ASSUME NEW step
  PROVE  Decodes(<<step>>, {step.field})
<1>1. <<step>> \in Seq({step}) /\ DOMAIN <<step>> = {1} /\ <<step>>[1] = step
  OBVIOUS
<1> QED
  BY <1>1 DEF NamesOf, Decodes

LEMMA DecodesField ==
  ASSUME NEW field, NEW want, NEW like
  PROVE  /\ Decodes(Required(field, want), {field})
         /\ Decodes(Optional(field, want), {field})
         /\ Decodes(Default(field, like), {field})
         /\ Decodes(Tensor(field), {field})
<1>1. Decodes(Required(field, want), {field})
  <2> DEFINE step == [field |-> field, want |-> want, when |-> "required", like |-> field]
  <2>1. step.field = field
    OBVIOUS
  <2>2. Required(field, want) = <<step>>
    BY Zenon DEF Required
  <2>3. Decodes(<<step>>, {step.field})
    BY <2>1, DecodesOne
  <2> QED
    BY <2>1, <2>2, <2>3
<1>2. Decodes(Optional(field, want), {field})
  <2> DEFINE step == [field |-> field, want |-> want, when |-> "optional", like |-> field]
  <2>1. step.field = field
    OBVIOUS
  <2>2. Optional(field, want) = <<step>>
    BY Zenon DEF Optional
  <2>3. Decodes(<<step>>, {step.field})
    BY <2>1, DecodesOne
  <2> QED
    BY <2>1, <2>2, <2>3
<1>3. Decodes(Default(field, like), {field})
  <2> DEFINE step == [field |-> field, want |-> "tensor", when |-> "default", like |-> like]
  <2>1. step.field = field
    OBVIOUS
  <2>2. Default(field, like) = <<step>>
    BY Zenon DEF Default
  <2>3. Decodes(<<step>>, {step.field})
    BY <2>1, DecodesOne
  <2> QED
    BY <2>1, <2>2, <2>3
<1>4. Decodes(Tensor(field), {field})
  <2> DEFINE step == [field |-> field, want |-> "tensor", when |-> "required", like |-> field]
  <2>1. step.field = field
    OBVIOUS
  <2>2. Tensor(field) = <<step>>
    BY Zenon DEF Tensor, Required
  <2>3. Decodes(<<step>>, {step.field})
    BY <2>1, DecodesOne
  <2> QED
    BY <2>1, <2>2, <2>3
<1> QED
  BY <1>1, <1>2, <1>3, <1>4

(* The parts that several decoders share.                                   *)
LEMMA DecodesParts ==
  /\ Decodes(ConvGeometry, {"weight", "stride", "padding", "dilation", "groups", "bias"})
  /\ Decodes(ThresholdAndReset, {"v_threshold", "v_reset"})
  /\ Decodes(LeakDynamics, {"tau", "r", "v_leak"})
  /\ Decodes(CubaDynamics, {"v_leak", "tau_syn", "tau_mem", "r", "w_in"})
  /\ Decodes(PoolWindow, {"kernel_size", "stride", "padding"})
<1>1. Decodes(ConvGeometry, {"weight", "stride", "padding", "dilation", "groups", "bias"})
  <2>1. /\ Decodes(Tensor("weight"), {"weight"})
        /\ Decodes(Required("stride", "ints"), {"stride"})
        /\ Decodes(Required("padding", "padding"), {"padding"})
        /\ Decodes(Required("dilation", "ints"), {"dilation"})
        /\ Decodes(Required("groups", "int"), {"groups"})
        /\ Decodes(Tensor("bias"), {"bias"})
    BY DecodesField, Zenon
  <2>2. Decodes(ConvGeometry, {"weight"} \cup {"stride"} \cup {"padding"} \cup {"dilation"} \cup {"groups"} \cup {"bias"})
    BY <2>1, DecodesConcat, Zenon DEF ConvGeometry
  <2>3. {"weight"} \cup {"stride"} \cup {"padding"} \cup {"dilation"} \cup {"groups"} \cup {"bias"} = {"weight", "stride", "padding", "dilation", "groups", "bias"}
    OBVIOUS
  <2> QED
    BY <2>2, <2>3
<1>2. Decodes(ThresholdAndReset, {"v_threshold", "v_reset"})
  <2>1. /\ Decodes(Tensor("v_threshold"), {"v_threshold"})
        /\ Decodes(Default("v_reset", "v_threshold"), {"v_reset"})
    BY DecodesField, Zenon
  <2>2. Decodes(ThresholdAndReset, {"v_threshold"} \cup {"v_reset"})
    BY <2>1, DecodesConcat, Zenon DEF ThresholdAndReset
  <2>3. {"v_threshold"} \cup {"v_reset"} = {"v_threshold", "v_reset"}
    OBVIOUS
  <2> QED
    BY <2>2, <2>3
<1>3. Decodes(LeakDynamics, {"tau", "r", "v_leak"})
  <2>1. /\ Decodes(Tensor("tau"), {"tau"})
        /\ Decodes(Tensor("r"), {"r"})
        /\ Decodes(Tensor("v_leak"), {"v_leak"})
    BY DecodesField, Zenon
  <2>2. Decodes(LeakDynamics, {"tau"} \cup {"r"} \cup {"v_leak"})
    BY <2>1, DecodesConcat, Zenon DEF LeakDynamics
  <2>3. {"tau"} \cup {"r"} \cup {"v_leak"} = {"tau", "r", "v_leak"}
    OBVIOUS
  <2> QED
    BY <2>2, <2>3
<1>4. Decodes(CubaDynamics, {"v_leak", "tau_syn", "tau_mem", "r", "w_in"})
  <2>1. /\ Decodes(Tensor("v_leak"), {"v_leak"})
        /\ Decodes(Tensor("tau_syn"), {"tau_syn"})
        /\ Decodes(Tensor("tau_mem"), {"tau_mem"})
        /\ Decodes(Tensor("r"), {"r"})
        /\ Decodes(Default("w_in", "v_leak"), {"w_in"})
    BY DecodesField, Zenon
  <2>2. Decodes(CubaDynamics, {"v_leak"} \cup {"tau_syn"} \cup {"tau_mem"} \cup {"r"} \cup {"w_in"})
    BY <2>1, DecodesConcat, Zenon DEF CubaDynamics
  <2>3. {"v_leak"} \cup {"tau_syn"} \cup {"tau_mem"} \cup {"r"} \cup {"w_in"} = {"v_leak", "tau_syn", "tau_mem", "r", "w_in"}
    OBVIOUS
  <2> QED
    BY <2>2, <2>3
<1>5. Decodes(PoolWindow, {"kernel_size", "stride", "padding"})
  <2>1. /\ Decodes(Tensor("kernel_size"), {"kernel_size"})
        /\ Decodes(Tensor("stride"), {"stride"})
        /\ Decodes(Tensor("padding"), {"padding"})
    BY DecodesField, Zenon
  <2>2. Decodes(PoolWindow, {"kernel_size"} \cup {"stride"} \cup {"padding"})
    BY <2>1, DecodesConcat, Zenon DEF PoolWindow
  <2>3. {"kernel_size"} \cup {"stride"} \cup {"padding"} = {"kernel_size", "stride", "padding"}
    OBVIOUS
  <2> QED
    BY <2>2, <2>3
<1> QED
  BY <1>1, <1>2, <1>3, <1>4, <1>5

(* The decoder of a node type reads exactly the fields its encoder writes.  *)
LEMMA FieldsAreWritten ==
  ASSUME NEW type \in LeafTypes
  PROVE  NamesOf(Fields(type)) = DOMAIN Writes(type)
<1>1. CASE type \in {"Input", "Output"}
  <2>1. Fields(type) = Required("shape", "extents")
    BY <1>1 DEF Fields
  <2>2. DOMAIN Writes(type) = {"shape"}
    BY <1>1 DEF Writes, Tensors
  <2>3. Decodes(Required("shape", "extents"),
                {"shape"})
    BY DecodesField, DecodesParts, DecodesConcat, Zenon
  <2> QED
    BY <2>1, <2>2, <2>3 DEF Decodes
<1>2. CASE type = "Affine"
  <2>1. Fields(type) = Tensor("weight") \o Tensor("bias")
    BY <1>2 DEF Fields
  <2>2. DOMAIN Writes(type) = {"weight"} \cup {"bias"}
    BY <1>2 DEF Writes, Tensors
  <2>3. Decodes(Tensor("weight") \o Tensor("bias"),
                {"weight"} \cup {"bias"})
    BY DecodesField, DecodesParts, DecodesConcat, Zenon
  <2> QED
    BY <2>1, <2>2, <2>3 DEF Decodes
<1>3. CASE type = "Linear"
  <2>1. Fields(type) = Tensor("weight")
    BY <1>3 DEF Fields
  <2>2. DOMAIN Writes(type) = {"weight"}
    BY <1>3 DEF Writes, Tensors
  <2>3. Decodes(Tensor("weight"),
                {"weight"})
    BY DecodesField, DecodesParts, DecodesConcat, Zenon
  <2> QED
    BY <2>1, <2>2, <2>3 DEF Decodes
<1>4. CASE type = "Scale"
  <2>1. Fields(type) = Tensor("scale")
    BY <1>4 DEF Fields
  <2>2. DOMAIN Writes(type) = {"scale"}
    BY <1>4 DEF Writes, Tensors
  <2>3. Decodes(Tensor("scale"),
                {"scale"})
    BY DecodesField, DecodesParts, DecodesConcat, Zenon
  <2> QED
    BY <2>1, <2>2, <2>3 DEF Decodes
<1>5. CASE type = "Conv1d"
  <2>1. Fields(type) = ConvGeometry \o Optional("input_shape", "extent")
    BY <1>5 DEF Fields
  <2>2. DOMAIN Writes(type) = {"weight", "stride", "padding", "dilation", "groups", "bias"} \cup {"input_shape"}
    BY <1>5 DEF Writes, Tensors
  <2>3. Decodes(ConvGeometry \o Optional("input_shape", "extent"),
                {"weight", "stride", "padding", "dilation", "groups", "bias"} \cup {"input_shape"})
    BY DecodesField, DecodesParts, DecodesConcat, Zenon
  <2> QED
    BY <2>1, <2>2, <2>3 DEF Decodes
<1>6. CASE type = "Conv2d"
  <2>1. Fields(type) = ConvGeometry \o Optional("input_shape", "extents")
    BY <1>6 DEF Fields
  <2>2. DOMAIN Writes(type) = {"weight", "stride", "padding", "dilation", "groups", "bias"} \cup {"input_shape"}
    BY <1>6 DEF Writes, Tensors
  <2>3. Decodes(ConvGeometry \o Optional("input_shape", "extents"),
                {"weight", "stride", "padding", "dilation", "groups", "bias"} \cup {"input_shape"})
    BY DecodesField, DecodesParts, DecodesConcat, Zenon
  <2> QED
    BY <2>1, <2>2, <2>3 DEF Decodes
<1>7. CASE type = "CubaLI"
  <2>1. Fields(type) = CubaDynamics
    BY <1>7 DEF Fields
  <2>2. DOMAIN Writes(type) = {"v_leak", "tau_syn", "tau_mem", "r", "w_in"}
    BY <1>7 DEF Writes, Tensors
  <2>3. Decodes(CubaDynamics,
                {"v_leak", "tau_syn", "tau_mem", "r", "w_in"})
    BY DecodesField, DecodesParts, DecodesConcat, Zenon
  <2> QED
    BY <2>1, <2>2, <2>3 DEF Decodes
<1>8. CASE type = "CubaLIF"
  <2>1. Fields(type) = ThresholdAndReset \o CubaDynamics
    BY <1>8 DEF Fields
  <2>2. DOMAIN Writes(type) = {"v_threshold", "v_reset"} \cup {"v_leak", "tau_syn", "tau_mem", "r", "w_in"}
    BY <1>8 DEF Writes, Tensors
  <2>3. Decodes(ThresholdAndReset \o CubaDynamics,
                {"v_threshold", "v_reset"} \cup {"v_leak", "tau_syn", "tau_mem", "r", "w_in"})
    BY DecodesField, DecodesParts, DecodesConcat, Zenon
  <2> QED
    BY <2>1, <2>2, <2>3 DEF Decodes
<1>9. CASE type = "I"
  <2>1. Fields(type) = Tensor("r")
    BY <1>9 DEF Fields
  <2>2. DOMAIN Writes(type) = {"r"}
    BY <1>9 DEF Writes, Tensors
  <2>3. Decodes(Tensor("r"),
                {"r"})
    BY DecodesField, DecodesParts, DecodesConcat, Zenon
  <2> QED
    BY <2>1, <2>2, <2>3 DEF Decodes
<1>10. CASE type = "IF"
  <2>1. Fields(type) = ThresholdAndReset \o Tensor("r")
    BY <1>10 DEF Fields
  <2>2. DOMAIN Writes(type) = {"v_threshold", "v_reset"} \cup {"r"}
    BY <1>10 DEF Writes, Tensors
  <2>3. Decodes(ThresholdAndReset \o Tensor("r"),
                {"v_threshold", "v_reset"} \cup {"r"})
    BY DecodesField, DecodesParts, DecodesConcat, Zenon
  <2> QED
    BY <2>1, <2>2, <2>3 DEF Decodes
<1>11. CASE type = "LI"
  <2>1. Fields(type) = LeakDynamics
    BY <1>11 DEF Fields
  <2>2. DOMAIN Writes(type) = {"tau", "r", "v_leak"}
    BY <1>11 DEF Writes, Tensors
  <2>3. Decodes(LeakDynamics,
                {"tau", "r", "v_leak"})
    BY DecodesField, DecodesParts, DecodesConcat, Zenon
  <2> QED
    BY <2>1, <2>2, <2>3 DEF Decodes
<1>12. CASE type = "LIF"
  <2>1. Fields(type) = ThresholdAndReset \o LeakDynamics
    BY <1>12 DEF Fields
  <2>2. DOMAIN Writes(type) = {"v_threshold", "v_reset"} \cup {"tau", "r", "v_leak"}
    BY <1>12 DEF Writes, Tensors
  <2>3. Decodes(ThresholdAndReset \o LeakDynamics,
                {"v_threshold", "v_reset"} \cup {"tau", "r", "v_leak"})
    BY DecodesField, DecodesParts, DecodesConcat, Zenon
  <2> QED
    BY <2>1, <2>2, <2>3 DEF Decodes
<1>13. CASE type \in {"SumPool2d", "AvgPool2d"}
  <2>1. Fields(type) = PoolWindow
    BY <1>13 DEF Fields
  <2>2. DOMAIN Writes(type) = {"kernel_size", "stride", "padding"}
    BY <1>13 DEF Writes, Tensors
  <2>3. Decodes(PoolWindow,
                {"kernel_size", "stride", "padding"})
    BY DecodesField, DecodesParts, DecodesConcat, Zenon
  <2> QED
    BY <2>1, <2>2, <2>3 DEF Decodes
<1>14. CASE type = "Delay"
  <2>1. Fields(type) = Tensor("delay")
    BY <1>14 DEF Fields
  <2>2. DOMAIN Writes(type) = {"delay"}
    BY <1>14 DEF Writes, Tensors
  <2>3. Decodes(Tensor("delay"),
                {"delay"})
    BY DecodesField, DecodesParts, DecodesConcat, Zenon
  <2> QED
    BY <2>1, <2>2, <2>3 DEF Decodes
<1>15. CASE type = "Flatten"
  <2>1. Fields(type) = Optional("start_dim", "int") \o Optional("end_dim", "int") \o Optional("input_type", "extents")
    BY <1>15 DEF Fields
  <2>2. DOMAIN Writes(type) = {"start_dim"} \cup {"end_dim"} \cup {"input_type"}
    BY <1>15 DEF Writes, Tensors
  <2>3. Decodes(Optional("start_dim", "int") \o Optional("end_dim", "int") \o Optional("input_type", "extents"),
                {"start_dim"} \cup {"end_dim"} \cup {"input_type"})
    BY DecodesField, DecodesParts, DecodesConcat, Zenon
  <2> QED
    BY <2>1, <2>2, <2>3 DEF Decodes
<1>16. CASE type = "Threshold"
  <2>1. Fields(type) = Tensor("threshold")
    BY <1>16 DEF Fields
  <2>2. DOMAIN Writes(type) = {"threshold"}
    BY <1>16 DEF Writes, Tensors
  <2>3. Decodes(Tensor("threshold"),
                {"threshold"})
    BY DecodesField, DecodesParts, DecodesConcat, Zenon
  <2> QED
    BY <2>1, <2>2, <2>3 DEF Decodes
<1> QED
  BY <1>1, <1>2, <1>3, <1>4, <1>5, <1>6, <1>7, <1>8, <1>9, <1>10, <1>11, <1>12, <1>13, <1>14, <1>15, <1>16 DEF LeafTypes

(* A graph that was read has nodes of known types with their fields.        *)
LEMMA ReadGraphsAreShaped ==
  ASSUME NEW f, FileDecodes(f), NEW p \in DOMAIN f.groups
  PROVE  Shaped(NodeOf(f, p))
<1> DEFINE type == GroupType(f.groups[p])
<1>1. type \in LeafTypes \cup {"NIRGraph"} /\ NodeOf(f, p).type = type
  BY DEF FileDecodes, GroupDecodes, NodeOf
<1>2. CASE type \in LeafTypes
  <2>1. type # "NIRGraph"
    BY <1>2 DEF LeafTypes
  <2>2. NodeOf(f, p).fields = FieldValues(type, f.groups[p].sets)
    BY <2>1 DEF NodeOf
  <2>3. DOMAIN FieldValues(type, f.groups[p].sets) = NamesOf(Fields(type))
    BY DEF FieldValues, NamesOf
  <2> QED
    BY <1>1, <1>2, <2>2, <2>3, FieldsAreWritten DEF Shaped
<1>3. CASE type = "NIRGraph"
  BY <1>1, <1>3 DEF NodeOf, Shaped
<1> QED
  BY <1>1, <1>2, <1>3

-----------------------------------------------------------------------------
(* Each check holds of the graph from the step after it until the graph is  *)
(* written; a graph that was read back has the fields of its node types.    *)
CheckInv ==
  /\ \A p \in DOMAIN graph : Shaped(graph[p])
  /\ pc \in {"structure", "representable", "strings", "extents", "ranks", "compression",
             "encode"} => NamesLegal(graph)
  /\ pc \in {"extents", "ranks", "compression", "encode"} => StringsLegal(graph)
  /\ pc \in {"ranks", "compression", "encode"} => UsizesLegal(graph)
  /\ pc \in {"compression", "encode"} => RanksLegal(graph)
  /\ pc = "encode" => LevelLegal
  /\ PreflightSuffices

LEMMA CheckInit == Init => CheckInv
  BY RequestAssumption DEF Init, CheckInv, PreflightSuffices, Typed, NodeTyped

LEMMA CheckStep == CheckInv /\ [Next]_vars => CheckInv'
<1> SUFFICES ASSUME CheckInv, [Next]_vars
             PROVE  CheckInv'
  OBVIOUS
<1> USE DEF CheckInv, PreflightSuffices
<1>1. ASSUME UNCHANGED <<request, graph>>
      PROVE  /\ NamesLegal(graph)' <=> NamesLegal(graph)
             /\ StringsLegal(graph)' <=> StringsLegal(graph)
             /\ UsizesLegal(graph)' <=> UsizesLegal(graph)
             /\ RanksLegal(graph)' <=> RanksLegal(graph)
             /\ LevelLegal' <=> LevelLegal
             /\ HasUnlimited(graph)' <=> HasUnlimited(graph)
             /\ \A p \in DOMAIN graph' : Shaped(graph'[p])
  BY <1>1 DEF NamesLegal, StringsLegal, UsizesLegal, RanksLegal, LevelLegal, options, Version,
              MetadataOf, NodePaths, GraphPaths, IsGraph, HasUnlimited
<1>2. CASE CheckNames
  BY <1>1, <1>2 DEF CheckNames, Check
<1>3. CASE ValidateStructure
  BY <1>1, <1>3 DEF ValidateStructure, Check
<1>4. CASE CheckRepresentable
  BY <1>1, <1>4 DEF CheckRepresentable, Check
<1>5. CASE CheckStringValues
  BY <1>1, <1>5 DEF CheckStringValues, Check
<1>6. CASE CheckUsizeFields
  BY <1>1, <1>6 DEF CheckUsizeFields, Check
<1>7. CASE CheckTensorRanks
  BY <1>1, <1>7 DEF CheckTensorRanks, Check
<1>8. CASE CheckCompression
  BY <1>1, <1>8 DEF CheckCompression, Check
<1>9. CASE WriteFile
  <2>1. GraphEncodes(graph) \/ HasUnlimited(graph)
    BY <1>9, CheckedGraphsEncode DEF WriteFile, Checked
  <2> QED
    BY <1>1, <1>9, <2>1 DEF WriteFile
<1>10. CASE ReadBack
  <2>1. CASE FileDecodes(file) /\ graph' = [p \in DOMAIN file.groups |-> NodeOf(file, p)]
    <3>1. \A p \in DOMAIN graph' : Shaped(graph'[p])
      BY <2>1, ReadGraphsAreShaped
    <3>2. pc' \in {"names", "done"}
      BY <1>10, <2>1 DEF ReadBack
    <3> QED
      BY <3>1, <3>2
  <2>2. CASE UNCHANGED graph /\ pc' = "unreadable"
    BY <1>1, <1>10, <2>2 DEF ReadBack
  <2> QED
    BY <1>10, <2>1, <2>2 DEF ReadBack
<1>11. CASE UNCHANGED vars
  BY <1>1, <1>11 DEF vars
<1> QED
  BY <1>2, <1>3, <1>4, <1>5, <1>6, <1>7, <1>8, <1>9, <1>10, <1>11 DEF Next

(* A graph that passes the seven checks is never refused by the encoder, on *)
(* the first write and on every later one of what was read back, unless one *)
(* of its extents is u64::MAX: no other error of the graph's content is     *)
(* first met after a staging file exists (hdf5_write.rs:35-60).             *)
THEOREM PreflightIsEnough == Spec => []PreflightSuffices
<1>1. CheckInv => PreflightSuffices
  BY DEF CheckInv
<1> QED
  BY <1>1, CheckInit, CheckStep, PTL DEF Spec

-----------------------------------------------------------------------------
(* The form a field is written in, and the accessor that reads it.          *)
Match(how, want) ==
  \/ how = "tensor" /\ want = "tensor"
  \/ how = "usizes" /\ want = "extents"
  \/ how \in {"extent", "pair"} /\ want = "ints"
  \/ how \in {"padding", "paddings"} /\ want = "padding"
  \/ how = "int" /\ want = "int"
  \/ how = "usize" /\ want = "extent"

(* The fields with a default, and the field the default is shaped like.     *)
Substitute(field, like) ==
  \/ field = "v_reset" /\ like = "v_threshold"
  \/ field = "w_in" /\ like = "v_leak"

(* A step of the decoder that agrees with the encoder and the node types.   *)
Follows(type, step) ==
  /\ step.field \in DOMAIN Writes(type)
  /\ Match(Writes(type)[step.field], step.want)
  /\ \/ step.when = "required" /\ step.field \notin Optionals
     \/ /\ step.when = "optional"
        /\ step.field \in {"input_shape", "input_type", "start_dim", "end_dim"}
     \/ /\ step.when = "default" /\ Substitute(step.field, step.like)
        /\ step.like \in DOMAIN Writes(type) \ Optionals
        /\ Writes(type)[step.field] = "tensor" /\ Writes(type)[step.like] = "tensor"

AllFollow(type, steps) ==
  /\ \E S : steps \in Seq(S)
  /\ \A i \in DOMAIN steps : Follows(type, steps[i])

LEMMA FollowOne ==
  ASSUME NEW type, NEW step, Follows(type, step)
  PROVE  AllFollow(type, <<step>>)
<1>1. <<step>> \in Seq({step}) /\ DOMAIN <<step>> = {1} /\ <<step>>[1] = step
  OBVIOUS
<1> QED
  BY <1>1 DEF AllFollow

LEMMA FollowConcat ==
  ASSUME NEW type, NEW s, AllFollow(type, s), NEW t, AllFollow(type, t)
  PROVE  AllFollow(type, s \o t)
<1> PICK S : s \in Seq(S)
  BY DEF AllFollow
<1> PICK T : t \in Seq(T)
  BY DEF AllFollow
<1>1. s \in Seq(S \cup T) /\ t \in Seq(S \cup T)
  OBVIOUS
<1>2. s \o t \in Seq(S \cup T)
  BY <1>1
<1>3. ASSUME NEW i \in DOMAIN (s \o t)
      PROVE  Follows(type, (s \o t)[i])
  <2>1. CASE i <= Len(s)
    <3>1. i \in DOMAIN s /\ (s \o t)[i] = s[i]
      BY <1>1, <1>3, <2>1
    <3> QED
      BY <3>1 DEF AllFollow
  <2>2. CASE i > Len(s)
    <3>1. i - Len(s) \in DOMAIN t /\ (s \o t)[i] = t[i - Len(s)]
      BY <1>1, <1>3, <2>2
    <3> QED
      BY <3>1 DEF AllFollow
  <2> QED
    BY <1>1, <1>3, <2>1, <2>2
<1> QED
  BY <1>2, <1>3 DEF AllFollow

LEMMA FollowRequired ==
  ASSUME NEW type, NEW field \in DOMAIN Writes(type), field \notin Optionals, NEW want,
         Match(Writes(type)[field], want)
  PROVE  AllFollow(type, Required(field, want))
<1> DEFINE step == [field |-> field, want |-> want, when |-> "required", like |-> field]
<1>1. Follows(type, step)
  BY DEF Follows
<1>2. Required(field, want) = <<step>>
  BY Zenon DEF Required
<1> QED
  BY <1>1, <1>2, FollowOne

LEMMA FollowOptional ==
  ASSUME NEW type, NEW field \in DOMAIN Writes(type),
         field \in {"input_shape", "input_type", "start_dim", "end_dim"}, NEW want,
         Match(Writes(type)[field], want)
  PROVE  AllFollow(type, Optional(field, want))
<1> DEFINE step == [field |-> field, want |-> want, when |-> "optional", like |-> field]
<1>1. Follows(type, step)
  BY DEF Follows
<1>2. Optional(field, want) = <<step>>
  BY Zenon DEF Optional
<1> QED
  BY <1>1, <1>2, FollowOne

LEMMA FollowDefault ==
  ASSUME NEW type, NEW field \in DOMAIN Writes(type), Writes(type)[field] = "tensor",
         NEW like \in DOMAIN Writes(type) \ Optionals, Writes(type)[like] = "tensor",
         Substitute(field, like)
  PROVE  AllFollow(type, Default(field, like))
<1> DEFINE step == [field |-> field, want |-> "tensor", when |-> "default", like |-> like]
<1>1. Follows(type, step)
  BY DEF Follows, Match
<1>2. Default(field, like) = <<step>>
  BY Zenon DEF Default
<1> QED
  BY <1>1, <1>2, FollowOne

LEMMA FollowTensor ==
  ASSUME NEW type, NEW field \in DOMAIN Writes(type), field \notin Optionals,
         Writes(type)[field] = "tensor"
  PROVE  AllFollow(type, Tensor(field))
<1>1. Match(Writes(type)[field], "tensor")
  BY DEF Match
<1> QED
  BY <1>1, FollowRequired DEF Tensor

(* For every node type the decoder agrees with the encoder, field by field. *)
LEMMA DecoderFollows ==
  ASSUME NEW type \in LeafTypes
  PROVE  AllFollow(type, Fields(type))
<1>1. CASE type \in {"Input", "Output"}
  <2>1. AllFollow(type, Required("shape", "extents"))
    BY <1>1, FollowRequired DEF Writes, Optionals, Match
  <2> QED
    BY <1>1, <2>1 DEF Fields
<1>2. CASE type = "Affine"
  <2>1. /\ AllFollow(type, Tensor("weight"))
        /\ AllFollow(type, Tensor("bias"))
    BY <1>2, FollowTensor DEF Writes, Optionals, Tensors
  <2>2. AllFollow(type, Tensor("weight") \o Tensor("bias"))
    BY <2>1, FollowConcat, Zenon
  <2> QED
    BY <1>2, <2>2 DEF Fields
<1>3. CASE type = "Linear"
  <2>1. AllFollow(type, Tensor("weight"))
    BY <1>3, FollowTensor DEF Writes, Optionals, Tensors
  <2> QED
    BY <1>3, <2>1 DEF Fields
<1>4. CASE type = "Scale"
  <2>1. AllFollow(type, Tensor("scale"))
    BY <1>4, FollowTensor DEF Writes, Optionals, Tensors
  <2> QED
    BY <1>4, <2>1 DEF Fields
<1>5. CASE type = "Conv1d"
  <2>1. /\ AllFollow(type, Tensor("weight"))
        /\ AllFollow(type, Required("stride", "ints"))
        /\ AllFollow(type, Required("padding", "padding"))
        /\ AllFollow(type, Required("dilation", "ints"))
        /\ AllFollow(type, Required("groups", "int"))
        /\ AllFollow(type, Tensor("bias"))
        /\ AllFollow(type, Optional("input_shape", "extent"))
    BY <1>5, FollowOptional, FollowRequired, FollowTensor DEF Writes, Optionals, Match
  <2>2. AllFollow(type, ConvGeometry \o Optional("input_shape", "extent"))
    BY <2>1, FollowConcat, Zenon DEF ConvGeometry
  <2> QED
    BY <1>5, <2>2 DEF Fields
<1>6. CASE type = "Conv2d"
  <2>1. /\ AllFollow(type, Tensor("weight"))
        /\ AllFollow(type, Required("stride", "ints"))
        /\ AllFollow(type, Required("padding", "padding"))
        /\ AllFollow(type, Required("dilation", "ints"))
        /\ AllFollow(type, Required("groups", "int"))
        /\ AllFollow(type, Tensor("bias"))
        /\ AllFollow(type, Optional("input_shape", "extents"))
    BY <1>6, FollowOptional, FollowRequired, FollowTensor DEF Writes, Optionals, Match
  <2>2. AllFollow(type, ConvGeometry \o Optional("input_shape", "extents"))
    BY <2>1, FollowConcat, Zenon DEF ConvGeometry
  <2> QED
    BY <1>6, <2>2 DEF Fields
<1>7. CASE type = "CubaLI"
  <2>1. /\ AllFollow(type, Tensor("v_leak"))
        /\ AllFollow(type, Tensor("tau_syn"))
        /\ AllFollow(type, Tensor("tau_mem"))
        /\ AllFollow(type, Tensor("r"))
        /\ AllFollow(type, Default("w_in", "v_leak"))
    BY <1>7, FollowDefault, FollowTensor DEF Writes, Optionals, Tensors, Substitute
  <2>2. AllFollow(type, CubaDynamics)
    BY <2>1, FollowConcat, Zenon DEF CubaDynamics
  <2> QED
    BY <1>7, <2>2 DEF Fields
<1>8. CASE type = "CubaLIF"
  <2>1. /\ AllFollow(type, Tensor("v_threshold"))
        /\ AllFollow(type, Default("v_reset", "v_threshold"))
        /\ AllFollow(type, Tensor("v_leak"))
        /\ AllFollow(type, Tensor("tau_syn"))
        /\ AllFollow(type, Tensor("tau_mem"))
        /\ AllFollow(type, Tensor("r"))
        /\ AllFollow(type, Default("w_in", "v_leak"))
    BY <1>8, FollowDefault, FollowTensor DEF Writes, Optionals, Tensors, Substitute
  <2>2. AllFollow(type, ThresholdAndReset \o CubaDynamics)
    BY <2>1, FollowConcat, Zenon DEF ThresholdAndReset, CubaDynamics
  <2> QED
    BY <1>8, <2>2 DEF Fields
<1>9. CASE type = "I"
  <2>1. AllFollow(type, Tensor("r"))
    BY <1>9, FollowTensor DEF Writes, Optionals, Tensors
  <2> QED
    BY <1>9, <2>1 DEF Fields
<1>10. CASE type = "IF"
  <2>1. /\ AllFollow(type, Tensor("v_threshold"))
        /\ AllFollow(type, Default("v_reset", "v_threshold"))
        /\ AllFollow(type, Tensor("r"))
    BY <1>10, FollowDefault, FollowTensor DEF Writes, Optionals, Tensors, Substitute
  <2>2. AllFollow(type, ThresholdAndReset \o Tensor("r"))
    BY <2>1, FollowConcat, Zenon DEF ThresholdAndReset
  <2> QED
    BY <1>10, <2>2 DEF Fields
<1>11. CASE type = "LI"
  <2>1. /\ AllFollow(type, Tensor("tau"))
        /\ AllFollow(type, Tensor("r"))
        /\ AllFollow(type, Tensor("v_leak"))
    BY <1>11, FollowTensor DEF Writes, Optionals, Tensors
  <2>2. AllFollow(type, LeakDynamics)
    BY <2>1, FollowConcat, Zenon DEF LeakDynamics
  <2> QED
    BY <1>11, <2>2 DEF Fields
<1>12. CASE type = "LIF"
  <2>1. /\ AllFollow(type, Tensor("v_threshold"))
        /\ AllFollow(type, Default("v_reset", "v_threshold"))
        /\ AllFollow(type, Tensor("tau"))
        /\ AllFollow(type, Tensor("r"))
        /\ AllFollow(type, Tensor("v_leak"))
    BY <1>12, FollowDefault, FollowTensor DEF Writes, Optionals, Tensors, Substitute
  <2>2. AllFollow(type, ThresholdAndReset \o LeakDynamics)
    BY <2>1, FollowConcat, Zenon DEF ThresholdAndReset, LeakDynamics
  <2> QED
    BY <1>12, <2>2 DEF Fields
<1>13. CASE type \in {"SumPool2d", "AvgPool2d"}
  <2>1. /\ AllFollow(type, Tensor("kernel_size"))
        /\ AllFollow(type, Tensor("stride"))
        /\ AllFollow(type, Tensor("padding"))
    BY <1>13, FollowTensor DEF Writes, Optionals, Tensors
  <2>2. AllFollow(type, PoolWindow)
    BY <2>1, FollowConcat, Zenon DEF PoolWindow
  <2> QED
    BY <1>13, <2>2 DEF Fields
<1>14. CASE type = "Delay"
  <2>1. AllFollow(type, Tensor("delay"))
    BY <1>14, FollowTensor DEF Writes, Optionals, Tensors
  <2> QED
    BY <1>14, <2>1 DEF Fields
<1>15. CASE type = "Flatten"
  <2>1. /\ AllFollow(type, Optional("start_dim", "int"))
        /\ AllFollow(type, Optional("end_dim", "int"))
        /\ AllFollow(type, Optional("input_type", "extents"))
    BY <1>15, FollowOptional DEF Writes, Optionals, Match
  <2>2. AllFollow(type, Optional("start_dim", "int") \o Optional("end_dim", "int") \o Optional("input_type", "extents"))
    BY <2>1, FollowConcat, Zenon
  <2> QED
    BY <1>15, <2>2 DEF Fields
<1>16. CASE type = "Threshold"
  <2>1. AllFollow(type, Tensor("threshold"))
    BY <1>16, FollowTensor DEF Writes, Optionals, Tensors
  <2> QED
    BY <1>16, <2>1 DEF Fields
<1> QED
  BY <1>1, <1>2, <1>3, <1>4, <1>5, <1>6, <1>7, <1>8, <1>9, <1>10, <1>11, <1>12, <1>13, <1>14, <1>15, <1>16 DEF LeafTypes

-----------------------------------------------------------------------------
(* What the reader returns of a value that was encoded: the value, but for  *)
(* the scalar form of a pair, which comes back as the pair.                 *)
Returned(how, v) ==
  CASE how = "pair"     -> Doubled(v)
    [] how = "paddings" -> [v EXCEPT !.extents = Doubled(@)]
    [] OTHER            -> v

LEMMA ListOfOne ==
  ASSUME NEW S, NEW v \in Seq(S), Len(v) = 1
  PROVE  v = <<v[1]>>
  OBVIOUS

LEMMA PairIsDoubled ==
  ASSUME NEW v \in Seq(Int)
  PROVE  Pair(v) = Doubled(v) /\ Doubled(v) \in Seq(Int)
<1>1. CASE Len(v) = 1
  <2>1. v \o v = <<v[1], v[1]>>
    <3> DEFINE s == v \o v
    <3>1. s \in Seq(Int) /\ Len(s) = 2 /\ s[1] = v[1] /\ s[2] = v[1]
      <4>1. s \in Seq(Int) /\ Len(s) = Len(v) + Len(v)
        OBVIOUS
      <4>2. \A i \in 1 .. Len(s) : s[i] = IF i <= Len(v) THEN v[i] ELSE v[i - Len(v)]
        OBVIOUS
      <4> HIDE DEF s
      <4> QED
        BY <1>1, <4>1, <4>2
    <3> HIDE DEF s
    <3>2. s = <<s[1], s[2]>>
      BY <3>1
    <3> QED
      BY <3>1, <3>2 DEF s
  <2> QED
    BY <1>1, <2>1 DEF Pair, Doubled
<1>2. CASE Len(v) # 1
  BY <1>2 DEF Pair, Doubled
<1> QED
  BY <1>1, <1>2

Paddings == [mode : {"same", "valid", "explicit"}, extents : Seq(Int)]

LEMMA PaddingValue ==
  ASSUME NEW how \in {"padding", "paddings"}, NEW v \in Values(how)
  PROVE  /\ v \in Paddings
         /\ v.mode \in {"same", "valid", "explicit"} /\ v.extents \in Seq(Int)
         /\ v = [mode |-> v.mode, extents |-> v.extents]
         /\ v.mode # "explicit" => v.extents = <<>>
         /\ [v EXCEPT !.extents = Doubled(@)] = [mode |-> v.mode, extents |-> Doubled(v.extents)]
<1>1. Values(how) = {x \in Paddings : x.mode # "explicit" => x.extents = <<>>}
  BY Zenon DEF Values, Paddings
<1>2. v \in Paddings /\ (v.mode # "explicit" => v.extents = <<>>)
  BY <1>1
<1> QED
  BY <1>2 DEF Paddings

LEMMA PaddingTyped ==
  ASSUME NEW how \in {"padding", "paddings"}, NEW mode \in {"same", "valid", "explicit"},
         NEW extents \in Seq(Int), mode # "explicit" => extents = <<>>
  PROVE  [mode |-> mode, extents |-> extents] \in Values(how)
<1>1. Values(how) = {x \in Paddings : x.mode # "explicit" => x.extents = <<>>}
  BY Zenon DEF Values, Paddings
<1> QED
  BY <1>1 DEF Paddings

(* What is returned is a value of the same field again.                     *)
LEMMA ReturnedIsTyped ==
  ASSUME NEW how \in Forms, NEW v \in Values(how)
  PROVE  Returned(how, v) \in Values(how)
<1>1. CASE how = "pair"
  <2>1. v \in Seq(Int) /\ Values(how) = Seq(Int) /\ Returned(how, v) = Doubled(v)
    BY <1>1 DEF Values, Returned
  <2> QED
    BY <2>1, PairIsDoubled
<1>2. CASE how = "paddings"
  <2>1. Returned(how, v) = [v EXCEPT !.extents = Doubled(@)]
    BY <1>2 DEF Returned
  <2>2. /\ v.mode \in {"same", "valid", "explicit"} /\ v.extents \in Seq(Int)
        /\ v.mode # "explicit" => v.extents = <<>>
        /\ Returned(how, v) = [mode |-> v.mode, extents |-> Doubled(v.extents)]
    BY <1>2, <2>1, PaddingValue
  <2>3. Doubled(v.extents) \in Seq(Int)
    BY <2>2, PairIsDoubled
  <2>4. v.mode # "explicit" => Doubled(v.extents) = <<>>
    BY <2>2 DEF Doubled
  <2> HIDE DEF Paddings
  <2> QED
    BY <1>2, <2>2, <2>3, <2>4, PaddingTyped
<1>3. CASE how \notin {"pair", "paddings"}
  BY <1>3 DEF Returned
<1> QED
  BY <1>1, <1>2, <1>3

(* A tensor is its element class, its shape and its elements.               *)
LEMMA TensorValue ==
  ASSUME NEW v \in Values("tensor")
  PROVE  /\ v = [class |-> v.class, shape |-> v.shape, data |-> v.data]
         /\ v.class \in Numerics /\ v.shape \in Seq(Nat) /\ v.data \in Seq(Int)
<1>1. v \in [class : Numerics, shape : Seq(Nat), data : Seq(Int)]
  BY DEF Values
<1> QED
  BY <1>1

(* A value that was encoded is accepted by its accessor, which returns it.  *)
LEMMA ValueReadsBack ==
  ASSUME NEW how \in Forms, NEW want, Match(how, want), NEW v \in Values(how),
         Encodes(how, v), NEW level
  PROVE  /\ Accepted(Encoded(how, v, level), want)
         /\ Accessed(Encoded(how, v, level), want) = Returned(how, v)
<1> DEFINE d == Encoded(how, v, level)
<1>1. CASE how = "tensor"
  <2>1. want = "tensor" /\ Returned(how, v) = v
    BY <1>1 DEF Match, Returned
  <2>2. d.class = v.class /\ d.shape = v.shape /\ d.data = v.data
    BY <1>1 DEF Encoded, Array
  <2>3. v = [class |-> v.class, shape |-> v.shape, data |-> v.data] /\ v.class \in Numerics
    BY <1>1, TensorValue
  <2> HIDE DEF d
  <2>4. Accessed(d, want) = [class |-> d.class, shape |-> d.shape, data |-> d.data]
    BY <2>1 DEF Accessed
  <2> QED
    BY <2>1, <2>2, <2>3, <2>4 DEF Accepted, d
<1>2. CASE how = "usizes"
  <2>1. want = "extents" /\ v \in Seq(Nat) /\ Returned(how, v) = v
    BY <1>2 DEF Match, Values, Returned
  <2>2. d.class = "i64" /\ d.data = v
    BY <1>2 DEF Encoded, Array
  <2> HIDE DEF d
  <2>3. Accepted(d, want) /\ Accessed(d, want) = v
    BY <2>1, <2>2 DEF Accepted, Accessed
  <2> QED
    BY <2>1, <2>3 DEF d
<1>3. CASE how = "extent"
  <2>1. want = "ints" /\ v \in Seq(Int) /\ Len(v) = 1 /\ Returned(how, v) = v
    BY <1>3 DEF Match, Values, Encodes, Returned
  <2>2. d.class = "i64" /\ d.data = <<v[1]>>
    BY <1>3 DEF Encoded, Scalar
  <2>3. v = <<v[1]>>
    BY <2>1, ListOfOne
  <2> HIDE DEF d
  <2>4. Accepted(d, want) /\ Accessed(d, want) = <<v[1]>>
    BY <2>1, <2>2 DEF Accepted, Accessed
  <2> QED
    BY <2>1, <2>3, <2>4 DEF d
<1>4. CASE how = "pair"
  <2>1. want = "ints" /\ v \in Seq(Int) /\ Returned(how, v) = Doubled(v)
    BY <1>4 DEF Match, Values, Returned
  <2>2. d.class = "i64" /\ d.data = Pair(v)
    BY <1>4 DEF Encoded, Array
  <2> HIDE DEF d
  <2>3. Accepted(d, want) /\ Accessed(d, want) = Pair(v)
    BY <2>1, <2>2 DEF Accepted, Accessed
  <2> QED
    BY <2>1, <2>3, PairIsDoubled DEF d
<1>5. CASE how = "int"
  <2>1. want = "int" /\ d.class = "i64" /\ d.data = <<v>> /\ Returned(how, v) = v
    BY <1>5 DEF Match, Encoded, Scalar, Returned
  <2> HIDE DEF d
  <2>2. Accepted(d, want) /\ Accessed(d, want) = v
    BY <2>1 DEF Accepted, Accessed
  <2> QED
    BY <2>1, <2>2 DEF d
<1>6. CASE how = "usize"
  <2>1. /\ want = "extent" /\ d.class = "i64" /\ d.data = <<v>> /\ v \in Nat
        /\ Returned(how, v) = v
    BY <1>6 DEF Match, Encoded, Scalar, Values, Returned
  <2> HIDE DEF d
  <2>2. Accepted(d, want) /\ Accessed(d, want) = v
    BY <2>1 DEF Accepted, Accessed
  <2> QED
    BY <2>1, <2>2 DEF d
<1>7. CASE how \in {"padding", "paddings"}
  <2>1. want = "padding"
    BY <1>7 DEF Match
  <2>2. /\ v.mode \in {"same", "valid", "explicit"} /\ v.extents \in Seq(Int)
        /\ v = [mode |-> v.mode, extents |-> v.extents]
        /\ v.mode # "explicit" => v.extents = <<>>
        /\ [v EXCEPT !.extents = Doubled(@)] = [mode |-> v.mode, extents |-> Doubled(v.extents)]
    BY <1>7, PaddingValue
  <2>3. CASE v.mode = "explicit" /\ how = "padding"
    <3>1. Len(v.extents) = 1
      BY <2>3 DEF Encodes
    <3>2. d.class = "i64" /\ d.data = <<v.extents[1]>>
      BY <2>3 DEF Encoded, Scalar
    <3>3. v.extents = <<v.extents[1]>>
      BY <2>2, <3>1, ListOfOne
    <3> HIDE DEF d
    <3>4. Accepted(d, want) /\ Accessed(d, want) = Explicit(d.data)
      BY <2>1, <3>2 DEF Accepted, Accessed
    <3>5. Returned(how, v) = v
      BY <2>3 DEF Returned
    <3>6. v = Explicit(v.extents)
      BY <2>2, <2>3 DEF Explicit
    <3> QED
      BY <3>2, <3>3, <3>4, <3>5, <3>6 DEF d
  <2>4. CASE v.mode = "explicit" /\ how = "paddings"
    <3>1. d.class = "i64" /\ d.data = Pair(v.extents)
      BY <2>4 DEF Encoded, Array
    <3> HIDE DEF d
    <3>2. Accepted(d, want) /\ Accessed(d, want) = Explicit(d.data)
      BY <2>1, <3>1 DEF Accepted, Accessed
    <3>3. Returned(how, v) = [v EXCEPT !.extents = Doubled(@)]
      BY <2>4 DEF Returned
    <3>4. Returned(how, v) = Explicit(Doubled(v.extents))
      BY <2>2, <2>4, <3>3 DEF Explicit
    <3> QED
      BY <2>2, <3>1, <3>2, <3>4, PairIsDoubled DEF d
  <2>5. CASE v.mode \in {"same", "valid"}
    <3>1. d.class = "string" /\ d.data = <<v.mode>>
      BY <1>7, <2>5 DEF Encoded, Scalar
    <3> HIDE DEF d
    <3>2. Accepted(d, want)
      BY <2>1, <2>5, <3>1 DEF Accepted
    <3>3. Accessed(d, want) = Symbolic(v.mode)
      <4>1. d.data[1] = v.mode
        BY <3>1
      <4>2. Accessed(d, want) = Symbolic(d.data[1])
        BY <2>1, <3>1 DEF Accessed
      <4> QED
        BY <4>1, <4>2
    <3>4. v.extents = <<>> /\ Doubled(v.extents) = <<>>
      <4>1. v.extents = <<>>
        BY <2>2, <2>5
      <4>2. Len(v.extents) # 1
        BY <4>1
      <4> QED
        BY <4>1, <4>2 DEF Doubled
    <3>5. v = Symbolic(v.mode)
      BY <2>2, <3>4 DEF Symbolic
    <3>6. Returned(how, v) = v
      BY <1>7, <2>2, <3>4 DEF Returned
    <3> QED
      BY <3>2, <3>3, <3>5, <3>6 DEF d
  <2> QED
    BY <1>7, <2>2, <2>3, <2>4, <2>5
<1> QED
  BY <1>1, <1>2, <1>3, <1>4, <1>5, <1>6, <1>7 DEF Forms

-----------------------------------------------------------------------------
(* Only the fields of Conv2d are written as pairs.                          *)
LEMMA PairsAreConv2d ==
  ASSUME NEW type \in LeafTypes, NEW f \in DOMAIN Writes(type)
  PROVE  /\ Writes(type)[f] = "pair" <=> (type = "Conv2d" /\ f \in {"stride", "dilation"})
         /\ Writes(type)[f] = "paddings" <=> (type = "Conv2d" /\ f = "padding")
<1>1. CASE type \in {"Input", "Output"}
  <2>1. Writes(type) = [shape |-> "usizes"]
    BY <1>1 DEF Writes
  <2>2. f = "shape" /\ Writes(type)[f] = "usizes"
    BY <2>1
  <2> QED
    BY <1>1, <2>2
<1>2. CASE type = "Conv1d"
  BY <1>2 DEF Writes
<1>3. CASE type = "Conv2d"
  BY <1>3 DEF Writes
<1>4. CASE type = "Flatten"
  BY <1>4 DEF Writes
<1>5. CASE type \notin {"Input", "Output", "Conv1d", "Conv2d", "Flatten"}
  BY <1>5 DEF LeafTypes, Writes, Tensors
<1> QED
  BY <1>1, <1>2, <1>3, <1>4, <1>5

(* The fields of a leaf are read back as the documentation says: as they    *)
(* were written, pairs in full, and the absent defaults filled in.          *)
LEMMA ExpectedField ==
  ASSUME NEW node, node.type \in LeafTypes, DOMAIN node.fields = DOMAIN Writes(node.type),
         FieldsTyped(node), NEW f \in DOMAIN node.fields
  PROVE  /\ node.fields[f] # None =>
              ExpectedFields(node)[f] = Returned(Writes(node.type)[f], node.fields[f])
         /\ node.fields[f] = None /\ f = "v_reset" =>
              ExpectedFields(node)[f] = Filled(node.fields.v_threshold, 0)
         /\ node.fields[f] = None /\ f = "w_in" =>
              ExpectedFields(node)[f] = Filled(node.fields.v_leak, 1)
         /\ node.fields[f] = None /\ f \notin {"v_reset", "w_in"} =>
              ExpectedFields(node)[f] = None
<1> DEFINE how == Writes(node.type)[f]
           v   == node.fields[f]
<1>1. ExpectedFields(node)[f] =
        CASE node.type = "Conv2d" /\ f \in {"stride", "dilation"} -> Doubled(v)
          [] node.type = "Conv2d" /\ f = "padding" -> [v EXCEPT !.extents = Doubled(@)]
          [] OTHER -> Defaulted(node.fields, f)
  BY Zenon DEF ExpectedFields
<1>2. /\ how = "pair" <=> (node.type = "Conv2d" /\ f \in {"stride", "dilation"})
      /\ how = "paddings" <=> (node.type = "Conv2d" /\ f = "padding")
  BY PairsAreConv2d
<1>3. v # None => Defaulted(node.fields, f) = v
  BY DEF Defaulted
<1>4. v = None => how \notin {"pair", "paddings"}
  <2>1. v = None => f \in Optionals
    <3>1. None \notin Values(how)
      BY WritesForms, EncodingAssumption
    <3> QED
      BY <3>1 DEF FieldsTyped
  <2> QED
    BY <1>2, <2>1 DEF Optionals
<1> HIDE DEF how, v
<1>5. ASSUME v # None
      PROVE  ExpectedFields(node)[f] = Returned(how, v)
  <2>1. CASE how = "pair"
    BY <1>1, <1>2, <2>1 DEF Returned
  <2>2. CASE how = "paddings"
    <3>1. ExpectedFields(node)[f] = [v EXCEPT !.extents = Doubled(@)]
      BY <1>1, <1>2, <2>2
    <3>2. Returned(how, v) = [v EXCEPT !.extents = Doubled(@)]
      BY <2>2 DEF Returned
    <3> QED
      BY <3>1, <3>2, Zenon
  <2>3. CASE how \notin {"pair", "paddings"}
    <3>1. ExpectedFields(node)[f] = Defaulted(node.fields, f)
      BY <1>1, <1>2, <2>3
    <3>2. Returned(how, v) = v
      BY <2>3 DEF Returned
    <3> QED
      BY <1>3, <1>5, <3>1, <3>2
  <2> QED
    BY <2>1, <2>2, <2>3
<1>6. ASSUME v = None
      PROVE  ExpectedFields(node)[f] = Defaulted(node.fields, f)
  BY <1>1, <1>2, <1>4, <1>6
<1>7. v = None =>
        Defaulted(node.fields, f) = IF f = "v_reset" THEN Filled(node.fields.v_threshold, 0)
                                    ELSE IF f = "w_in" THEN Filled(node.fields.v_leak, 1)
                                    ELSE None
  BY DEF Defaulted, v
<1> QED
  BY <1>5, <1>6, <1>7 DEF how, v

(* The fields that are never None: those that are no Options.               *)
LEMMA RequiredPresent ==
  ASSUME NEW node, node.type \in LeafTypes, DOMAIN node.fields = DOMAIN Writes(node.type),
         FieldsTyped(node), NEW f \in DOMAIN node.fields
  PROVE  /\ f \notin Optionals => node.fields[f] # None
         /\ node.fields[f] # None => node.fields[f] \in Values(Writes(node.type)[f])
<1>1. None \notin Values(Writes(node.type)[f])
  BY WritesForms, EncodingAssumption
<1> QED
  BY <1>1 DEF FieldsTyped

LEMMA FieldsReadBack ==
  ASSUME NEW node, node.type \in LeafTypes, DOMAIN node.fields = DOMAIN Writes(node.type),
         FieldsTyped(node), NEW level, FieldsEncode(node.type, node.fields, level), NEW sets,
         sets = FieldSets(node.type, node.fields, level)
  PROVE  /\ FieldsDecode(node.type, sets)
         /\ FieldValues(node.type, sets) = ExpectedFields(node)
<1> DEFINE type   == node.type
           fields == node.fields
           W      == Writes(type)
           steps  == Fields(type)
<1>1. ASSUME NEW f \in DOMAIN sets
      PROVE  /\ f \in DOMAIN W /\ fields[f] # None
             /\ sets[f] = Encoded(W[f], fields[f], level)
             /\ Encodes(W[f], fields[f])
             /\ fields[f] \in Values(W[f])
  <2>1. f \in Present(fields) /\ sets[f] = Encoded(W[f], fields[f], level)
    BY <1>1 DEF FieldSets
  <2> QED
    BY <2>1, RequiredPresent DEF Present, FieldsEncode
<1>2. ASSUME NEW f \in DOMAIN W, f \notin DOMAIN sets
      PROVE  f \in Optionals /\ fields[f] = None
  <2>1. fields[f] = None
    BY <1>2 DEF FieldSets, Present
  <2> QED
    BY <2>1, RequiredPresent
<1>3. \A i \in DOMAIN steps : Follows(type, steps[i])
  BY DecoderFollows DEF AllFollow
<1>4. ASSUME NEW step, Follows(type, step), step.field \in DOMAIN sets
      PROVE  /\ Accepted(sets[step.field], step.want)
             /\ Accessed(sets[step.field], step.want) = ExpectedFields(node)[step.field]
  <2>1. step.field \in DOMAIN W /\ Match(W[step.field], step.want)
    BY <1>4 DEF Follows
  <2>2. ExpectedFields(node)[step.field] = Returned(W[step.field], fields[step.field])
    BY <1>1, <1>4, <2>1, ExpectedField
  <2>3. W[step.field] \in Forms
    BY <2>1, WritesForms
  <2> QED
    BY <1>1, <1>4, <2>1, <2>2, <2>3, ValueReadsBack
<1>5. FieldsDecode(type, sets)
  <2> SUFFICES ASSUME NEW i \in DOMAIN steps
               PROVE  IF steps[i].field \in DOMAIN sets
                      THEN Accepted(sets[steps[i].field], steps[i].want)
                      ELSE steps[i].when # "required"
    BY DEF FieldsDecode
  <2>1. Follows(type, steps[i])
    BY <1>3
  <2>2. CASE steps[i].field \in DOMAIN sets
    BY <1>4, <2>1, <2>2
  <2>3. CASE steps[i].field \notin DOMAIN sets
    <3>1. steps[i].field \in Optionals
      BY <1>2, <2>1, <2>3 DEF Follows
    <3> QED
      BY <2>1, <2>3, <3>1 DEF Follows
  <2> QED
    BY <2>2, <2>3
<1>6. DOMAIN FieldValues(type, sets) = DOMAIN W
  BY FieldsAreWritten DEF FieldValues, NamesOf
<1>7. ASSUME NEW f \in DOMAIN W
      PROVE  FieldValues(type, sets)[f] = ExpectedFields(node)[f]
  <2> DEFINE all  == {steps[i] : i \in DOMAIN steps}
             step == CHOOSE s \in all : s.field = f
  <2>1. f \in {steps[i].field : i \in DOMAIN steps}
    BY FieldsAreWritten DEF NamesOf
  <2>2. step \in all /\ step.field = f
    BY <2>1
  <2>3. Follows(type, step)
    BY <1>3, <2>2
  <2>4. FieldValues(type, sets)[f] =
          IF f \in DOMAIN sets THEN Accessed(sets[f], step.want) ELSE Absent(step, sets)
    BY <2>1, Zenon DEF FieldValues
  <2> HIDE DEF step
  <2>5. CASE f \in DOMAIN sets
    BY <1>4, <2>2, <2>3, <2>4, <2>5
  <2>6. CASE f \notin DOMAIN sets
    <3>1. f \in Optionals /\ fields[f] = None /\ FieldValues(type, sets)[f] = Absent(step, sets)
      BY <1>2, <2>4, <2>6
    <3>2. CASE step.when = "optional"
      <4>1. f \in {"input_shape", "input_type"}
        BY <2>2, <2>3, <3>1, <3>2 DEF Follows, Optionals
      <4>2. Absent(step, sets) = None
        BY <2>2, <3>2, <4>1 DEF Absent
      <4>3. ExpectedFields(node)[f] = None
        BY <3>1, <4>1, ExpectedField
      <4> QED
        BY <3>1, <4>2, <4>3
    <3>3. CASE step.when = "default"
      <4>1. /\ step.like \in DOMAIN W /\ step.like \notin Optionals
            /\ W[step.like] = "tensor" /\ Substitute(f, step.like)
        BY <2>2, <2>3, <3>3 DEF Follows
      <4>2. step.like \in DOMAIN sets
        BY <1>2, <4>1
      <4>3. /\ sets[step.like] = Encoded("tensor", fields[step.like], level)
            /\ fields[step.like] \in Values("tensor")
        BY <1>1, <4>1, <4>2
      <4>4. \A value : Filled(sets[step.like], value) = Filled(fields[step.like], value)
        BY <4>3 DEF Encoded, Array, Filled
      <4>5. Absent(step, sets) = Filled(sets[step.like], IF f = "w_in" THEN 1 ELSE 0)
        <5>1. f # "start_dim" /\ f # "end_dim"
          BY <3>1 DEF Optionals
        <5> QED
          BY <2>2, <3>3, <5>1 DEF Absent
      <4>6. CASE f = "v_reset" /\ step.like = "v_threshold"
        <5>1. ExpectedFields(node)[f] = Filled(fields[step.like], 0)
          BY <3>1, <4>6, ExpectedField
        <5>2. Absent(step, sets) = Filled(sets[step.like], 0)
          BY <4>5, <4>6
        <5> QED
          BY <3>1, <4>4, <5>1, <5>2
      <4>7. CASE f = "w_in" /\ step.like = "v_leak"
        <5>1. ExpectedFields(node)[f] = Filled(fields[step.like], 1)
          BY <3>1, <4>7, ExpectedField
        <5>2. Absent(step, sets) = Filled(sets[step.like], 1)
          BY <4>5, <4>7
        <5> QED
          BY <3>1, <4>4, <5>1, <5>2
      <4> QED
        BY <4>1, <4>6, <4>7 DEF Substitute
    <3> QED
      BY <2>2, <2>3, <3>1, <3>2, <3>3 DEF Follows
  <2> QED
    BY <2>5, <2>6
<1>8. FieldValues(type, sets) = [f \in DOMAIN W |-> FieldValues(type, sets)[f]]
  <2> DEFINE names == {steps[i].field : i \in DOMAIN steps}
             all   == {steps[i] : i \in DOMAIN steps}
             value(f) == LET step == CHOOSE s \in all : s.field = f
                         IN  IF f \in DOMAIN sets THEN Accessed(sets[f], step.want)
                             ELSE Absent(step, sets)
  <2>1. FieldValues(type, sets) = [f \in names |-> value(f)]
    BY DEF FieldValues
  <2> HIDE DEF value, names, W
  <2> QED
    BY <1>6, <2>1
<1>9. ExpectedFields(node) = [f \in DOMAIN W |-> ExpectedFields(node)[f]]
  BY Zenon DEF ExpectedFields
<1>10. FieldValues(type, sets) = ExpectedFields(node)
  <2> HIDE DEF W, steps
  <2> QED
    BY <1>7, <1>8, <1>9
<1> QED
  BY <1>5, <1>10

(* A field with a default has the field it is shaped like beside it, and    *)
(* both are tensors.                                                        *)
LEMMA DefaultsAreShaped ==
  ASSUME NEW type \in LeafTypes
  PROVE  /\ "v_reset" \in DOMAIN Writes(type) =>
              /\ "v_threshold" \in DOMAIN Writes(type)
              /\ Writes(type)["v_reset"] = "tensor" /\ Writes(type)["v_threshold"] = "tensor"
         /\ "w_in" \in DOMAIN Writes(type) =>
              /\ "v_leak" \in DOMAIN Writes(type)
              /\ Writes(type)["w_in"] = "tensor" /\ Writes(type)["v_leak"] = "tensor"
<1>1. CASE type \in {"Input", "Output"}
  <2>1. DOMAIN Writes(type) = {"shape"}
    BY <1>1 DEF Writes
  <2> QED
    BY <2>1
<1>2. CASE type = "Conv1d"
  BY <1>2 DEF Writes
<1>3. CASE type = "Conv2d"
  BY <1>3 DEF Writes
<1>4. CASE type = "Flatten"
  BY <1>4 DEF Writes
<1>5. CASE type \notin {"Input", "Output", "Conv1d", "Conv2d", "Flatten"}
  BY <1>5 DEF LeafTypes, Writes, Tensors
<1> QED
  BY <1>1, <1>2, <1>3, <1>4, <1>5

LEMMA FilledIsATensor ==
  ASSUME NEW v \in Values("tensor"), NEW value \in Int
  PROVE  Filled(v, value) \in Values("tensor") /\ Filled(v, value).shape = v.shape
<1>1. v.class \in Numerics /\ v.shape \in Seq(Nat) /\ v.data \in Seq(Int)
  BY TensorValue
<1>2. [i \in DOMAIN v.data |-> value] \in Seq(Int)
  BY <1>1
<1>3. Filled(v, value) = [class |-> v.class, shape |-> v.shape,
                          data |-> [i \in DOMAIN v.data |-> value]]
  BY DEF Filled
<1>4. Filled(v, value) \in [class : Numerics, shape : Seq(Nat), data : Seq(Int)]
  BY <1>1, <1>2, <1>3
<1> QED
  BY <1>3, <1>4 DEF Values

(* The fields that are read are values of the same fields.                  *)
LEMMA ExpectedFieldsTyped ==
  ASSUME NEW node, node.type \in LeafTypes, DOMAIN node.fields = DOMAIN Writes(node.type),
         FieldsTyped(node), NEW f \in DOMAIN node.fields
  PROVE  \/ ExpectedFields(node)[f] \in Values(Writes(node.type)[f])
         \/ f \in Optionals /\ node.fields[f] = None /\ ExpectedFields(node)[f] = None
<1> DEFINE W == Writes(node.type)
<1>1. CASE node.fields[f] # None
  <2>1. ExpectedFields(node)[f] = Returned(W[f], node.fields[f])
    BY <1>1, ExpectedField
  <2>2. node.fields[f] \in Values(W[f]) /\ W[f] \in Forms
    BY <1>1, RequiredPresent, WritesForms
  <2> QED
    BY <2>1, <2>2, ReturnedIsTyped
<1>2. CASE node.fields[f] = None
  <2>1. f \in Optionals
    BY <1>2, RequiredPresent
  <2>2. CASE f = "v_reset"
    <3>1. /\ "v_threshold" \in DOMAIN W /\ W["v_threshold"] = "tensor" /\ W[f] = "tensor"
      BY <2>2, DefaultsAreShaped
    <3>2. node.fields.v_threshold \in Values("tensor")
      BY <3>1, RequiredPresent DEF Optionals
    <3>3. ExpectedFields(node)[f] = Filled(node.fields.v_threshold, 0)
      BY <1>2, <2>2, ExpectedField
    <3> QED
      BY <3>1, <3>2, <3>3, FilledIsATensor
  <2>3. CASE f = "w_in"
    <3>1. /\ "v_leak" \in DOMAIN W /\ W["v_leak"] = "tensor" /\ W[f] = "tensor"
      BY <2>3, DefaultsAreShaped
    <3>2. node.fields.v_leak \in Values("tensor")
      BY <3>1, RequiredPresent DEF Optionals
    <3>3. ExpectedFields(node)[f] = Filled(node.fields.v_leak, 1)
      BY <1>2, <2>3, ExpectedField
    <3> QED
      BY <3>1, <3>2, <3>3, FilledIsATensor
  <2>4. CASE f \notin {"v_reset", "w_in"}
    BY <1>2, <2>1, <2>4, ExpectedField
  <2> QED
    BY <2>2, <2>3, <2>4
<1> QED
  BY <1>1, <1>2

-----------------------------------------------------------------------------
(* A metadata value is read back as the documentation says, with the class, *)
(* the shape and the elements of its kind.                                  *)
LEMMA ExpectedValueTyped ==
  ASSUME NEW m, ValueTyped(m)
  PROVE  /\ ValueTyped(ExpectedValue(m)) /\ ~LooksLikeScalar(ExpectedValue(m))
         /\ ExpectedValue(m).data = m.data
         /\ ExpectedValue(m).kind \in {"String", "StringList"} =>
              m.kind \in {"String", "StringList"}
         /\ ExpectedValue(m).kind = "Tensor" => m.kind = "Tensor" /\ ExpectedValue(m) = m
<1>1. CASE LooksLikeScalar(m)
  <2> DEFINE kind  == ScalarKind[m.class]
             class == ScalarClass[m.class]
  <2>1. /\ m.class \in {"f32", "f64", "i64", "bool"} /\ Len(m.data) = 1
        /\ m.data \in Seq(Int)
    BY <1>1 DEF LooksLikeScalar, ValueTyped, Numerics, Floats
  <2>2. \/ kind = "F64" /\ class = "f64"
        \/ kind = "I64" /\ class = "i64"
        \/ kind = "Bool" /\ class = "bool"
    BY <2>1 DEF ScalarKind, ScalarClass
  <2>3. ExpectedValue(m) = Metadata(kind, class, <<>>, m.data)
    BY <1>1 DEF ExpectedValue
  <2> HIDE DEF kind, class
  <2>4. /\ ExpectedValue(m).kind = kind /\ ExpectedValue(m).class = class
        /\ ExpectedValue(m).shape = <<>> /\ ExpectedValue(m).data = m.data
    BY <2>3 DEF Metadata
  <2> QED
    BY <2>1, <2>2, <2>3, <2>4 DEF ValueTyped, LooksLikeScalar
<1>2. CASE ~LooksLikeScalar(m)
  BY <1>2 DEF ExpectedValue
<1> QED
  BY <1>1, <1>2

LEMMA MetadataReadsBack ==
  ASSUME NEW m, ValueTyped(m), NEW level, NEW d, d = EncodedValue(m, level)
  PROVE  /\ d.class = "string" => Len(d.shape) <= 1
         /\ DecodedValue(d) = ExpectedValue(m)
<1>0. m = Metadata(m.kind, m.class, m.shape, m.data)
  BY DEF ValueTyped
<1>1. CASE m.kind = "Tensor"
  <2>1. d.class = m.class /\ d.shape = m.shape /\ d.data = m.data
    BY <1>1 DEF EncodedValue, Array
  <2>2. m.class \in Numerics
    BY <1>1 DEF ValueTyped
  <2>3. d.class # "string"
    BY <2>1, <2>2 DEF Numerics, Floats
  <2>4. CASE m.shape = <<>>
    <3>1. ExpectedValue(m) = Metadata(ScalarKind[m.class], ScalarClass[m.class], <<>>, m.data)
      BY <1>1, <2>4 DEF ExpectedValue, LooksLikeScalar
    <3>2. DecodedValue(d) = Metadata(ScalarKind[m.class], ScalarClass[m.class], <<>>, m.data)
      BY <2>1, <2>2, <2>4 DEF DecodedValue, ScalarKind, ScalarClass, Numerics, Floats
    <3> QED
      BY <2>3, <3>1, <3>2
  <2>5. CASE m.shape # <<>>
    <3>1. DecodedValue(d) = Metadata("Tensor", d.class, d.shape, d.data)
      BY <2>1, <2>3, <2>5 DEF DecodedValue
    <3>2. ExpectedValue(m) = m
      BY <2>5 DEF ExpectedValue, LooksLikeScalar
    <3> QED
      BY <1>0, <1>1, <2>1, <2>3, <3>1, <3>2
  <2> QED
    BY <2>4, <2>5
<1>2. CASE m.kind = "StringList"
  <2>1. d.class = "string" /\ d.shape = <<Len(m.data)>> /\ d.data = m.data
    BY <1>2 DEF EncodedValue, StringList
  <2>2. d.shape # <<>> /\ Len(d.shape) = 1
    BY <2>1
  <2>3. DecodedValue(d) = Metadata("StringList", "string", d.shape, d.data)
    BY <2>1, <2>2 DEF DecodedValue, Floats
  <2>4. ExpectedValue(m) = m /\ m.class = "string" /\ m.shape = <<Len(m.data)>>
    BY <1>2 DEF ExpectedValue, LooksLikeScalar, ValueTyped
  <2> QED
    BY <1>0, <1>2, <2>1, <2>2, <2>3, <2>4
<1>3. CASE m.kind \notin {"Tensor", "StringList"}
  <2>1. /\ m.shape = <<>> /\ Len(m.data) = 1
        /\ m.data \in Seq(IF m.class = "string" THEN STRING ELSE Int)
    BY <1>3 DEF ValueTyped
  <2>2. m.data = <<m.data[1]>>
    BY <2>1, ListOfOne
  <2>3. d.class = m.class /\ d.shape = <<>> /\ d.data = m.data
    BY <1>3, <2>2 DEF EncodedValue, Scalar
  <2>4. ExpectedValue(m) = m
    BY <1>3 DEF ExpectedValue, LooksLikeScalar
  <2>5. DecodedValue(d) = Metadata(m.kind, m.class, <<>>, m.data)
    <3>1. \/ m.kind = "String" /\ m.class = "string"
          \/ m.kind = "F64" /\ m.class = "f64"
          \/ m.kind = "I64" /\ m.class = "i64"
          \/ m.kind = "Bool" /\ m.class = "bool"
      BY <1>3 DEF ValueTyped
    <3> QED
      BY <2>3, <3>1 DEF DecodedValue, Floats
  <2>6. Len(d.shape) <= 1
    BY <2>3
  <2> QED
    BY <1>0, <2>1, <2>4, <2>5, <2>6
<1> QED
  BY <1>1, <1>2, <1>3

(* The edges are read from the dataset of names as they were written.       *)
LEMMA EdgesReadBack ==
  ASSUME NEW edges \in Seq(STRING \X STRING)
  PROVE  EdgesOf(EdgeSet(edges)) = edges
<1> DEFINE n    == Len(edges)
           data == [i \in 1 .. 2 * n |-> edges[(i + 1) \div 2][2 - (i % 2)]]
<1>1. EdgeSet(edges).data = data
  BY DEF EdgeSet
<1>2. n \in Nat /\ 2 * n \in Nat
  OBVIOUS
<1>3. ASSUME NEW i \in 1 .. 2 * n
      PROVE  edges[(i + 1) \div 2][2 - (i % 2)] \in STRING
  <2>1. (i + 1) \div 2 \in 1 .. n /\ 2 - (i % 2) \in {1, 2}
    BY <1>2
  <2>2. edges[(i + 1) \div 2] \in STRING \X STRING
    BY <2>1
  <2> QED
    BY <2>1, <2>2
<1>4. data \in Seq(STRING) /\ Len(data) = 2 * n
  <2>1. data \in [1 .. 2 * n -> STRING]
    BY <1>3
  <2> HIDE DEF data
  <2> QED
    BY <1>2, <2>1
<1>5. Len(data) \div 2 = n
  BY <1>2, <1>4
<1>6. ASSUME NEW i \in 1 .. n
      PROVE  <<data[2 * i - 1], data[2 * i]>> = edges[i]
  <2>1. 2 * i - 1 \in 1 .. 2 * n /\ 2 * i \in 1 .. 2 * n
    BY <1>2
  <2>2. /\ (2 * i - 1 + 1) \div 2 = i /\ 2 - ((2 * i - 1) % 2) = 1
        /\ (2 * i + 1) \div 2 = i /\ 2 - ((2 * i) % 2) = 2
    BY <1>2
  <2>3. data[2 * i - 1] = edges[i][1] /\ data[2 * i] = edges[i][2]
    BY <2>1, <2>2
  <2>4. edges[i] \in STRING \X STRING
    OBVIOUS
  <2> HIDE DEF data
  <2> QED
    BY <2>3, <2>4
<1>7. EdgesOf(EdgeSet(edges)) = [i \in 1 .. n |-> <<data[2 * i - 1], data[2 * i]>>]
  BY <1>1, <1>5, Zenon DEF EdgesOf
<1>8. edges = [i \in 1 .. n |-> edges[i]]
  OBVIOUS
<1> HIDE DEF data, n
<1> QED
  BY <1>6, <1>7, <1>8

-----------------------------------------------------------------------------
(* The graph that the documentation says a graph is read back as.           *)
Expected(g) == [p \in DOMAIN g |-> ExpectedNode(g, p)]

LEMMA ExpectedNodeTyped ==
  ASSUME NEW g, NEW p \in DOMAIN g, NodeTyped(g[p])
  PROVE  NodeTyped(ExpectedNode(g, p))
<1> DEFINE node == g[p]
           new  == ExpectedNode(g, p)
<1>1. /\ new.type = node.type /\ new.fields = ExpectedFields(node) /\ new.edges = node.edges
      /\ new.metadata = [k \in DOMAIN node.metadata |-> ExpectedValue(node.metadata[k])]
      /\ new = [type |-> new.type, fields |-> new.fields, metadata |-> new.metadata,
                edges |-> new.edges, version |-> new.version]
  BY DEF ExpectedNode
<1>2. DOMAIN new.fields = DOMAIN node.fields
  BY <1>1 DEF ExpectedFields
<1>3. IsMap(new.fields)
  BY <1>1, Zenon DEF IsMap, ExpectedFields
<1>4. Shaped(new)
  BY <1>1, <1>2 DEF Shaped, NodeTyped
<1>5. FieldsTyped(new)
  <2>1. CASE node.type \in LeafTypes /\ DOMAIN node.fields = DOMAIN Writes(node.type)
    BY <1>1, <1>2, <2>1, ExpectedFieldsTyped DEF FieldsTyped, NodeTyped
  <2>2. CASE DOMAIN node.fields = {}
    BY <1>2, <2>2 DEF FieldsTyped
  <2> QED
    BY <2>1, <2>2 DEF NodeTyped, Shaped
<1>6. IsMap(new.metadata) /\ DOMAIN new.metadata = DOMAIN node.metadata
  BY <1>1 DEF IsMap
<1>7. \A k \in DOMAIN new.metadata : ValueTyped(new.metadata[k])
  BY <1>1, ExpectedValueTyped DEF NodeTyped
<1>8. /\ new.edges \in Seq(STRING \X STRING)
      /\ new.type # "NIRGraph" => new.edges = <<>>
  BY <1>1 DEF NodeTyped
<1> HIDE DEF new
<1> QED
  BY <1>1, <1>3, <1>4, <1>5, <1>6, <1>7, <1>8 DEF NodeTyped, new

LEMMA ExpectedTyped ==
  ASSUME NEW g, Typed(g)
  PROVE  Typed(Expected(g))
  BY ExpectedNodeTyped DEF Typed, Expected

(* The group of a node is decoded, to the node the documentation expects.   *)
LEMMA GroupReadsBack ==
  ASSUME NEW g, NEW p \in DOMAIN g, NodeTyped(g[p]), NodeEncodes(g[p]),
         NEW f, f.groups[p] = GroupOf(g[p]), f.version = Scalar("string", Version(g))
  PROVE  /\ GroupType(f.groups[p]) = g[p].type
         /\ GroupDecodes(f.groups[p])
         /\ NodeOf(f, p) = ExpectedNode(g, p)
<1> DEFINE node  == g[p]
           group == f.groups[p]
           level == options.compression
<1>1. /\ group.type = Scalar("string", node.type)
      /\ group.sets = FieldSets(node.type, node.fields, level)
      /\ group.edges = IF node.type = "NIRGraph" THEN EdgeSet(node.edges) ELSE None
      /\ group.metadata = [k \in DOMAIN node.metadata |-> EncodedValue(node.metadata[k], level)]
  BY DEF GroupOf
<1>2. GroupType(group) = node.type
  BY <1>1 DEF GroupType, Scalar
<1>3. ASSUME node.type \in LeafTypes
      PROVE  /\ FieldsDecode(node.type, group.sets)
             /\ FieldValues(node.type, group.sets) = ExpectedFields(node)
  <2>1. node.type # "NIRGraph"
    BY <1>3 DEF LeafTypes
  <2>2. DOMAIN node.fields = DOMAIN Writes(node.type) /\ FieldsTyped(node)
    BY <2>1 DEF NodeTyped, Shaped
  <2>3. FieldsEncode(node.type, node.fields, level)
    BY DEF NodeEncodes
  <2> QED
    BY <1>1, <1>3, <2>2, <2>3, FieldsReadBack
<1>4. ASSUME NEW k \in DOMAIN node.metadata
      PROVE  /\ group.metadata[k].class = "string" => Len(group.metadata[k].shape) <= 1
             /\ DecodedValue(group.metadata[k]) = ExpectedValue(node.metadata[k])
  <2>1. group.metadata[k] = EncodedValue(node.metadata[k], level)
    BY <1>1
  <2> QED
    BY <2>1, MetadataReadsBack DEF NodeTyped
<1>5. GroupDecodes(group)
  <2>1. GroupType(group) \in LeafTypes \cup {"NIRGraph"}
    BY <1>2 DEF NodeTyped, Shaped
  <2>2. node.type = "NIRGraph" => Len(group.edges.shape) = 2 /\ group.edges.shape[2] = 2
    BY <1>1 DEF EdgeSet
  <2>3. DOMAIN group.metadata = DOMAIN node.metadata
    BY <1>1
  <2> QED
    BY <1>2, <1>3, <1>4, <2>1, <2>2, <2>3 DEF GroupDecodes
<1>6. NodeOf(f, p).type = node.type
  BY <1>2 DEF NodeOf
<1>7. NodeOf(f, p).fields = ExpectedFields(node)
  <2>1. CASE node.type = "NIRGraph"
    <3>1. NodeOf(f, p).fields = <<>>
      BY <1>2, <2>1 DEF NodeOf
    <3>2. DOMAIN node.fields = {}
      BY <2>1 DEF NodeTyped, Shaped, LeafTypes
    <3>3. ExpectedFields(node) = <<>>
      BY <3>2 DEF ExpectedFields
    <3> QED
      BY <3>1, <3>3
  <2>2. CASE node.type \in LeafTypes
    <3>1. node.type # "NIRGraph"
      BY <2>2 DEF LeafTypes
    <3>2. NodeOf(f, p).fields = FieldValues(node.type, group.sets)
      BY <1>2, <3>1 DEF NodeOf
    <3> QED
      BY <1>3, <2>2, <3>2
  <2> QED
    BY <2>1, <2>2 DEF NodeTyped, Shaped
<1>8. NodeOf(f, p).metadata = [k \in DOMAIN node.metadata |-> ExpectedValue(node.metadata[k])]
  <2>1. NodeOf(f, p).metadata =
          [k \in DOMAIN group.metadata |-> DecodedValue(group.metadata[k])]
    BY DEF NodeOf
  <2>2. DOMAIN group.metadata = DOMAIN node.metadata
    BY <1>1
  <2> QED
    BY <1>4, <2>1, <2>2
<1>9. NodeOf(f, p).edges = node.edges
  <2>1. CASE node.type = "NIRGraph"
    <3>1. NodeOf(f, p).edges = EdgesOf(EdgeSet(node.edges))
      BY <1>1, <1>2, <2>1 DEF NodeOf
    <3> QED
      BY <3>1, EdgesReadBack DEF NodeTyped
  <2>2. CASE node.type # "NIRGraph"
    BY <1>2, <2>2 DEF NodeOf, NodeTyped
  <2> QED
    BY <2>1, <2>2
<1>10. NodeOf(f, p).version = IF p = <<>> THEN Version(g) ELSE None
  <2>1. f.version.data[1] = Version(g)
    BY DEF Scalar
  <2> QED
    BY <2>1 DEF NodeOf
<1>11. NodeOf(f, p) =
         [type |-> NodeOf(f, p).type, fields |-> NodeOf(f, p).fields,
          metadata |-> NodeOf(f, p).metadata, edges |-> NodeOf(f, p).edges,
          version |-> NodeOf(f, p).version]
  BY DEF NodeOf
<1>12. NodeOf(f, p) = ExpectedNode(g, p)
  BY <1>6, <1>7, <1>8, <1>9, <1>10, <1>11 DEF ExpectedNode
<1> QED
  BY <1>2, <1>5, <1>12

(* The file of a graph is decoded, to the graph the documentation expects.  *)
LEMMA FileReadsBack ==
  ASSUME NEW g, Typed(g), GraphEncodes(g), NamesLegal(g),
         NEW f, f = [version |-> Scalar("string", Version(g)),
                     groups |-> [p \in DOMAIN g |-> GroupOf(g[p])]]
  PROVE  /\ FileDecodes(f)
         /\ [p \in DOMAIN f.groups |-> NodeOf(f, p)] = Expected(g)
<1>0. /\ f.version = Scalar("string", Version(g))
      /\ DOMAIN f.groups = DOMAIN g
      /\ \A p \in DOMAIN g : f.groups[p] = GroupOf(g[p])
  OBVIOUS
<1>1. ASSUME NEW p \in DOMAIN g
      PROVE  /\ GroupType(f.groups[p]) = g[p].type
             /\ GroupDecodes(f.groups[p])
             /\ NodeOf(f, p) = ExpectedNode(g, p)
  BY <1>0, GroupReadsBack DEF Typed, GraphEncodes
<1>2. {p \in DOMAIN f.groups : GroupType(f.groups[p]) = "NIRGraph"} = GraphPaths(g)
  BY <1>0, <1>1 DEF GraphPaths, IsGraph
<1>3. FileDecodes(f)
  BY <1>0, <1>1, <1>2 DEF FileDecodes, NamesLegal
<1>4. [p \in DOMAIN f.groups |-> NodeOf(f, p)] = Expected(g)
  BY <1>0, <1>1 DEF Expected
<1> QED
  BY <1>3, <1>4

-----------------------------------------------------------------------------
(* What is read back is settled: reading a graph back as the documentation  *)
(* says, and once more, gives the same graph.                               *)
LEMMA DoubledTwice ==
  ASSUME NEW v \in Seq(Int)
  PROVE  /\ Doubled(Doubled(v)) = Doubled(v)
         /\ Len(v) \in {1, 2} => Len(Doubled(v)) = 2
<1>1. CASE Len(v) = 1
  <2>1. Doubled(v) = <<v[1], v[1]>>
    BY <1>1 DEF Doubled
  <2>2. Len(Doubled(v)) = 2
    BY <2>1
  <2>3. Doubled(Doubled(v)) = Doubled(v)
    BY <2>2 DEF Doubled
  <2> QED
    BY <2>2, <2>3
<1>2. CASE Len(v) # 1
  BY <1>2 DEF Doubled
<1> QED
  BY <1>1, <1>2

LEMMA ReturnedTwice ==
  ASSUME NEW how \in Forms, NEW v \in Values(how)
  PROVE  Returned(how, Returned(how, v)) = Returned(how, v)
<1>1. CASE how = "pair"
  <2>1. v \in Seq(Int) /\ \A x : Returned(how, x) = Doubled(x)
    BY <1>1 DEF Values, Returned
  <2> QED
    BY <2>1, DoubledTwice
<1>2. CASE how = "paddings"
  <2>1. \A x : Returned(how, x) = [x EXCEPT !.extents = Doubled(@)]
    BY <1>2 DEF Returned
  <2>2. Returned(how, v) \in Values(how)
    BY ReturnedIsTyped
  <2>3. /\ v.extents \in Seq(Int)
        /\ Returned(how, v) = [mode |-> v.mode, extents |-> Doubled(v.extents)]
    BY <1>2, <2>1, PaddingValue
  <2>4. Returned(how, Returned(how, v)) =
          [mode |-> Returned(how, v).mode, extents |-> Doubled(Returned(how, v).extents)]
    BY <1>2, <2>1, <2>2, PaddingValue
  <2>5. Returned(how, v).mode = v.mode /\ Returned(how, v).extents = Doubled(v.extents)
    BY <2>3
  <2> QED
    BY <2>3, <2>4, <2>5, DoubledTwice
<1>3. CASE how \notin {"pair", "paddings"}
  BY <1>3 DEF Returned
<1> QED
  BY <1>1, <1>2, <1>3

(* What a field is read back as, by whether it was present.                 *)
LEMMA ExpectedCases ==
  ASSUME NEW node, node.type \in LeafTypes, DOMAIN node.fields = DOMAIN Writes(node.type),
         FieldsTyped(node), NEW f \in DOMAIN node.fields
  PROVE  \/ /\ node.fields[f] # None /\ node.fields[f] \in Values(Writes(node.type)[f])
            /\ ExpectedFields(node)[f] = Returned(Writes(node.type)[f], node.fields[f])
         \/ /\ node.fields[f] = None /\ Writes(node.type)[f] = "tensor"
            /\ \E like \in DOMAIN node.fields, value \in {0, 1} :
                 /\ Writes(node.type)[like] = "tensor" /\ node.fields[like] # None
                 /\ node.fields[like] \in Values("tensor")
                 /\ ExpectedFields(node)[f] = Filled(node.fields[like], value)
         \/ /\ node.fields[f] = None /\ ExpectedFields(node)[f] = None
            /\ f \notin {"v_reset", "w_in"}
<1> DEFINE W == Writes(node.type)
<1>1. CASE node.fields[f] # None
  BY <1>1, RequiredPresent, ExpectedField
<1>2. CASE node.fields[f] = None /\ f = "v_reset"
  <2>1. "v_threshold" \in DOMAIN W /\ W["v_threshold"] = "tensor" /\ W[f] = "tensor"
    BY <1>2, DefaultsAreShaped
  <2>2. node.fields["v_threshold"] # None /\ node.fields["v_threshold"] \in Values("tensor")
    BY <2>1, RequiredPresent DEF Optionals
  <2>3. ExpectedFields(node)[f] = Filled(node.fields["v_threshold"], 0)
    BY <1>2, ExpectedField
  <2> QED
    BY <1>2, <2>1, <2>2, <2>3
<1>3. CASE node.fields[f] = None /\ f = "w_in"
  <2>1. "v_leak" \in DOMAIN W /\ W["v_leak"] = "tensor" /\ W[f] = "tensor"
    BY <1>3, DefaultsAreShaped
  <2>2. node.fields["v_leak"] # None /\ node.fields["v_leak"] \in Values("tensor")
    BY <2>1, RequiredPresent DEF Optionals
  <2>3. ExpectedFields(node)[f] = Filled(node.fields["v_leak"], 1)
    BY <1>3, ExpectedField
  <2> QED
    BY <1>3, <2>1, <2>2, <2>3
<1>4. CASE node.fields[f] = None /\ f \notin {"v_reset", "w_in"}
  BY <1>4, ExpectedField
<1> QED
  BY <1>1, <1>2, <1>3, <1>4

LEMMA ExpectedTwice ==
  ASSUME NEW g, NEW p \in DOMAIN g, NodeTyped(g[p]),
         NEW h, NEW q \in DOMAIN h, h[q] = ExpectedNode(g, p)
  PROVE  /\ ExpectedFields(h[q]) = h[q].fields
         /\ \A k \in DOMAIN h[q].metadata : ExpectedValue(h[q].metadata[k]) = h[q].metadata[k]
<1> DEFINE node == g[p]
           new  == h[q]
<1>1. NodeTyped(new)
  BY ExpectedNodeTyped
<1>2. /\ new.type = node.type /\ new.fields = ExpectedFields(node)
      /\ new.metadata = [k \in DOMAIN node.metadata |-> ExpectedValue(node.metadata[k])]
  BY DEF ExpectedNode
<1>3. DOMAIN new.fields = DOMAIN node.fields /\ DOMAIN ExpectedFields(new) = DOMAIN new.fields
  BY <1>2 DEF ExpectedFields
<1>4. ASSUME NEW f \in DOMAIN new.fields
      PROVE  ExpectedFields(new)[f] = new.fields[f]
  <2> DEFINE how == Writes(node.type)[f]
  <2>1. node.type \in LeafTypes /\ DOMAIN node.fields = DOMAIN Writes(node.type)
    BY <1>3, <1>4 DEF NodeTyped, Shaped
  <2>2. FieldsTyped(node) /\ FieldsTyped(new) /\ how \in Forms
    BY <1>1, <1>3, <1>4, <2>1, WritesForms DEF NodeTyped
  <2>3. CASE /\ node.fields[f] # None /\ node.fields[f] \in Values(how)
             /\ ExpectedFields(node)[f] = Returned(how, node.fields[f])
    <3>1. new.fields[f] = Returned(how, node.fields[f]) /\ new.fields[f] \in Values(how)
      BY <1>2, <2>2, <2>3, ReturnedIsTyped
    <3>2. new.fields[f] # None
      BY <2>2, <3>1, EncodingAssumption
    <3>3. ExpectedFields(new)[f] = Returned(how, new.fields[f])
      BY <1>2, <1>3, <2>1, <2>2, <3>2, ExpectedField
    <3> QED
      BY <2>2, <2>3, <3>1, <3>3, ReturnedTwice
  <2>4. CASE /\ node.fields[f] = None /\ how = "tensor"
             /\ \E like \in DOMAIN node.fields, value \in {0, 1} :
                  /\ node.fields[like] \in Values("tensor")
                  /\ ExpectedFields(node)[f] = Filled(node.fields[like], value)
    <3>1. new.fields[f] \in Values("tensor")
      BY <1>2, <2>4, FilledIsATensor
    <3>2. new.fields[f] # None
      BY <3>1, EncodingAssumption DEF Forms
    <3>3. ExpectedFields(new)[f] = Returned("tensor", new.fields[f])
      BY <1>2, <1>3, <2>1, <2>2, <2>4, <3>2, ExpectedField
    <3> QED
      BY <3>3 DEF Returned
  <2>5. CASE /\ node.fields[f] = None /\ ExpectedFields(node)[f] = None
             /\ f \notin {"v_reset", "w_in"}
    BY <1>2, <1>3, <2>1, <2>2, <2>5, ExpectedField
  <2> QED
    BY <1>3, <1>4, <2>1, <2>2, <2>3, <2>4, <2>5, ExpectedCases
<1>5. ExpectedFields(new) = new.fields
  <2>1. IsMap(new.fields) /\ IsMap(ExpectedFields(new))
    BY <1>1, Zenon DEF NodeTyped, IsMap, ExpectedFields
  <2> HIDE DEF new
  <2> QED
    BY <1>3, <1>4, <2>1 DEF IsMap
<1>6. ASSUME NEW k \in DOMAIN new.metadata
      PROVE  ExpectedValue(new.metadata[k]) = new.metadata[k]
  <2>1. new.metadata[k] = ExpectedValue(node.metadata[k]) /\ ValueTyped(node.metadata[k])
    BY <1>2, <1>6 DEF NodeTyped
  <2>2. ~LooksLikeScalar(new.metadata[k])
    BY <2>1, ExpectedValueTyped
  <2> QED
    BY <2>2 DEF ExpectedValue
<1> QED
  BY <1>5, <1>6

(* What reading back keeps of a graph.                                      *)
LEMMA ExpectedKeeps ==
  ASSUME NEW g, Typed(g), NEW h, h = Expected(g)
  PROVE  /\ DOMAIN h = DOMAIN g /\ Version(h) = Version(g)
         /\ \A p \in DOMAIN g :
              /\ h[p] = ExpectedNode(g, p)
              /\ h[p].type = g[p].type /\ h[p].edges = g[p].edges
              /\ h[p].fields = ExpectedFields(g[p])
              /\ DOMAIN h[p].metadata = DOMAIN g[p].metadata
              /\ \A k \in DOMAIN g[p].metadata :
                   h[p].metadata[k] = ExpectedValue(g[p].metadata[k])
              /\ h[p].version = IF p = <<>> THEN Version(g) ELSE None
<1>1. /\ DOMAIN h = DOMAIN g
      /\ \A p \in DOMAIN g : h[p] = ExpectedNode(g, p)
  BY DEF Expected
<1>2. ASSUME NEW p \in DOMAIN g
      PROVE  /\ h[p].type = g[p].type /\ h[p].edges = g[p].edges
             /\ h[p].fields = ExpectedFields(g[p])
             /\ DOMAIN h[p].metadata = DOMAIN g[p].metadata
             /\ \A k \in DOMAIN g[p].metadata :
                  h[p].metadata[k] = ExpectedValue(g[p].metadata[k])
             /\ h[p].version = IF p = <<>> THEN Version(g) ELSE None
  BY <1>1 DEF ExpectedNode
<1>3. Version(h) = Version(g)
  <2>1. <<>> \in DOMAIN g
    BY DEF Typed
  <2>2. h[<<>>].version = Version(g)
    BY <1>2, <2>1
  <2>3. Version(g) # None
    BY RequestAssumption DEF Version
  <2> QED
    BY <2>2, <2>3 DEF Version
<1> QED
  BY <1>1, <1>2, <1>3

LEMMA ExpectedIsSettled ==
  ASSUME NEW g, Typed(g)
  PROVE  Expected(Expected(g)) = Expected(g)
<1> DEFINE h == Expected(g)
<1>1. Typed(h)
  BY ExpectedTyped
<1>2. DOMAIN h = DOMAIN g /\ Version(h) = Version(g)
  BY ExpectedKeeps
<1>3. ASSUME NEW p \in DOMAIN g
      PROVE  ExpectedNode(h, p) = h[p]
  <2>1. h[p] = ExpectedNode(g, p) /\ NodeTyped(g[p]) /\ NodeTyped(h[p])
    BY <1>1, <1>2, ExpectedKeeps DEF Typed
  <2>2. /\ ExpectedFields(h[p]) = h[p].fields
        /\ \A k \in DOMAIN h[p].metadata : ExpectedValue(h[p].metadata[k]) = h[p].metadata[k]
    <3> HIDE DEF h
    <3> QED
      BY <1>2, <2>1, ExpectedTwice
  <2>3. [k \in DOMAIN h[p].metadata |-> ExpectedValue(h[p].metadata[k])] = h[p].metadata
    <3> HIDE DEF h
    <3> QED
      BY <2>1, <2>2 DEF NodeTyped, IsMap
  <2>4. h[p].version = IF p = <<>> THEN Version(h) ELSE None
    BY <1>2, ExpectedKeeps
  <2>5. h[p] = [type |-> h[p].type, fields |-> h[p].fields, metadata |-> h[p].metadata,
                edges |-> h[p].edges, version |-> h[p].version]
    BY <2>1 DEF NodeTyped
  <2> HIDE DEF h
  <2>6. ExpectedNode(h, p) =
          [type |-> h[p].type, fields |-> h[p].fields, metadata |-> h[p].metadata,
           edges |-> h[p].edges, version |-> h[p].version]
    BY <2>2, <2>3, <2>4 DEF ExpectedNode
  <2> QED
    BY <2>5, <2>6
<1>4. h = [p \in DOMAIN g |-> h[p]]
  BY DEF Expected
<1>5. Expected(h) = [p \in DOMAIN g |-> ExpectedNode(h, p)]
  BY <1>2 DEF Expected
<1> HIDE DEF h
<1>6. Expected(h) = h
  BY <1>3, <1>4, <1>5
<1> QED
  BY <1>6 DEF h

(* A graph that passed the checks passes them again when it was read back.  *)
Passed(g) ==
  /\ Checked(g) /\ ~HasUnlimited(g)
  /\ options.validate => StructureSound(g) /\ Representable(g)

LEMMA ExpectedExtentsLegal ==
  ASSUME NEW node, NodeTyped(node), ExtentsLegal(node.type, node.fields)
  PROVE  ExtentsLegal(node.type, ExpectedFields(node))
<1> DEFINE fields == node.fields
           new    == ExpectedFields(node)
           W      == Writes(node.type)
<1>1. ASSUME node.type \in LeafTypes, NEW f \in DOMAIN W,
             W[f] \notin {"pair", "paddings"}, f \notin {"v_reset", "w_in"}
      PROVE  new[f] = fields[f]
  <2>1. DOMAIN fields = DOMAIN W /\ FieldsTyped(node)
    BY <1>1 DEF NodeTyped, Shaped, LeafTypes
  <2>2. Returned(W[f], fields[f]) = fields[f]
    BY <1>1 DEF Returned
  <2> QED
    BY <1>1, <2>1, <2>2, ExpectedField
<1>2. CASE node.type \in {"Input", "Output"}
  <2>1. "shape" \in DOMAIN W /\ W["shape"] = "usizes"
    BY <1>2 DEF Writes
  <2>2. new.shape = fields.shape
    BY <1>1, <1>2, <2>1 DEF LeafTypes
  <2> HIDE DEF new
  <2> QED
    BY <1>2, <2>2 DEF ExtentsLegal, new
<1>3. CASE node.type = "Flatten"
  <2>1. "input_type" \in DOMAIN W /\ W["input_type"] = "usizes"
    BY <1>3 DEF Writes
  <2>2. new.input_type = fields.input_type
    BY <1>1, <1>3, <2>1 DEF LeafTypes
  <2> HIDE DEF new
  <2> QED
    BY <1>3, <2>2 DEF ExtentsLegal, new
<1>4. CASE node.type = "Conv1d"
  <2>1. /\ {"stride", "dilation", "padding", "input_shape"} \subseteq DOMAIN W
        /\ \A f \in {"stride", "dilation", "padding", "input_shape"} :
             W[f] \notin {"pair", "paddings"}
    BY <1>4 DEF Writes
  <2>2. /\ new.stride = fields.stride /\ new.dilation = fields.dilation
        /\ new.padding = fields.padding /\ new.input_shape = fields.input_shape
    BY <1>1, <1>4, <2>1 DEF LeafTypes
  <2> HIDE DEF new
  <2> QED
    BY <1>4, <2>2 DEF ExtentsLegal, new
<1>5. CASE node.type = "Conv2d"
  <2>1. /\ {"stride", "dilation", "padding", "input_shape"} \subseteq DOMAIN W
        /\ W["stride"] = "pair" /\ W["dilation"] = "pair" /\ W["padding"] = "paddings"
        /\ W["input_shape"] = "usizes"
    BY <1>5 DEF Writes
  <2>2. new.input_shape = fields.input_shape
    BY <1>1, <1>5, <2>1 DEF LeafTypes
  <2>3. /\ DOMAIN fields = DOMAIN W /\ FieldsTyped(node) /\ node.type \in LeafTypes
    BY <1>5 DEF NodeTyped, Shaped, LeafTypes
  <2>4. \A f \in {"stride", "dilation", "padding"} :
          /\ fields[f] \in Values(W[f])
          /\ new[f] = Returned(W[f], fields[f])
    <3> SUFFICES ASSUME NEW f \in {"stride", "dilation", "padding"}
                 PROVE  fields[f] \in Values(W[f]) /\ new[f] = Returned(W[f], fields[f])
      OBVIOUS
    <3>1. f \in DOMAIN fields /\ fields[f] # None
      BY <2>1, <2>3, RequiredPresent DEF Optionals
    <3> QED
      BY <2>3, <3>1, RequiredPresent, ExpectedField
  <2> HIDE DEF new
  <2>5. /\ fields.stride \in Seq(Int) /\ fields.dilation \in Seq(Int)
        /\ new.stride = Doubled(fields.stride) /\ new.dilation = Doubled(fields.dilation)
    BY <2>1, <2>4 DEF Values, Returned
  <2>6. /\ new.padding.mode = fields.padding.mode /\ fields.padding.extents \in Seq(Int)
        /\ new.padding.extents = Doubled(fields.padding.extents)
    <3>1. fields["padding"] \in Values("paddings")
      BY <2>1, <2>4
    <3>2. new["padding"] = [fields["padding"] EXCEPT !.extents = Doubled(@)]
      BY <2>1, <2>4 DEF Returned
    <3>3. /\ fields["padding"].extents \in Seq(Int)
          /\ new["padding"] = [mode |-> fields["padding"].mode,
                               extents |-> Doubled(fields["padding"].extents)]
      BY <3>1, <3>2, PaddingValue
    <3> QED
      BY <3>3
  <2>7. /\ Len(fields.stride) \in {1, 2} /\ Len(fields.dilation) \in {1, 2}
        /\ fields.padding.mode = "explicit" => Len(fields.padding.extents) \in {1, 2}
        /\ fields.input_shape # None =>
             Len(fields.input_shape) = 2 /\ FitsI64(fields.input_shape)
    BY <1>5 DEF ExtentsLegal
  <2>8. /\ Len(new.stride) = 2 /\ Len(new.dilation) = 2
        /\ new.padding.mode = "explicit" => Len(new.padding.extents) = 2
    BY <2>5, <2>6, <2>7, DoubledTwice
  <2> QED
    BY <1>5, <2>2, <2>7, <2>8 DEF ExtentsLegal, new
<1>6. CASE node.type \notin {"Input", "Output", "Flatten", "Conv1d", "Conv2d"}
  BY <1>6 DEF ExtentsLegal
<1> QED
  BY <1>2, <1>3, <1>4, <1>5, <1>6

LEMMA ExpectedRanksLegal ==
  ASSUME NEW node, NodeTyped(node),
         \A f \in RankChecked(node.type) \cap Present(node.fields) :
           Len(node.fields[f].shape) <= MaxRank,
         NEW f \in RankChecked(node.type) \cap Present(ExpectedFields(node))
  PROVE  Len(ExpectedFields(node)[f].shape) <= MaxRank
<1> DEFINE W == Writes(node.type)
<1>1. f \in DOMAIN node.fields /\ ExpectedFields(node)[f] # None
  BY DEF Present, ExpectedFields
<1>2. node.type \in LeafTypes /\ DOMAIN node.fields = DOMAIN W /\ FieldsTyped(node)
  BY <1>1 DEF NodeTyped, Shaped
<1>3. CASE /\ node.fields[f] # None
           /\ ExpectedFields(node)[f] = Returned(W[f], node.fields[f])
  <2>1. W[f] \notin {"pair", "paddings"}
    BY <1>1, <1>2, PairsAreConv2d DEF RankChecked
  <2>2. ExpectedFields(node)[f] = node.fields[f]
    BY <1>3, <2>1 DEF Returned
  <2> QED
    BY <1>1, <1>3, <2>2 DEF Present
<1>4. CASE \E like \in DOMAIN node.fields, value \in {0, 1} :
             /\ W[like] = "tensor" /\ node.fields[like] # None
             /\ node.fields[like] \in Values("tensor")
             /\ ExpectedFields(node)[f] = Filled(node.fields[like], value)
  <2> PICK like \in DOMAIN node.fields, value \in {0, 1} :
             /\ W[like] = "tensor" /\ node.fields[like] # None
             /\ node.fields[like] \in Values("tensor")
             /\ ExpectedFields(node)[f] = Filled(node.fields[like], value)
    BY <1>4
  <2>1. ExpectedFields(node)[f].shape = node.fields[like].shape
    BY FilledIsATensor
  <2>2. like \in RankChecked(node.type)
    BY <1>2, TensorsAreChecked
  <2> QED
    BY <2>1, <2>2 DEF Present
<1> QED
  BY <1>1, <1>2, <1>3, <1>4, ExpectedCases

(* No extent is read back that was not written, but for the 2 of a pair.    *)
LEMMA ExpectedExtentsAreLimited ==
  ASSUME NEW g, Typed(g), NEW h, h = Expected(g), ~HasUnlimited(g), UsizesLegal(g)
  PROVE  ~HasUnlimited(h)
<1>1. /\ DOMAIN h = DOMAIN g
      /\ \A p \in DOMAIN g :
           /\ h[p].type = g[p].type /\ h[p].fields = ExpectedFields(g[p])
           /\ DOMAIN h[p].metadata = DOMAIN g[p].metadata
           /\ \A k \in DOMAIN g[p].metadata :
                h[p].metadata[k] = ExpectedValue(g[p].metadata[k])
  BY ExpectedKeeps
<1>2. ASSUME NEW p \in DOMAIN g, NEW f \in Present(h[p].fields)
      PROVE  ~Unlimits(Encoded(Writes(h[p].type)[f], h[p].fields[f], None))
  <2> DEFINE node == g[p]
             W    == Writes(node.type)
             new  == ExpectedFields(node)
  <2>1. /\ f \in DOMAIN node.fields /\ new[f] # None
        /\ h[p].type = node.type /\ h[p].fields = new
    BY <1>1, <1>2 DEF Present, ExpectedFields
  <2>2. node.type \in LeafTypes /\ DOMAIN node.fields = DOMAIN W /\ FieldsTyped(node)
    BY <2>1 DEF Typed, NodeTyped, Shaped
  <2>3. ASSUME NEW x \in DOMAIN node.fields, node.fields[x] # None
        PROVE  ~Unlimits(Encoded(W[x], node.fields[x], None))
    <3>1. x \in Present(node.fields)
      BY <2>3 DEF Present
    <3>2. Encodes(W[x], node.fields[x])
      BY <2>2, <3>1, ExtentsAreChecked DEF UsizesLegal
    <3> QED
      BY <3>1, <3>2 DEF HasUnlimited
  <2>4. CASE /\ node.fields[f] # None
             /\ new[f] = Returned(W[f], node.fields[f])
    <3>1. CASE W[f] \notin {"pair", "paddings"}
      BY <2>1, <2>3, <2>4, <3>1 DEF Returned
    <3>2. CASE W[f] = "pair"
      BY <2>1, <3>2, EncodingAssumption DEF Encoded, Array, Unlimits
    <3>3. CASE W[f] = "paddings"
      BY <2>1, <3>3, EncodingAssumption DEF Encoded, Array, Scalar, Unlimits
    <3> QED
      BY <3>1, <3>2, <3>3
  <2>5. CASE \E like \in DOMAIN node.fields, value \in {0, 1} :
               /\ W[f] = "tensor" /\ W[like] = "tensor" /\ node.fields[like] # None
               /\ node.fields[like] \in Values("tensor")
               /\ new[f] = Filled(node.fields[like], value)
    <3> PICK like \in DOMAIN node.fields, value \in {0, 1} :
               /\ W[f] = "tensor" /\ W[like] = "tensor" /\ node.fields[like] # None
               /\ node.fields[like] \in Values("tensor")
               /\ new[f] = Filled(node.fields[like], value)
      BY <2>5
    <3>1. new[f].shape = node.fields[like].shape
      BY FilledIsATensor
    <3>2. ~Unlimits(Encoded(W[like], node.fields[like], None))
      BY <2>3
    <3>3. \A v : Encoded("tensor", v, None).shape = v.shape
      BY DEF Encoded, Array
    <3>4. Encoded(W[f], new[f], None).shape = Encoded(W[like], node.fields[like], None).shape
      BY <3>1, <3>3
    <3>5. ~Unlimits(Encoded(W[f], new[f], None))
      BY <3>2, <3>4 DEF Unlimits
    <3> QED
      BY <2>1, <3>5
  <2> QED
    BY <2>1, <2>2, <2>4, <2>5, ExpectedCases
<1>3. ASSUME NEW p \in DOMAIN g, NEW k \in DOMAIN g[p].metadata
      PROVE  ~Unlimits(EncodedValue(h[p].metadata[k], None))
  <2> DEFINE m == g[p].metadata[k]
  <2>1. ~Unlimits(EncodedValue(m, None))
    BY DEF HasUnlimited, MetadataOf
  <2>2. ValueTyped(m) /\ h[p].metadata[k] = ExpectedValue(m)
    BY <1>1 DEF Typed, NodeTyped
  <2> HIDE DEF m
  <2>3. CASE LooksLikeScalar(m)
    <3>1. ExpectedValue(m).kind \in {"F64", "I64", "Bool"}
      BY <2>2, <2>3 DEF ExpectedValue, LooksLikeScalar, ValueTyped, ScalarKind, Metadata,
                        Numerics, Floats
    <3> QED
      BY <2>2, <3>1, ScalarsAreCreatable DEF EncodedValue
  <2>4. CASE ~LooksLikeScalar(m)
    BY <2>1, <2>2, <2>4 DEF ExpectedValue
  <2> QED
    BY <2>3, <2>4
<1> QED
  BY <1>1, <1>2, <1>3 DEF HasUnlimited, MetadataOf

LEMMA ExpectedPasses ==
  ASSUME NEW g, Typed(g), Passed(g)
  PROVE  Passed(Expected(g))
<1> DEFINE h == Expected(g)
<1>1. /\ DOMAIN h = DOMAIN g /\ Version(h) = Version(g)
      /\ \A p \in DOMAIN g :
           /\ h[p].type = g[p].type /\ h[p].edges = g[p].edges
           /\ h[p].fields = ExpectedFields(g[p])
           /\ DOMAIN h[p].metadata = DOMAIN g[p].metadata
           /\ \A k \in DOMAIN g[p].metadata :
                h[p].metadata[k] = ExpectedValue(g[p].metadata[k])
           /\ h[p].version = IF p = <<>> THEN Version(g) ELSE None
  BY ExpectedKeeps
<1> HIDE DEF h
<1>2. ASSUME NEW p \in DOMAIN g, NEW m \in MetadataOf(h, p)
      PROVE  \E k \in DOMAIN g[p].metadata :
               m = ExpectedValue(g[p].metadata[k]) /\ ValueTyped(g[p].metadata[k])
                 /\ g[p].metadata[k] \in MetadataOf(g, p)
  BY <1>1, <1>2 DEF MetadataOf, Typed, NodeTyped
<1>3. GraphPaths(h) = GraphPaths(g) /\ NodePaths(h) = NodePaths(g)
  BY <1>1 DEF GraphPaths, IsGraph, NodePaths
<1>4. NamesLegal(h)
  BY <1>1, <1>3 DEF NamesLegal, Passed, Checked
<1>5. StringsLegal(h)
  <2>1. Version(h) \notin NulTexts
    BY <1>1 DEF StringsLegal, Passed, Checked
  <2>2. ASSUME NEW p \in DOMAIN g, NEW m \in MetadataOf(h, p),
               m.kind \in {"String", "StringList"}
        PROVE  Storable(m.data)
    <3>1. PICK k \in DOMAIN g[p].metadata :
            m = ExpectedValue(g[p].metadata[k]) /\ ValueTyped(g[p].metadata[k])
              /\ g[p].metadata[k] \in MetadataOf(g, p)
      BY <1>2, <2>2
    <3>2. /\ m.data = g[p].metadata[k].data
          /\ g[p].metadata[k].kind \in {"String", "StringList"}
      BY <2>2, <3>1, ExpectedValueTyped
    <3> QED
      BY <3>1, <3>2 DEF StringsLegal, Passed, Checked
  <2>3. \A p \in DOMAIN g : \A i \in DOMAIN h[p].edges : Storable(h[p].edges[i])
    BY <1>1 DEF StringsLegal, Passed, Checked
  <2> QED
    BY <1>1, <2>1, <2>2, <2>3 DEF StringsLegal
<1>6. UsizesLegal(h)
  BY <1>1, ExpectedExtentsLegal DEF UsizesLegal, Passed, Checked, Typed
<1>7. RanksLegal(h)
  <2>1. ASSUME NEW p \in DOMAIN g, NEW m \in MetadataOf(h, p), m.kind = "Tensor"
        PROVE  Len(m.shape) <= MaxRank
    <3>1. PICK k \in DOMAIN g[p].metadata :
            m = ExpectedValue(g[p].metadata[k]) /\ ValueTyped(g[p].metadata[k])
              /\ g[p].metadata[k] \in MetadataOf(g, p)
      BY <1>2, <2>1
    <3>2. m = g[p].metadata[k]
      BY <2>1, <3>1, ExpectedValueTyped
    <3> QED
      BY <2>1, <3>1, <3>2 DEF RanksLegal, Passed, Checked
  <2>2. ASSUME NEW p \in DOMAIN g, NEW f \in RankChecked(h[p].type) \cap Present(h[p].fields)
        PROVE  Len(h[p].fields[f].shape) <= MaxRank
    <3>1. NodeTyped(g[p])
      BY DEF Typed
    <3>2. \A x \in RankChecked(g[p].type) \cap Present(g[p].fields) :
            Len(g[p].fields[x].shape) <= MaxRank
      BY DEF RanksLegal, Passed, Checked
    <3>3. f \in RankChecked(g[p].type) \cap Present(ExpectedFields(g[p]))
      BY <1>1, <2>2
    <3> QED
      BY <1>1, <3>1, <3>2, <3>3, ExpectedRanksLegal
  <2> QED
    BY <1>1, <2>1, <2>2 DEF RanksLegal
<1>8. LevelLegal
  BY DEF Passed, Checked
<1>9. ASSUME options.validate
      PROVE  StructureSound(h) /\ Representable(h)
  <2>1. \A p \in DOMAIN g : NamesIn(h, p) = NamesIn(g, p)
    BY <1>3 DEF NamesIn
  <2>2. GraphPaths(g) \subseteq DOMAIN g
    BY DEF GraphPaths
  <2>3. StructureSound(h)
    BY <1>1, <1>3, <1>9, <2>1, <2>2 DEF StructureSound, Passed
  <2>4. ASSUME NEW p \in DOMAIN g, NEW m \in MetadataOf(h, p)
        PROVE  ~LooksLikeScalar(m)
    BY <1>2, <2>4, ExpectedValueTyped
  <2>5. \A p \in DOMAIN g : p # <<>> => h[p].version = None
    BY <1>1
  <2> QED
    BY <1>1, <2>3, <2>4, <2>5 DEF Representable
<1>10. ~HasUnlimited(h)
  BY ExpectedExtentsAreLimited DEF Passed, Checked, h
<1> QED
  BY <1>4, <1>5, <1>6, <1>7, <1>8, <1>9, <1>10 DEF Passed, Checked, h

-----------------------------------------------------------------------------
FileOf(g) ==
  [version |-> Scalar("string", Version(g)), groups |-> [p \in DOMAIN g |-> GroupOf(g[p])]]

Ended == {"done", "refused", "broken", "unreadable"}

(* While a graph is being written there is a round left to read it back in; *)
(* a file that was written is the file of a graph that was checked, under   *)
(* the request's options; and what was read back is what the documentation  *)
(* says of the caller's graph, which passes every check again and is        *)
(* settled.                                                                 *)
ReadInv ==
  /\ TypeOK /\ WrittenIsReadable
  /\ pc \notin Ended => round < MaxRounds
  /\ pc \in {"structure", "representable"} => options.validate
  /\ options.validate =>
       /\ pc \in {"representable", "strings", "extents", "ranks", "compression", "encode"} =>
            StructureSound(graph)
       /\ pc \in {"strings", "extents", "ranks", "compression", "encode"} =>
            Representable(graph)
  /\ pc = "written" => Passed(graph) /\ GraphEncodes(graph) /\ file = FileOf(graph)
  /\ round = 0 => graph = request.graph
  /\ round >= 1 => Passed(graph) /\ Expected(graph) = graph
  /\ round >= 1 /\ options.validate => Representable(request.graph)
  /\ ReadsBackAsDocumented

LEMMA ReadInit == Init => ReadInv
  BY RequestAssumption DEF Init, ReadInv, TypeOK, WrittenIsReadable, Ended, ReadsBackAsDocumented

(* What is said of the graph is said of it as long as it is not replaced.   *)
LEMMA GraphKept ==
  ASSUME UNCHANGED <<request, graph>>
  PROVE  /\ NamesLegal(graph)' <=> NamesLegal(graph)
         /\ StructureSound(graph)' <=> StructureSound(graph)
         /\ Representable(graph)' <=> Representable(graph)
         /\ Representable(request.graph)' <=> Representable(request.graph)
         /\ Passed(graph)' <=> Passed(graph)
         /\ GraphEncodes(graph)' <=> GraphEncodes(graph)
         /\ FileOf(graph)' = FileOf(graph)
         /\ HasUnlimited(graph)' <=> HasUnlimited(graph)
         /\ Expected(graph)' = Expected(graph)
         /\ (graph = request.graph)' <=> graph = request.graph
         /\ options' = options
         /\ Typed(graph)' <=> Typed(graph)
         /\ [p \in DOMAIN request.graph |-> ExpectedNode(request.graph, p)]' =
              [p \in DOMAIN request.graph |-> ExpectedNode(request.graph, p)]
<1>1. options' = options
  BY DEF options
<1>2. /\ NamesLegal(graph)' <=> NamesLegal(graph)
      /\ StructureSound(graph)' <=> StructureSound(graph)
      /\ Representable(graph)' <=> Representable(graph)
      /\ Representable(request.graph)' <=> Representable(request.graph)
      /\ StringsLegal(graph)' <=> StringsLegal(graph)
      /\ UsizesLegal(graph)' <=> UsizesLegal(graph)
      /\ RanksLegal(graph)' <=> RanksLegal(graph)
      /\ LevelLegal' <=> LevelLegal
      /\ Typed(graph)' <=> Typed(graph)
      /\ HasUnlimited(graph)' <=> HasUnlimited(graph)
  BY <1>1 DEF NamesLegal, StructureSound, Representable, StringsLegal, UsizesLegal, RanksLegal,
              LevelLegal, Typed, Version, NodePaths, GraphPaths, IsGraph, NamesIn, MetadataOf,
              HasUnlimited
<1>3. Version(graph)' = Version(graph) /\ Version(request.graph)' = Version(request.graph)
  BY <1>1 DEF Version
<1>4. Passed(graph)' <=> Passed(graph)
  BY <1>1, <1>2 DEF Passed, Checked
<1>5. GraphEncodes(graph)' <=> GraphEncodes(graph)
  BY <1>1, <1>3 DEF GraphEncodes, NodeEncodes, NodePaths
<1>6. FileOf(graph)' = FileOf(graph)
  BY <1>1, <1>3 DEF FileOf, GroupOf
<1>7. Expected(graph)' = Expected(graph)
  BY <1>3 DEF Expected, ExpectedNode
<1>8. [p \in DOMAIN request.graph |-> ExpectedNode(request.graph, p)]' =
        [p \in DOMAIN request.graph |-> ExpectedNode(request.graph, p)]
  BY <1>3 DEF ExpectedNode
<1> QED
  BY <1>1, <1>2, <1>4, <1>5, <1>6, <1>7, <1>8

(* A check of the preflight: what a graph must have passed to be where it   *)
(* is, and what it is not refused by once it was read back.                 *)
LEMMA CheckReads ==
  ASSUME ReadInv, UNCHANGED <<request, graph, file, round>>,
         pc \notin Ended \cup {"written"},
         \/ /\ pc' = "refused"
            /\ refusal' \in {"none", "names", "structure", "representable", "strings",
                             "extents", "ranks", "compression"}
         \/ /\ UNCHANGED refusal
            /\ pc' \in {"structure", "representable", "strings", "extents", "ranks",
                        "compression", "encode"},
         pc' \in {"structure", "representable"} => options.validate,
         options.validate =>
           /\ pc' \in {"representable", "strings", "extents", "ranks", "compression", "encode"}
                => StructureSound(graph)
           /\ pc' \in {"strings", "extents", "ranks", "compression", "encode"}
                => Representable(graph)
  PROVE  ReadInv'
<1>1. TypeOK'
  BY GraphKept DEF ReadInv, TypeOK
<1>2. WrittenIsReadable' /\ (pc \notin Ended => round < MaxRounds)'
  BY DEF ReadInv, WrittenIsReadable, Ended
<1>3. ReadsBackAsDocumented'
  BY GraphKept DEF ReadInv, ReadsBackAsDocumented
<1>4. /\ (pc = "written" => Passed(graph) /\ GraphEncodes(graph) /\ file = FileOf(graph))'
      /\ (pc \in {"structure", "representable"} => options.validate)'
  BY GraphKept
<1>5. (options.validate =>
        /\ pc \in {"representable", "strings", "extents", "ranks", "compression", "encode"} =>
             StructureSound(graph)
        /\ pc \in {"strings", "extents", "ranks", "compression", "encode"} =>
             Representable(graph))'
  BY GraphKept
<1>6. /\ (round = 0 => graph = request.graph)'
      /\ (round >= 1 => Passed(graph) /\ Expected(graph) = graph)'
      /\ (round >= 1 /\ options.validate => Representable(request.graph))'
  BY GraphKept DEF ReadInv
<1> QED
  BY <1>1, <1>2, <1>3, <1>4, <1>5, <1>6 DEF ReadInv

(* What ReadBack returns, in the states it is made from.                    *)
LEMMA ReadBackReturns ==
  ASSUME ReadInv, ReadBack
  PROVE  /\ FileDecodes(file) /\ graph' = Expected(graph) /\ round' = round + 1
         /\ pc' = IF round' < MaxRounds THEN "names" ELSE "done"
         /\ UNCHANGED <<request, file, refusal>>
         /\ Typed(graph) /\ Passed(graph) /\ round < MaxRounds /\ round \in Nat
<1>1. pc = "written"
  BY DEF ReadBack
<1>2. /\ Typed(graph) /\ Passed(graph) /\ GraphEncodes(graph) /\ file = FileOf(graph)
      /\ round < MaxRounds /\ round \in Nat
  BY <1>1, RequestAssumption DEF ReadInv, TypeOK, Ended
<1>3. /\ FileDecodes(file)
      /\ [p \in DOMAIN file.groups |-> NodeOf(file, p)] = Expected(graph)
  BY <1>2, FileReadsBack DEF FileOf, Passed, Checked
<1> QED
  BY <1>2, <1>3 DEF ReadBack

LEMMA ReadStep == CheckInv /\ ReadInv /\ [Next]_vars => ReadInv'
<1> SUFFICES ASSUME CheckInv, ReadInv, [Next]_vars
             PROVE  ReadInv'
  OBVIOUS
<1>2. CASE CheckNames
  BY <1>2, CheckReads DEF CheckNames, Check, Ended
<1>3. CASE ValidateStructure
  BY <1>3, CheckReads DEF ValidateStructure, Check, Ended, ReadInv
<1>4. CASE CheckRepresentable
  BY <1>4, CheckReads DEF CheckRepresentable, Check, Ended, ReadInv
<1>5. CASE CheckStringValues
  BY <1>5, CheckReads DEF CheckStringValues, Check, Ended, ReadInv
<1>6. CASE CheckUsizeFields
  BY <1>6, CheckReads DEF CheckUsizeFields, Check, Ended, ReadInv
<1>7. CASE CheckTensorRanks
  BY <1>7, CheckReads DEF CheckTensorRanks, Check, Ended, ReadInv
<1>8. CASE CheckCompression
  BY <1>8, CheckReads DEF CheckCompression, Check, Ended, ReadInv
<1>9. CASE WriteFile
  <2>0. CASE ~GraphEncodes(graph)
    <3>1. /\ pc = "encode" /\ pc' = "broken"
          /\ UNCHANGED <<request, graph, file, refusal, round>>
      BY <1>9, <2>0 DEF WriteFile
    <3>2. TypeOK' /\ ReadsBackAsDocumented'
      BY <3>1, GraphKept DEF ReadInv, TypeOK, ReadsBackAsDocumented
    <3>3. /\ (round = 0 => graph = request.graph)'
          /\ (round >= 1 => Passed(graph) /\ Expected(graph) = graph)'
          /\ (round >= 1 /\ options.validate => Representable(request.graph))'
      BY <3>1, GraphKept DEF ReadInv
    <3> QED
      BY <3>1, <3>2, <3>3 DEF ReadInv, WrittenIsReadable, Ended
  <2> SUFFICES ASSUME GraphEncodes(graph)
               PROVE  ReadInv'
    BY <2>0
  <2>1. Passed(graph) /\ GraphEncodes(graph)
    <3>1. Checked(graph)
      BY <1>9 DEF WriteFile, CheckInv, Checked
    <3> QED
      BY <1>9, <3>1, CheckedGraphsEncode, EncodedGraphsAreLimited
         DEF WriteFile, ReadInv, Passed, CheckInv
  <2>2. /\ pc = "encode" /\ pc' = "written" /\ UNCHANGED <<request, graph, refusal, round>>
        /\ file' = FileOf(graph)
    BY <1>9, <2>1 DEF WriteFile, FileOf
  <2>3. TypeOK'
    BY <2>2, GraphKept DEF ReadInv, TypeOK
  <2>4. ReadsBackAsDocumented'
    BY <2>2, GraphKept DEF ReadInv, ReadsBackAsDocumented
  <2>5. (pc = "written" => Passed(graph) /\ GraphEncodes(graph) /\ file = FileOf(graph))'
    BY <2>1, <2>2, GraphKept
  <2>6. /\ (round = 0 => graph = request.graph)'
        /\ (round >= 1 => Passed(graph) /\ Expected(graph) = graph)'
        /\ (round >= 1 /\ options.validate => Representable(request.graph))'
    BY <2>2, GraphKept DEF ReadInv
  <2> QED
    BY <2>2, <2>3, <2>4, <2>5, <2>6 DEF ReadInv, WrittenIsReadable, Ended
<1>10. CASE ReadBack
  <2>1. /\ FileDecodes(file) /\ graph' = Expected(graph) /\ round' = round + 1
        /\ pc' = IF round' < MaxRounds THEN "names" ELSE "done"
        /\ UNCHANGED <<request, file, refusal>>
        /\ Typed(graph) /\ Passed(graph) /\ round < MaxRounds /\ round \in Nat
    BY <1>10, ReadBackReturns
  <2> DEFINE next == Expected(graph)
  <2>2. Typed(next) /\ Passed(next) /\ Expected(next) = next
    BY <2>1, ExpectedTyped, ExpectedPasses, ExpectedIsSettled
  <2>3. options' = options
    BY <2>1 DEF options
  <2>4. Typed(graph)'
    BY <2>1, <2>2 DEF Typed, NodeTyped, Shaped, IsMap, FieldsTyped
  <2>5. Passed(graph)' /\ Expected(graph)' = graph'
    <3>1. graph' = next
      BY <2>1
    <3> HIDE DEF next
    <3>2. Passed(graph)'
      BY <2>2, <2>3, <3>1
         DEF Passed, Checked, NamesLegal, StructureSound, Representable, StringsLegal, UsizesLegal,
             RanksLegal, LevelLegal, Version, NodePaths, GraphPaths, IsGraph, NamesIn, MetadataOf,
             HasUnlimited
    <3>3. Expected(graph)' = graph'
      BY <2>2, <2>3, <3>1 DEF Expected, ExpectedNode, Version
    <3> QED
      BY <3>2, <3>3
  <2>6. TypeOK'
    BY <2>1, <2>4, RequestAssumption DEF ReadInv, TypeOK
  <2>7. ReadsBackAsDocumented'
    <3>1. round' = 1 => graph = request.graph
      BY <2>1 DEF ReadInv
    <3>2. round' = 1 => graph' = [p \in DOMAIN request.graph |-> ExpectedNode(request.graph, p)]
      BY <2>1, <3>1 DEF Expected
    <3>3. \A g, p : ExpectedNode(g, p)' = ExpectedNode(g, p)
      BY <2>3 DEF ExpectedNode, Version
    <3> QED
      BY <2>1, <3>2, <3>3 DEF ReadsBackAsDocumented
  <2>8. (round >= 1 /\ options.validate => Representable(request.graph))'
    <3>1. CASE round = 0
      <4>1. graph = request.graph
        BY <3>1 DEF ReadInv
      <4>2. options.validate => Representable(request.graph)
        BY <2>1, <4>1 DEF Passed
      <4> QED
        BY <2>1, <2>3, <4>2 DEF Representable, MetadataOf
    <3>2. CASE round >= 1
      BY <2>1, <2>3, <3>2 DEF ReadInv, Representable, MetadataOf
    <3> QED
      BY <2>1, <3>1, <3>2
  <2>9. /\ (pc \notin Ended => round < MaxRounds)' /\ WrittenIsReadable'
        /\ pc' \notin {"structure", "representable", "strings", "extents", "ranks",
                       "compression", "encode", "written"}
        /\ round' # 0
    BY <2>1 DEF Ended, WrittenIsReadable
  <2> QED
    BY <2>5, <2>6, <2>7, <2>8, <2>9 DEF ReadInv
<1>11. CASE UNCHANGED vars
  <2>1. UNCHANGED <<request, graph>> /\ UNCHANGED <<pc, file, refusal, round>>
    BY <1>11 DEF vars
  <2>2. TypeOK' /\ ReadsBackAsDocumented'
    BY <2>1, GraphKept DEF ReadInv, TypeOK, ReadsBackAsDocumented
  <2> QED
    BY <2>1, <2>2, GraphKept DEF ReadInv, WrittenIsReadable
<1> QED
  BY <1>2, <1>3, <1>4, <1>5, <1>6, <1>7, <1>8, <1>9, <1>10, <1>11 DEF Next

(* A graph that was read from a file this crate wrote is again a graph that *)
(* the Rust types allow: every field of its node types, with a value of the *)
(* field's type, and None only for an Option (hdf5_read.rs, read_node).     *)
THEOREM GraphsStayTyped == Spec => []TypeOK
<1>1. CheckInv /\ ReadInv => TypeOK
  BY DEF ReadInv
<1> QED
  BY <1>1, CheckInit, CheckStep, ReadInit, ReadStep, PTL DEF Spec

(* Whatever graph passes the preflight, the file it is written to is one    *)
(* that the reader decodes, on the first write and on every later one: the  *)
(* two tables of fields, kept by hand, agree (hdf5_read.rs:41-43).          *)
THEOREM WrittenIsRead == Spec => []WrittenIsReadable
<1>1. CheckInv /\ ReadInv => WrittenIsReadable
  BY DEF ReadInv
<1> QED
  BY <1>1, CheckInit, CheckStep, ReadInit, ReadStep, PTL DEF Spec

(* Whatever graph is written, the file holds all of it: it is read back as  *)
(* the caller's graph, field for field, edge for edge and value for value,  *)
(* but for the defaults, pairs and scalars that the documentation names     *)
(* (io/mod.rs, read; nodes.rs, Conv2d; hdf5_write.rs:824-828).              *)
THEOREM ReadsBack == Spec => []ReadsBackAsDocumented
<1>1. CheckInv /\ ReadInv => ReadsBackAsDocumented
  BY DEF ReadInv
<1> QED
  BY <1>1, CheckInit, CheckStep, ReadInit, ReadStep, PTL DEF Spec

(* With WriteOptions::validate no metadata value and no subgraph's version  *)
(* is lost or changed, whatever the graph: what the file cannot hold was    *)
(* refused by check_representable.                                          *)
THEOREM NothingIsLost == Spec => []ValidatedIsLossless
<1>1. CheckInv /\ ReadInv => ValidatedIsLossless
  <2> SUFFICES ASSUME ReadInv, round = 1, options.validate, NEW p \in DOMAIN graph
               PROVE  /\ graph[p].metadata = request.graph[p].metadata
                      /\ p # <<>> => graph[p].version = request.graph[p].version
    BY DEF ValidatedIsLossless
  <2> DEFINE g == request.graph
  <2>1. Typed(g) /\ Representable(g)
    BY RequestAssumption DEF ReadInv, TypeOK
  <2>2. p \in DOMAIN g /\ graph[p] = ExpectedNode(g, p)
    BY DEF ReadInv, ReadsBackAsDocumented
  <2>3. /\ graph[p].metadata = [k \in DOMAIN g[p].metadata |-> ExpectedValue(g[p].metadata[k])]
        /\ p # <<>> => graph[p].version = None
    BY <2>2 DEF ExpectedNode
  <2>4. \A k \in DOMAIN g[p].metadata : ExpectedValue(g[p].metadata[k]) = g[p].metadata[k]
    <3> SUFFICES ASSUME NEW k \in DOMAIN g[p].metadata
                 PROVE  ExpectedValue(g[p].metadata[k]) = g[p].metadata[k]
      OBVIOUS
    <3>1. g[p].metadata[k] \in MetadataOf(g, p)
      BY DEF MetadataOf
    <3>2. ~LooksLikeScalar(g[p].metadata[k])
      BY <2>1, <2>2, <3>1 DEF Representable
    <3> QED
      BY <3>2 DEF ExpectedValue
  <2>5. g[p].metadata = [k \in DOMAIN g[p].metadata |-> g[p].metadata[k]]
    BY <2>1, <2>2 DEF Typed, NodeTyped, IsMap
  <2>6. p # <<>> => g[p].version = None
    BY <2>1, <2>2 DEF Representable
  <2> HIDE DEF g
  <2>7. graph[p].metadata = g[p].metadata
    BY <2>3, <2>4, <2>5
  <2> QED
    BY <2>3, <2>6, <2>7 DEF g
<1> QED
  BY <1>1, CheckInit, CheckStep, ReadInit, ReadStep, PTL DEF Spec

(* From the first reading on, writing and reading change nothing: a graph   *)
(* that was read from a file this crate wrote passes every check again,     *)
(* under the same options, is encoded, decoded, and comes back the same.    *)
THEOREM SecondRoundIsStable == Spec => RereadIsStable
<1> DEFINE Stable ==
      round >= 1 => pc' \notin {"refused", "broken", "unreadable"} /\ graph' = graph
<1>1. CheckInv /\ ReadInv /\ [Next]_vars => [Stable]_vars
  <2> SUFFICES ASSUME CheckInv, ReadInv, Next, round >= 1
               PROVE  pc' \notin {"refused", "broken", "unreadable"} /\ graph' = graph
    OBVIOUS
  <2>1. Passed(graph) /\ Expected(graph) = graph
    BY DEF ReadInv
  <2>2. CASE CheckNames
    BY <2>1, <2>2 DEF CheckNames, Check, Passed, Checked
  <2>3. CASE ValidateStructure
    BY <2>1, <2>3 DEF ValidateStructure, Check, Passed, ReadInv
  <2>4. CASE CheckRepresentable
    BY <2>1, <2>4 DEF CheckRepresentable, Check, Passed, ReadInv
  <2>5. CASE CheckStringValues
    BY <2>1, <2>5 DEF CheckStringValues, Check, Passed, Checked
  <2>6. CASE CheckUsizeFields
    BY <2>1, <2>6 DEF CheckUsizeFields, Check, Passed, Checked
  <2>7. CASE CheckTensorRanks
    BY <2>1, <2>7 DEF CheckTensorRanks, Check, Passed, Checked
  <2>8. CASE CheckCompression
    BY <2>1, <2>8 DEF CheckCompression, Check, Passed, Checked
  <2>9. CASE WriteFile
    <3>1. GraphEncodes(graph)
      BY <2>1, CheckedGraphsEncode DEF Passed, CheckInv
    <3> QED
      BY <2>9, <3>1 DEF WriteFile
  <2>10. CASE ReadBack
    BY <2>1, <2>10, ReadBackReturns
  <2> QED
    BY <2>2, <2>3, <2>4, <2>5, <2>6, <2>7, <2>8, <2>9, <2>10 DEF Next
<1> QED
  BY <1>1, CheckInit, CheckStep, ReadInit, ReadStep, PTL DEF Spec, RereadIsStable

=============================================================================
