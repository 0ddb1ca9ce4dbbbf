---------------------------- MODULE NodeEncoding ----------------------------
(***************************************************************************)
(* What one node is in a file: the write_* functions of hdf5_write.rs and  *)
(* the accessors of hdf5_read.rs which undo them.  A tensor and a dataset  *)
(* are an element class, a shape and the elements; a dataset also has the  *)
(* level of its deflate filter.  An absent optional field is None.         *)
(***************************************************************************)
EXTENDS Integers, NodeSchema

CONSTANTS
  None,           \* an Option without a value
  NulTexts,       \* the texts that hold a NUL byte
  IllegalNames,   \* the texts that HDF5 does not take as link names
  I64Max,         \* i64::MAX, below usize::MAX
  MaxRank,        \* the 32 dimensions of HDF5
  Unlimited       \* H5S_UNLIMITED, which is u64::MAX

Floats   == {"f32", "f64"}
Numerics == Floats \cup {"i64", "bool"}

(* The forms in which the fields of nodes are written, and their values.    *)
Forms == {"tensor", "usizes", "int", "usize", "extent", "pair", "padding", "paddings"}

Values(how) ==
  CASE how = "tensor" -> [class : Numerics, shape : Seq(Nat), data : Seq(Int)]
    [] how = "usizes" -> Seq(Nat)
    [] how \in {"extent", "pair"} -> Seq(Int)
    [] how = "int" -> Int
    [] how = "usize" -> Nat
    [] how \in {"padding", "paddings"} ->
         {v \in [mode : {"same", "valid", "explicit"}, extents : Seq(Int)] :
            v.mode # "explicit" => v.extents = <<>>}

ASSUME EncodingAssumption ==
  /\ I64Max \in Nat /\ MaxRank \in Nat \ {0} /\ Unlimited \in Nat \ 0 .. 2
  /\ \A how \in Forms : None \notin Values(how)

(* Padding: symbolic, or one extent per axis.                               *)
Symbolic(mode) == [mode |-> mode, extents |-> <<>>]
Explicit(extents) == [mode |-> "explicit", extents |-> extents]

-----------------------------------------------------------------------------
(***************************************************************************)
(* Datasets.  Writer::array filters only what can be chunked; scalars and  *)
(* strings are never filtered.                                             *)
(***************************************************************************)
Array(class, shape, data, level) ==
  [class |-> class, shape |-> shape, data |-> data,
   deflate |-> IF shape = <<>> \/ data = <<>> THEN None ELSE level]

Scalar(class, value) ==
  [class |-> class, shape |-> <<>>, data |-> <<value>>, deflate |-> None]

StringList(texts) ==
  [class |-> "string", shape |-> <<Len(texts)>>, data |-> texts, deflate |-> None]

(* An extent that HDF5 does not take as the extent of a dataset of fixed    *)
(* size.  Only a tensor without elements can have one: [usize::MAX, 0].     *)
Unlimits(d) == \E i \in DOMAIN d.shape : d.shape[i] = Unlimited

(* H5Screate_simple and H5Dcreate: the rank, the extents, and a filter that *)
(* needs chunks and a known level.                                          *)
Creatable(d) ==
  /\ Len(d.shape) <= MaxRank
  /\ ~Unlimits(d)
  /\ d.deflate # None => d.shape # <<>> /\ d.deflate \in 0 .. 9

(* var_str: HDF5 strings are C strings.                                     *)
Storable(texts) == \A i \in DOMAIN texts : texts[i] \notin NulTexts

(* to_i64                                                                   *)
FitsI64(extents) == \A i \in DOMAIN extents : extents[i] <= I64Max

-----------------------------------------------------------------------------
(***************************************************************************)
(* The fields each write_* function writes, and how.  A field that is None *)
(* is left out of the file.                                                *)
(***************************************************************************)
Tensors(fields) == [f \in fields |-> "tensor"]

Writes(type) ==
  CASE type \in {"Input", "Output"} -> [shape |-> "usizes"]
    [] type = "Affine"    -> Tensors({"weight", "bias"})
    [] type = "Linear"    -> Tensors({"weight"})
    [] type = "Scale"     -> Tensors({"scale"})
    [] type = "Conv1d"    -> [weight |-> "tensor", stride |-> "extent", padding |-> "padding",
                              dilation |-> "extent", groups |-> "int", bias |-> "tensor",
                              input_shape |-> "usize"]
    [] type = "Conv2d"    -> [weight |-> "tensor", stride |-> "pair", padding |-> "paddings",
                              dilation |-> "pair", groups |-> "int", bias |-> "tensor",
                              input_shape |-> "usizes"]
    [] type = "CubaLI"    -> Tensors({"tau_syn", "tau_mem", "r", "v_leak", "w_in"})
    [] type = "CubaLIF"   -> Tensors({"tau_syn", "tau_mem", "r", "v_leak", "v_threshold",
                                      "v_reset", "w_in"})
    [] type = "I"         -> Tensors({"r"})
    [] type = "IF"        -> Tensors({"r", "v_threshold", "v_reset"})
    [] type = "LI"        -> Tensors({"tau", "r", "v_leak"})
    [] type = "LIF"       -> Tensors({"tau", "r", "v_leak", "v_threshold", "v_reset"})
    [] type \in {"SumPool2d", "AvgPool2d"} -> Tensors({"kernel_size", "stride", "padding"})
    [] type = "Delay"     -> Tensors({"delay"})
    [] type = "Flatten"   -> [start_dim |-> "int", end_dim |-> "int", input_type |-> "usizes"]
    [] type = "Threshold" -> Tensors({"threshold"})

(* Mutant: the pair is formed whatever the length.                          *)
PairAlways(extents) == extents \o extents

(* conv_extent: one value is the scalar form of a pair.                     *)
Pair(extents) == IF Len(extents) = 1 THEN extents \o extents ELSE extents

Encoded(how, v, level) ==
  CASE how = "tensor" -> Array(v.class, v.shape, v.data, level)
    [] how = "usizes" -> Array("i64", <<Len(v)>>, v, level)
    [] how \in {"int", "usize"} -> Scalar("i64", v)
    [] how = "extent" -> Scalar("i64", v[1])
    [] how = "pair"   -> Array("i64", <<2>>, Pair(v), level)
    [] how = "padding" ->
         IF v.mode = "explicit" THEN Scalar("i64", v.extents[1]) ELSE Scalar("string", v.mode)
    [] how = "paddings" ->
         IF v.mode = "explicit" THEN Array("i64", <<2>>, Pair(v.extents), level)
         ELSE Scalar("string", v.mode)

(* What the functions refuse before a dataset is made: extents that do not  *)
(* fit the wire, by their number or by their size.                          *)
Encodes(how, v) ==
  CASE how = "usizes"       -> FitsI64(v)
    [] how = "usize"        -> FitsI64(<<v>>)
    [] how = "extent"       -> Len(v) = 1
    [] how = "pair"         -> Len(v) \in {1, 2}
    [] how = "padding"      -> v.mode = "explicit" => Len(v.extents) = 1
    [] how = "paddings" -> v.mode = "explicit" => Len(v.extents) \in {1, 2}
    [] OTHER                -> TRUE

Present(fields) == {f \in DOMAIN fields : fields[f] # None}

FieldsEncode(type, fields, level) ==
  \A f \in Present(fields) :
    /\ Encodes(Writes(type)[f], fields[f])
    /\ Creatable(Encoded(Writes(type)[f], fields[f], level))

FieldSets(type, fields, level) ==
  [f \in Present(fields) |-> Encoded(Writes(type)[f], fields[f], level)]

-----------------------------------------------------------------------------
(***************************************************************************)
(* write_metadata and read_metadata_value.  The file keeps no kind: it is  *)
(* told again from the element class and the rank.                         *)
(***************************************************************************)
Metadata(kind, class, shape, data) ==
  [kind |-> kind, class |-> class, shape |-> shape, data |-> data]

(* The element class, shape and elements of each variant; a tensor without  *)
(* axes has one element.                                                    *)
ValueTyped(m) ==
  /\ m = Metadata(m.kind, m.class, m.shape, m.data)
  /\ m.data \in Seq(IF m.class = "string" THEN STRING ELSE Int)
  /\ \/ m.kind = "String" /\ m.class = "string" /\ m.shape = <<>> /\ Len(m.data) = 1
     \/ m.kind = "StringList" /\ m.class = "string" /\ m.shape = <<Len(m.data)>>
     \/ m.kind = "F64" /\ m.class = "f64" /\ m.shape = <<>> /\ Len(m.data) = 1
     \/ m.kind = "I64" /\ m.class = "i64" /\ m.shape = <<>> /\ Len(m.data) = 1
     \/ m.kind = "Bool" /\ m.class = "bool" /\ m.shape = <<>> /\ Len(m.data) = 1
     \/ /\ m.kind = "Tensor" /\ m.class \in Numerics /\ m.shape \in Seq(Nat)
        /\ m.shape = <<>> => Len(m.data) = 1

EncodedValue(m, level) ==
  CASE m.kind = "Tensor"     -> Array(m.class, m.shape, m.data, level)
    [] m.kind = "StringList" -> StringList(m.data)
    [] OTHER                 -> Scalar(m.class, m.data[1])

ValueEncodes(m, level) ==
  /\ m.kind \in {"String", "StringList"} => Storable(m.data)
  /\ Creatable(EncodedValue(m, level))

(* Mutant: a list of one string is taken for a string.                      *)
DecodedValueByCount(d) ==
  CASE d.class = "string" /\ Len(d.data) = 1 -> Metadata("String", "string", <<>>, d.data)
    [] d.class = "string" -> Metadata("StringList", "string", d.shape, d.data)
    [] d.class \in Floats /\ d.shape = <<>> -> Metadata("F64", "f64", <<>>, d.data)
    [] d.class = "i64" /\ d.shape = <<>>    -> Metadata("I64", "i64", <<>>, d.data)
    [] d.class = "bool" /\ d.shape = <<>>   -> Metadata("Bool", "bool", <<>>, d.data)
    [] OTHER -> Metadata("Tensor", d.class, d.shape, d.data)

(* Mutant: a scalar keeps the width it has in the file.                     *)
DecodedValueUnwidened(d) ==
  CASE d.class = "string" /\ d.shape = <<>> -> Metadata("String", "string", <<>>, d.data)
    [] d.class = "string" -> Metadata("StringList", "string", d.shape, d.data)
    [] d.class \in Floats /\ d.shape = <<>> -> Metadata("F64", d.class, <<>>, d.data)
    [] d.class = "i64" /\ d.shape = <<>>    -> Metadata("I64", "i64", <<>>, d.data)
    [] d.class = "bool" /\ d.shape = <<>>   -> Metadata("Bool", "bool", <<>>, d.data)
    [] OTHER -> Metadata("Tensor", d.class, d.shape, d.data)

DecodedValue(d) ==
  CASE d.class = "string" /\ d.shape = <<>> -> Metadata("String", "string", <<>>, d.data)
    [] d.class = "string" /\ d.shape # <<>> -> Metadata("StringList", "string", d.shape, d.data)
    [] d.class \in Floats /\ d.shape = <<>> -> Metadata("F64", "f64", <<>>, d.data)
    [] d.class = "i64" /\ d.shape = <<>>    -> Metadata("I64", "i64", <<>>, d.data)
    [] d.class = "bool" /\ d.shape = <<>>   -> Metadata("Bool", "bool", <<>>, d.data)
    [] OTHER -> Metadata("Tensor", d.class, d.shape, d.data)

-----------------------------------------------------------------------------
(***************************************************************************)
(* The accessors of NodeReader, applied to the fields of NodeSchema.       *)
(***************************************************************************)
Accepted(d, want) ==
  CASE want = "tensor"   -> d.class \in Numerics
    [] want = "ints"     -> d.class = "i64"
    [] want = "int"      -> d.class = "i64" /\ Len(d.data) = 1
    [] want = "extents"  -> d.class = "i64" /\ \A i \in DOMAIN d.data : d.data[i] >= 0
    [] want = "extent"   -> d.class = "i64" /\ Len(d.data) = 1 /\ d.data[1] >= 0
    [] want = "padding"  -> \/ d.class = "i64"
                            \/ d.class = "string" /\ d.data \in {<<"same">>, <<"valid">>}

FieldsDecode(type, sets) ==
  \A i \in DOMAIN Fields(type) :
    LET step == Fields(type)[i]
    IN  IF step.field \in DOMAIN sets THEN Accepted(sets[step.field], step.want)
        ELSE step.when # "required"

Accessed(d, want) ==
  CASE want = "tensor"            -> [class |-> d.class, shape |-> d.shape, data |-> d.data]
    [] want \in {"ints", "extents"} -> d.data
    [] want \in {"int", "extent"}   -> d.data[1]
    [] want = "padding"           -> IF d.class = "string" THEN Symbolic(d.data[1])
                                     ELSE Explicit(d.data)

(* zeros_like and ones_like                                                 *)
Filled(t, value) ==
  [class |-> t.class, shape |-> t.shape, data |-> [i \in DOMAIN t.data |-> value]]

(* What an absent field that is not required is read as.                    *)
Absent(step, sets) ==
  CASE step.when = "default"       -> Filled(sets[step.like], IF step.field = "w_in" THEN 1 ELSE 0)
    [] step.field = "start_dim"    -> 1
    [] step.field = "end_dim"      -> -1
    [] OTHER                       -> None

FieldValues(type, sets) ==
  [f \in {Fields(type)[i].field : i \in DOMAIN Fields(type)} |->
     LET step == CHOOSE s \in {Fields(type)[i] : i \in DOMAIN Fields(type)} : s.field = f
     IN  IF f \in DOMAIN sets THEN Accessed(sets[f], step.want) ELSE Absent(step, sets)]
=============================================================================
