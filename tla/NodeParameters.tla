--------------------------- MODULE NodeParameters ---------------------------
(***************************************************************************)
(* The local parameter checks of src/src/validation.rs, which report the   *)
(* first violated condition of a convolution or pooling node in a fixed    *)
(* order.  Other nodes have no local conditions.                           *)
(***************************************************************************)
EXTENDS Integers, Sequences, FiniteSetsExt

(* What a check reports: the ParameterError, and the field or axis of it.  *)
Fine == <<>>
Report(bad, error, field) == IF bad THEN <<[error |-> error, field |-> field]>> ELSE <<>>

(* The first of the reports of checks made one after the other.            *)
First(reports) == IF reports = <<>> THEN [error |-> "none", field |-> 0] ELSE reports[1]

(* check_extent_values: the first extent of the wrong sign.                *)
WrongSigns(extents, least) == {i \in DOMAIN extents : extents[i] < least}
ExtentValues(field, extents, least) ==
  Report(WrongSigns(extents, least) # {}, "ExtentSign", field)

(* check_vec_extents: the number of extents first.                         *)
VecExtents(field, extents, arities, least) ==
  Report(Len(extents) \notin arities, "ExtentArity", field)
    \o ExtentValues(field, extents, least)

(* check_padding: "same" and "valid" say nothing about extents.            *)
PaddingExtents(padding, arities) ==
  IF padding.mode # "explicit" THEN Fine
  ELSE VecExtents("padding", padding.extents, arities, 0)

(* Conv1d and Conv2d: the rank of the weight, and how many extents a       *)
(* spatial field may have.                                                 *)
WeightRank == [Conv1d |-> 3, Conv2d |-> 4]
Arities == [Conv1d |-> {1}, Conv2d |-> {1, 2}]

(* validate_conv, after the conditions on the weight.  The remainder is    *)
(* only taken once the number of groups is known to be positive.           *)
ConvSpatial(c) ==
  Report(c.weight[1] % c.groups # 0, "ChannelGroupDivisibility", "weight")
    \o VecExtents("stride", c.stride, Arities[c.kind], 1)
    \o VecExtents("dilation", c.dilation, Arities[c.kind], 1)
    \o PaddingExtents(c.padding, Arities[c.kind])
    \o Report(Len(c.bias) # 1, "BiasRank", "bias")
    \o Report(Len(c.bias) = 1 /\ c.bias # <<c.weight[1]>>, "BiasLength", "bias")

(* Mutant: the extents of the weight are not looked at.                    *)
ConvReportsLoosely(c) ==
  IF c.groups <= 0 THEN Report(TRUE, "Groups", "groups")
  ELSE IF Len(c.weight) # WeightRank[c.kind] THEN Report(TRUE, "WeightRank", "weight")
  ELSE ConvSpatial(c)

ConvReports(c) ==
  IF c.groups <= 0 THEN Report(TRUE, "Groups", "groups")
  ELSE IF Len(c.weight) # WeightRank[c.kind] THEN Report(TRUE, "WeightRank", "weight")
  ELSE IF \E axis \in DOMAIN c.weight : c.weight[axis] = 0
  THEN Report(TRUE, "WeightExtentPositive", "weight")
  ELSE ConvSpatial(c)

(* pool_extents: the element type, then the rank, then the number of them. *)
PoolExtents(field, t, least) ==
  Report(t.dtype # "i64", "ExtentDType", field)
    \o Report(Len(t.shape) > 1, "ExtentRank", field)
    \o Report(Len(t.values) \notin {1, 2}, "ExtentArity", field)
    \o ExtentValues(field, t.values, least)

PoolReports(p) ==
  PoolExtents("kernel_size", p.kernel_size, 1)
    \o PoolExtents("stride", p.stride, 1)
    \o PoolExtents("padding", p.padding, 0)

NodeFault(node) ==
  CASE node.kind \in {"Conv1d", "Conv2d"} -> First(ConvReports(node))
    [] node.kind \in {"SumPool2d", "AvgPool2d"} -> First(PoolReports(node))
    [] OTHER -> First(Fine)
=============================================================================
