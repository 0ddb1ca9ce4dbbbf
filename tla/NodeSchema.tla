----------------------------- MODULE NodeSchema -----------------------------
(***************************************************************************)
(* Which datasets the decoder of each leaf node type reads, in the order   *)
(* it reads them (the read_* functions of hdf5_read.rs).  A step names the *)
(* field, the accessor of NodeReader that decodes it, what an absent field *)
(* means, and the field a synthesized default is shaped like.              *)
(***************************************************************************)
EXTENDS Sequences

Required(field, want) == <<[field |-> field, want |-> want, when |-> "required", like |-> field]>>
Optional(field, want) == <<[field |-> field, want |-> want, when |-> "optional", like |-> field]>>
Default(field, like)  == <<[field |-> field, want |-> "tensor", when |-> "default", like |-> like]>>

Tensor(field) == Required(field, "tensor")

(* ConvGeometry::read, shared by Conv1d and Conv2d.                         *)
ConvGeometry ==
  Tensor("weight") \o Required("stride", "ints") \o Required("padding", "padding")
    \o Required("dilation", "ints") \o Required("groups", "int") \o Tensor("bias")

ThresholdAndReset == Tensor("v_threshold") \o Default("v_reset", "v_threshold")

LeakDynamics == Tensor("tau") \o Tensor("r") \o Tensor("v_leak")

(* CubaDynamics::read takes v_leak first: the default of w_in is like it.   *)
CubaDynamics ==
  Tensor("v_leak") \o Tensor("tau_syn") \o Tensor("tau_mem") \o Tensor("r")
    \o Default("w_in", "v_leak")

PoolWindow == Tensor("kernel_size") \o Tensor("stride") \o Tensor("padding")

LeafTypes ==
  {"Input", "Output", "Affine", "Linear", "Scale", "Conv1d", "Conv2d", "CubaLI",
   "CubaLIF", "I", "IF", "LI", "LIF", "SumPool2d", "AvgPool2d", "Delay",
   "Flatten", "Threshold"}

Fields(type) ==
  CASE type \in {"Input", "Output"}         -> Required("shape", "extents")
    [] type = "Affine"                      -> Tensor("weight") \o Tensor("bias")
    [] type = "Linear"                      -> Tensor("weight")
    [] type = "Scale"                       -> Tensor("scale")
    [] type = "Conv1d"                      -> ConvGeometry \o Optional("input_shape", "extent")
    [] type = "Conv2d"                      -> ConvGeometry \o Optional("input_shape", "extents")
    [] type = "CubaLI"                      -> CubaDynamics
    [] type = "CubaLIF"                     -> ThresholdAndReset \o CubaDynamics
    [] type = "I"                           -> Tensor("r")
    [] type = "IF"                          -> ThresholdAndReset \o Tensor("r")
    [] type = "LI"                          -> LeakDynamics
    [] type = "LIF"                         -> ThresholdAndReset \o LeakDynamics
    [] type \in {"SumPool2d", "AvgPool2d"}  -> PoolWindow
    [] type = "Delay"                       -> Tensor("delay")
    [] type = "Flatten"                     -> Optional("start_dim", "int")
                                                 \o Optional("end_dim", "int")
                                                 \o Optional("input_type", "extents")
    [] type = "Threshold"                   -> Tensor("threshold")

=============================================================================
