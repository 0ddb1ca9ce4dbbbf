--------------------------- MODULE DatasetDecoder ---------------------------
(***************************************************************************)
(* Decoding one dataset, after validate_dataset_security: how the bytes    *)
(* GraphReader takes as given are computed from the dataset's extents and  *)
(* element type, when they are charged, and which buffers exist meanwhile  *)
(* (the second half of hdf5_read.rs, and Tensor::new of types.rs).         *)
(***************************************************************************)
EXTENDS ReadBudget, Sequences, FiniteSetsExt

CONSTANTS
  IsizeMax,      (* isize::MAX, the largest object of the build             *)
  ElementSize,   (* element class -> bytes of one decoded element           *)
  HeaderSize,    (* size_of::<String>()                                     *)
  PairSize,      (* size_of::<(String, String)>()                           *)
  FirstPairs,    (* pairs a Vec of unknown length first makes room for      *)
  MinText,       (* least capacity of a String that holds a character       *)
  WordSize,      (* size_of::<usize>()                                      *)
  FixedCaps,     (* FIXED_STRING_CAPS                                       *)
  FileSize,      (* bytes of the containing file                            *)
  Datasets,      (* the datasets a file may hold                            *)
  Calls          (* what is decoded, under which limits, after what was used *)

Numeric == {"f32", "f64", "int", "u64", "bool"}
Textual == {"vlen", "fixed"}

(* `null' is a NULL dataspace; extents are hsize_t and may fit no usize;    *)
(* `width' is a fixed string's; `heap' what H5Dvlen_get_buf_size reports;   *)
(* `values' tells whether an element is negative or a u64 too big for i64.  *)
DatasetRecords ==
  [null : BOOLEAN, extents : Seq(Nat), class : Numeric \cup Textual \cup {"opaque"},
   width : Usize, heap : Nat, values : {"fine", "negative", "big"}]

Wants == {"tensor", "default", "extents", "text", "metadata", "edges"}

CallRecords ==
  [want : Wants, limit : Limits, edgeLimit : Limits, start : Usize, edges : Usize]

(* A decoder that passed the checks of an earlier dataset is within limits. *)
ASSUME DecoderAssumption ==
  /\ IsizeMax \in Usize
  /\ ElementSize \in [Numeric \cup {"vlen"} -> Usize \ {0}]
  /\ ElementSize["u64"] = ElementSize["int"]
  /\ HeaderSize \in Usize /\ PairSize = 2 * HeaderSize
  /\ FirstPairs \in Nat \ {0} /\ FirstPairs * PairSize <= IsizeMax
  /\ MinText \in Nat \ {0}
  /\ WordSize \in Nat /\ WordSize <= ElementSize["int"]
  /\ \A c \in Numeric : ElementSize[c] <= IsizeMax
  /\ FixedCaps \subseteq Usize
  /\ FileSize \in Nat
  /\ Datasets \subseteq DatasetRecords
  /\ Calls \subseteq CallRecords
  /\ \A d \in Datasets :
       /\ d.null => d.extents = <<>> /\ d.heap = 0
       /\ d.extents = <<>> => d.heap <= FileSize
       /\ d.class = "fixed" => d.width # 0
  /\ \A c \in Calls : c.limit # NoLimit => c.start <= c.limit

VARIABLES
  ds,       \* the dataset
  call,     \* the call that decodes it
  pc,       \* the next step
  axis,     \* the axis a product has reached
  product,  \* the product so far, Overflow once it fits no usize
  count,    \* the number of elements
  used,     \* the byte ledger
  edges,    \* the edge ledger
  buffers,  \* the bytes of each live buffer
  outcome   \* the error the decoding ends in, "none" if it succeeds

vars == <<ds, call, pc, axis, product, count, used, edges, buffers, outcome>>

(* What HDF5 fills; the VLEN payload it allocates; the Vec<String>; the     *)
(* copied characters; the second buffer a conversion builds; and the buffer *)
(* that one is moved out of when it grows.                                  *)
Kinds == {"raw", "heap", "headers", "text", "values", "moved"}

NoBuffers == [k \in Kinds |-> 0]

Held ==
  buffers["raw"] + buffers["heap"] + buffers["headers"] + buffers["text"]
    + buffers["values"] + buffers["moved"]

-----------------------------------------------------------------------------
(* Sizes. *)

AllocationBytesUnfiltered(n, width) == CheckedMul(n, width)

(* allocation_bytes: one buffer must fit Rust's largest object.             *)
AllocationBytes(n, width) ==
  LET bytes == CheckedMul(n, width)
  IN  IF bytes # Overflow /\ bytes <= IsizeMax THEN bytes ELSE Overflow

(* The rung of the capacity ladder a fixed string is read through.          *)
Rungs    == {cap \in FixedCaps : ds.width <= cap}
Wide     == Rungs = {}
Capacity == Min(Rungs)

(* vlen_payload_bytes: a scalar is bounded by its file.                     *)
VlenPayload == IF ds.extents = <<>> THEN FileSize ELSE ds.heap

Elements(class) == AllocationBytes(count, ElementSize[class])
Headers         == AllocationBytes(count, HeaderSize)
Payload         == AllocationBytes(VlenPayload, 1)
FixedRaw        == AllocationBytes(count, Capacity)
FixedText       == AllocationBytes(count, ds.width)

NumericRequestOneBuffer == Elements(ds.class)

(* What read_tensor charges before read_raw.                                *)
NumericRequest ==
  IF ds.class = "u64" THEN CheckedAdd(Elements("u64"), Elements("int"))
  ELSE Elements(ds.class)

FixedRequest == CheckedAdd(CheckedAdd(FixedRaw, Headers), FixedText)
VlenMinimum  == CheckedAdd(Elements("vlen"), Headers)
VlenRequestOneCopy == CheckedAdd(CheckedAdd(Elements("vlen"), Payload), Headers)
VlenRequest  ==
  CheckedAdd(CheckedAdd(CheckedAdd(Elements("vlen"), Payload), Headers), Payload)

(* A scalar's decoded width: floats widen to f64, integers to i64.          *)
ScalarSize ==
  CASE ds.class \in {"f32", "f64"} -> ElementSize["f64"]
    [] ds.class \in {"int", "u64"} -> ElementSize["int"]
    [] ds.class = "bool"           -> ElementSize["bool"]

(* TensorData::dtype().size_of() of what read_tensor returns.               *)
DtypeSize == ElementSize[ds.class]

EdgeCount == ds.extents[1]

RefusedAtNoRank ==
  \/ call.want \in {"tensor", "default", "extents"} /\ ds.class \notin Numeric
  \/ call.want = "metadata" /\ ds.class = "opaque"

Refused ==
  \/ call.want \in {"tensor", "default", "extents"} /\ ds.class \notin Numeric
  \/ call.want = "metadata" /\ ds.class = "opaque"
  \/ call.want = "metadata" /\ ds.class \in Textual /\ Len(ds.extents) > 1

ScalarNumber ==
  call.want = "metadata" /\ ds.class \in Numeric /\ ds.extents = <<>>

ReadsTensor ==
  \/ call.want \in {"tensor", "default", "extents"}
  \/ call.want = "metadata" /\ ds.class \in Numeric

(* read_string_scalar wants one element; a metadata list takes any number.  *)
WantsOneString ==
  call.want = "text" \/ (call.want = "metadata" /\ ds.extents = <<>>)

-----------------------------------------------------------------------------
(* Steps. *)

Init ==
  /\ ds \in Datasets
  /\ call \in Calls
  /\ pc = "dispatch"
  /\ axis = 1
  /\ product = 1
  /\ count = 0
  /\ used = call.start
  /\ edges = call.edges
  /\ buffers = NoBuffers
  /\ outcome = "none"

Goto(label) == pc' = label /\ UNCHANGED <<buffers, outcome>>

Hold(held, label) == pc' = label /\ buffers' = held /\ UNCHANGED outcome

(* Every error returns at once and drops what the decoder allocated.        *)
Fail(kind) == pc' = "failed" /\ outcome' = kind /\ buffers' = NoBuffers

(* ReadBudget::charge: an overflow is refused by a limit alone.             *)
Charge(requested, next) ==
  \/ /\ Admits(call.limit, used, requested)
     /\ used' = Charged(call.limit, used, requested)
     /\ Goto(next)
  \/ /\ ~Admits(call.limit, used, requested)
     /\ Fail("ReadLimitExceeded")
     /\ UNCHANGED used

(* charge_allocation: without a limit an overflow is an error as well.      *)
ChargeAllocation(requested, next) ==
  \/ /\ call.limit # NoLimit \/ requested # Overflow
     /\ Charge(requested, next)
  \/ /\ call.limit = NoLimit /\ requested = Overflow
     /\ Fail("InvalidTensor")
     /\ UNCHANGED used

(* Which decoder a want and an element type lead to.                        *)
Dispatch ==
  /\ pc = "dispatch"
  /\ \/ Refused /\ Fail("InvalidTensor")
     \/ ~Refused /\ Goto(IF ScalarNumber THEN "scalar" ELSE "count")
  /\ UNCHANGED <<ds, call, axis, product, count, used, edges>>

(* read_metadata_value of a scalar: a plain charge, then one value.         *)
ChargeScalar ==
  /\ pc = "scalar"
  /\ Charge(ScalarSize, "readScalar")
  /\ UNCHANGED <<ds, call, axis, product, count, edges>>

ReadScalar ==
  /\ pc = "readScalar"
  /\ \/ /\ ds.class = "u64" /\ ds.values = "big"
        /\ Fail("InvalidTensor")
     \/ /\ ~(ds.class = "u64" /\ ds.values = "big")
        /\ Hold([NoBuffers EXCEPT !["raw"] = ScalarSize], "done")
  /\ UNCHANGED <<ds, call, axis, product, count, used, edges>>

(* would_fit(None) refuses whenever there is a limit.                       *)
Uncountable ==
  Fail(IF call.limit = NoLimit THEN "InvalidTensor" ELSE "ReadLimitExceeded")

ZeroExtentIgnored == FALSE
ZeroExtent        == \E i \in DOMAIN ds.extents : ds.extents[i] = 0

TooWideUnlessEmpty == ~ZeroExtent /\ \E i \in DOMAIN ds.extents : ds.extents[i] \notin Usize
TooWideExtent      == \E i \in DOMAIN ds.extents : ds.extents[i] \notin Usize

(* dataset_element_count: a NULL space is empty, every extent is converted  *)
(* before the zero shortcut is taken.  charge_strings asks again and gets   *)
(* the same answer.                                                         *)
CountElements ==
  /\ pc = "count"
  /\ \/ ds.null /\ Goto("counted")
     \/ TooWideExtent /\ Uncountable
     \/ ~TooWideExtent /\ ZeroExtent /\ Goto("counted")
     \/ ~ds.null /\ ~TooWideExtent /\ ~ZeroExtent /\ Goto("countAxis")
  /\ count' = 0
  /\ UNCHANGED <<ds, call, axis, product, used, edges>>

(* checked_shape_product, one axis at a time.                               *)
CountAxis ==
  /\ pc = "countAxis"
  /\ axis <= Len(ds.extents)
  /\ LET next == CheckedMul(product, ds.extents[axis])
     IN  \/ /\ next = Overflow
            /\ Uncountable
            /\ UNCHANGED <<axis, product>>
         \/ /\ next # Overflow
            /\ product' = next
            /\ axis' = axis + 1
            /\ UNCHANGED <<pc, buffers, outcome>>
  /\ UNCHANGED <<ds, call, count, used, edges>>

CountDone ==
  /\ pc = "countAxis"
  /\ axis > Len(ds.extents)
  /\ count' = product
  /\ Goto("counted")
  /\ UNCHANGED <<ds, call, axis, product, used, edges>>

-----------------------------------------------------------------------------
(* Numbers: read_tensor, Tensor::new, and what is made of the tensor. *)

ChargeNumbers ==
  /\ pc = "counted"
  /\ ReadsTensor
  /\ ChargeAllocation(NumericRequest, "readNumbers")
  /\ UNCHANGED <<ds, call, axis, product, count, edges>>

ReadNumbers ==
  /\ pc = "readNumbers"
  /\ Hold([buffers EXCEPT !["raw"] = Elements(ds.class)],
          IF ds.class = "u64" THEN "narrow" ELSE "build")
  /\ UNCHANGED <<ds, call, axis, product, count, used, edges>>

(* read_u64_as_i64 builds the second buffer while the first is alive.       *)
NarrowU64 ==
  /\ pc = "narrow"
  /\ \/ ds.values = "big" /\ Fail("InvalidTensor")
     \/ /\ ds.values # "big"
        /\ Hold([buffers EXCEPT !["values"] = Elements("int")], "build")
  /\ UNCHANGED <<ds, call, axis, product, count, used, edges>>

(* Tensor::new starts its own product of the shape; the u64 buffer is gone. *)
BuildTensor ==
  /\ pc = "build"
  /\ Hold([NoBuffers EXCEPT !["raw"] = Elements(ds.class)], "shapeAxis")
  /\ axis' = 1
  /\ product' = 1
  /\ UNCHANGED <<ds, call, count, used, edges>>

(* shape_product multiplies from the left and has no zero shortcut.         *)
ShapeAxis ==
  /\ pc = "shapeAxis"
  /\ axis <= Len(ds.extents)
  /\ LET next == CheckedMul(product, ds.extents[axis])
     IN  \/ next = Overflow /\ Fail("InvalidTensor") /\ UNCHANGED <<axis, product>>
         \/ /\ next # Overflow
            /\ product' = next
            /\ axis' = axis + 1
            /\ UNCHANGED <<pc, buffers, outcome>>
  /\ UNCHANGED <<ds, call, count, used, edges>>

(* check_shape_len; read_ints then refuses what is not integer.             *)
ShapeDone ==
  /\ pc = "shapeAxis"
  /\ axis > Len(ds.extents)
  /\ LET rejected == \/ product # count
                     \/ call.want = "extents" /\ ds.class \notin {"int", "u64"}
     IN  \/ rejected /\ Fail("InvalidTensor")
         \/ /\ ~rejected
            /\ Goto(CASE call.want = "extents" -> "chargeWords"
                      [] call.want = "default" -> "chargeDefault"
                      [] OTHER                 -> "done")
  /\ UNCHANGED <<ds, call, axis, product, count, used, edges>>

(* to_usizes: a plain charge for the list it collects.                      *)
ChargeWords ==
  /\ pc = "chargeWords"
  /\ Charge(CheckedMul(count, WordSize), "collectWords")
  /\ UNCHANGED <<ds, call, axis, product, count, edges>>

CollectWords ==
  /\ pc = "collectWords"
  /\ \/ ds.values = "negative" /\ Fail("InvalidTensor")
     \/ /\ ds.values # "negative"
        /\ Hold([buffers EXCEPT !["values"] = count * WordSize], "done")
  /\ UNCHANGED <<ds, call, axis, product, count, used, edges>>

(* v_reset and w_in: a plain charge for a tensor like the one just read.    *)
ChargeDefault ==
  /\ pc = "chargeDefault"
  /\ Charge(CheckedMul(count, DtypeSize), "synthesize")
  /\ UNCHANGED <<ds, call, axis, product, count, edges>>

Synthesize ==
  /\ pc = "synthesize"
  /\ Hold([buffers EXCEPT !["values"] = count * DtypeSize], "done")
  /\ UNCHANGED <<ds, call, axis, product, count, used, edges>>

-----------------------------------------------------------------------------
(* Strings: read_string_scalar, read_strings_unchecked and read_edges. *)

OneString ==
  /\ pc = "counted"
  /\ WantsOneString /\ ~ReadsTensor
  /\ \/ count # 1 /\ Fail("Io")
     \/ count = 1 /\ Goto("chargeStrings")
  /\ UNCHANGED <<ds, call, axis, product, count, used, edges>>

StringList ==
  /\ pc = "counted"
  /\ call.want = "metadata" /\ ~WantsOneString /\ ~ReadsTensor
  /\ Goto("chargeStrings")
  /\ UNCHANGED <<ds, call, axis, product, count, used, edges>>

(* Any empty dataset is no edges; otherwise the shape must be (E, 2) and    *)
(* the edges are charged before the strings.                                *)
EdgeShape == Len(ds.extents) = 2 /\ ds.extents[2] = 2

ChargeEdges ==
  /\ pc = "counted"
  /\ call.want = "edges"
  /\ \/ count = 0 /\ Goto("done") /\ UNCHANGED edges
     \/ count # 0 /\ ~EdgeShape /\ Fail("InvalidGraph") /\ UNCHANGED edges
     \/ /\ count # 0 /\ EdgeShape
        /\ Admits(call.edgeLimit, edges, EdgeCount)
        /\ edges' = Charged(call.edgeLimit, edges, EdgeCount)
        /\ Goto("chargeStrings")
     \/ /\ count # 0 /\ EdgeShape
        /\ ~Admits(call.edgeLimit, edges, EdgeCount)
        /\ Fail("ReadCountLimitExceeded")
        /\ UNCHANGED edges
  /\ UNCHANGED <<ds, call, axis, product, count, used>>

(* charge_strings of fixed strings; too wide a one is left to the read.     *)
ChargeFixed ==
  /\ pc = "chargeStrings"
  /\ ds.class = "fixed" /\ ~Wide
  /\ ChargeAllocation(FixedRequest, "readStrings")
  /\ UNCHANGED <<ds, call, axis, product, count, edges>>

ChargeNothing ==
  /\ pc = "chargeStrings"
  /\ ds.class # "vlen" /\ (ds.class = "fixed" => Wide)
  /\ Goto("readStrings")
  /\ UNCHANGED <<ds, call, axis, product, count, used, edges>>

(* charge_strings of VLEN strings: a dry run of the part known without      *)
(* walking the heap, then, under a limit, the whole.                        *)
ChargeVlen ==
  /\ pc = "chargeStrings"
  /\ ds.class = "vlen"
  /\ \/ /\ ~Admits(call.limit, used, VlenMinimum)
        /\ Fail("ReadLimitExceeded") /\ UNCHANGED used
     \/ /\ call.limit = NoLimit /\ VlenMinimum = Overflow
        /\ Fail("InvalidTensor") /\ UNCHANGED used
     \/ /\ call.limit = NoLimit /\ VlenMinimum # Overflow
        /\ Goto("readStrings") /\ UNCHANGED used
     \/ /\ call.limit # NoLimit
        /\ Admits(call.limit, used, VlenMinimum)
        /\ \/ VlenPayload \notin Usize /\ Fail("Io") /\ UNCHANGED used
           \/ VlenPayload \in Usize /\ ChargeAllocation(VlenRequest, "readStrings")
  /\ UNCHANGED <<ds, call, axis, product, count, edges>>

ReadStrings ==
  /\ pc = "readStrings"
  /\ \/ /\ ds.class \notin Textual \/ (ds.class = "fixed" /\ Wide)
        /\ Fail("Io")
     \/ /\ ds.class = "vlen"
        /\ Hold([NoBuffers EXCEPT !["raw"] = Elements("vlen"), !["heap"] = ds.heap],
                "copyStrings")
     \/ /\ ds.class = "fixed" /\ ~Wide
        /\ Hold([NoBuffers EXCEPT !["raw"] = FixedRaw], "copyStrings")
  /\ UNCHANGED <<ds, call, axis, product, count, used, edges>>

(* ToString pushes the characters into an empty String, whose first buffer  *)
(* has room for MinText of them: what the copies may take at most when they *)
(* are short, all of one width, or few long ones among many.                *)
RoundedText ==
  LET larger(a, b) == IF a < b THEN b ELSE a
  IN  IF ds.class = "fixed" THEN count * larger(ds.width, MinText)
      ELSE IF ds.heap < count THEN MinText * ds.heap
      ELSE larger(MinText * count, ds.heap + (MinText - 1) * (count - 1))

(* The strings are copied while HDF5's buffers live; the copy of a fixed    *)
(* string is no longer than its width.                                      *)
CopyStrings ==
  /\ pc = "copyStrings"
  /\ \E text \in {IF ds.class = "vlen" THEN ds.heap ELSE FixedText, RoundedText} :
       Hold([buffers EXCEPT !["headers"] = Headers, !["text"] = text], "strings")
  /\ UNCHANGED <<ds, call, axis, product, count, used, edges>>

ReturnStrings ==
  /\ pc = "strings"
  /\ Hold([buffers EXCEPT !["raw"] = 0, !["heap"] = 0],
          IF call.want = "edges" THEN "chargePairs" ELSE "done")
  /\ UNCHANGED <<ds, call, axis, product, count, used, edges>>

(* read_edges: a plain charge for the pairs, collected beside the strings.  *)
ChargePairs ==
  /\ pc = "chargePairs"
  /\ Charge(CheckedMul(EdgeCount, PairSize), "pairUp")
  /\ UNCHANGED <<ds, call, axis, product, count, edges>>

(* The iterator of the pairs does not tell how many it has, so collect      *)
(* starts with room for FirstPairs of them, ...                             *)
PairUp ==
  /\ pc = "pairUp"
  /\ Hold([buffers EXCEPT !["values"] = FirstPairs * PairSize], "growPairs")
  /\ UNCHANGED <<ds, call, axis, product, count, used, edges>>

(* ... and makes room for twice as many whenever it is full, in place or in *)
(* a new buffer; a Vec that would pass the largest object panics.           *)
GrowPairs ==
  /\ pc = "growPairs"
  /\ LET size == buffers["values"]
         full == size < EdgeCount * PairSize
     IN  \/ ~full /\ Goto("done")
         \/ full /\ 2 * size > IsizeMax /\ Fail("panic")
         \/ /\ full /\ 2 * size <= IsizeMax
            /\ \/ Hold([buffers EXCEPT !["values"] = 2 * size], "growPairs")
               \/ Hold([buffers EXCEPT !["values"] = 2 * size, !["moved"] = size], "movePairs")
  /\ UNCHANGED <<ds, call, axis, product, count, used, edges>>

(* The pairs are in the new buffer and the old one is freed.                *)
MovePairs ==
  /\ pc = "movePairs"
  /\ Hold([buffers EXCEPT !["moved"] = 0], "growPairs")
  /\ UNCHANGED <<ds, call, axis, product, count, used, edges>>

-----------------------------------------------------------------------------

Next ==
  \/ Dispatch \/ ChargeScalar \/ ReadScalar
  \/ CountElements \/ CountAxis \/ CountDone
  \/ ChargeNumbers \/ ReadNumbers \/ NarrowU64 \/ BuildTensor \/ ShapeAxis \/ ShapeDone
  \/ ChargeWords \/ CollectWords \/ ChargeDefault \/ Synthesize
  \/ OneString \/ StringList \/ ChargeEdges
  \/ ChargeFixed \/ ChargeNothing \/ ChargeVlen \/ ReadStrings \/ CopyStrings \/ ReturnStrings
  \/ ChargePairs \/ PairUp \/ GrowPairs \/ MovePairs

Spec == Init /\ [][Next]_vars

-----------------------------------------------------------------------------
(***************************************************************************)
(* Properties.                                                             *)
(***************************************************************************)

Labels ==
  {"dispatch", "scalar", "readScalar", "count", "countAxis", "counted", "readNumbers",
   "narrow", "build", "shapeAxis", "chargeWords", "collectWords", "chargeDefault",
   "synthesize", "chargeStrings", "readStrings", "copyStrings", "strings", "chargePairs",
   "pairUp", "growPairs", "movePairs", "done", "failed"}

Outcomes ==
  {"none", "Io", "InvalidTensor", "InvalidGraph", "ReadLimitExceeded", "ReadCountLimitExceeded",
   "panic"}

(* The types: no product, count or ledger leaves usize.                     *)
TypeOK ==
  /\ ds \in Datasets /\ call \in Calls
  /\ pc \in Labels
  /\ axis \in Nat \ {0}
  /\ product \in Usize /\ count \in Usize
  /\ used \in Usize /\ edges \in Usize
  /\ buffers \in [Kinds -> Nat]
  /\ outcome \in Outcomes

(* What is made room for beyond what is asked for, while it is; the second  *)
(* buffer a conversion of strings builds is that of the pairs.              *)
TextRounding == IF buffers["text"] = 0 THEN 0 ELSE count * (MinText - 1)

MostPairs == IF 3 * EdgeCount < FirstPairs THEN FirstPairs ELSE 3 * EdgeCount

PairRounding ==
  IF ds.class \in Textual /\ buffers["values"] # 0
  THEN (MostPairs - EdgeCount) * PairSize ELSE 0

(* `Charge before allocation' (ReadBudget::charge): under a limit, every    *)
(* byte that is live at any moment of the decoding has been charged, but    *)
(* for the room of short copied strings, at most MinText less one byte      *)
(* each, and for the room of the edge pairs: the few that collect begins    *)
(* with or, while a full vector moves to one twice its size, three times    *)
(* the pairs that were charged.                                             *)
PaidBeforeHeld ==
  call.limit # NoLimit => Held <= used - call.start + TextRounding + PairRounding

(* allocation_bytes: no buffer is ever asked of the allocator that exceeds  *)
(* the largest object, with or without a limit, although the second buffer  *)
(* of a conversion goes through the plain charge, which an unlimited read   *)
(* lets an overflow pass, and the vector of pairs outgrows its charge.      *)
BuffersFitObjects ==
  \A k \in {"raw", "headers", "values", "moved"} : buffers[k] <= IsizeMax

=============================================================================
