--------------------------- MODULE DatasetContract ---------------------------
(***************************************************************************)
(* What decoding a dataset promises, against three descriptions of it that *)
(* are not its own: the documented charging rules of ReadOptions, the      *)
(* documented shape products, and the one-step decoding of GraphReader.    *)
(***************************************************************************)
EXTENDS DatasetDecoder

(* The products of a shape's axes from the left, in plain arithmetic.       *)
Products(shape) ==
  LET p[n \in 0 .. Len(shape)] == IF n = 0 THEN 1 ELSE p[n - 1] * shape[n]
  IN  p

TrueCount == IF ds.null THEN 0 ELSE Products(ds.extents)[Len(ds.extents)]

Finished == pc \in {"done", "failed"}

(* What the rules listed at ReadOptions charge for the dataset.             *)
NumberCost ==
  TrueCount * (ElementSize[ds.class]
               + (IF ds.class = "u64" THEN ElementSize["int"] ELSE 0)
               + (IF call.want = "extents" THEN WordSize ELSE 0)
               + (IF call.want = "default" THEN DtypeSize ELSE 0))

VlenCost  == TrueCount * (ElementSize["vlen"] + HeaderSize) + 2 * VlenPayload
FixedCost == IF Wide THEN 0 ELSE TrueCount * (Capacity + HeaderSize + ds.width)

DocumentedCost ==
  IF ScalarNumber THEN ScalarSize
  ELSE IF ReadsTensor THEN NumberCost
  ELSE IF call.want = "edges" /\ TrueCount = 0 THEN 0
  ELSE CASE ds.class = "vlen"  -> VlenCost
         [] ds.class = "fixed" -> FixedCost
         [] OTHER              -> 0

(* The documented rules list no charge for the pairs read_edges collects.   *)
FullCost ==
  DocumentedCost + (IF call.want = "edges" THEN (TrueCount \div 2) * PairSize ELSE 0)

(* ReadOptions::max_bytes: a limited read that succeeds has charged exactly *)
(* the documented rules, and the edge pairs.                                *)
ChargesExactly ==
  pc = "done" /\ call.limit # NoLimit => used = call.start + FullCost

(* A dataset whose size no usize or no single object can hold.              *)
Unholdable ==
  \/ TooWideExtent
  \/ TrueCount > UsizeMax
  \/ ReadsTensor /\ TrueCount * ElementSize[ds.class] > IsizeMax
  \/ ds.class = "vlen" /\ (\/ TrueCount * ElementSize["vlen"] > IsizeMax
                           \/ VlenPayload > IsizeMax)
  \/ ~ReadsTensor /\ TrueCount * HeaderSize > IsizeMax
  \/ ds.class = "fixed" /\ ~Wide /\ TrueCount * Capacity > IsizeMax

(* `All arithmetic is checked; overflow is treated as over budget': a limit *)
(* refuses a dataset only if its true cost passes the limit or a buffer can *)
(* not exist, and never because a sum or product wrapped.                   *)
RefusedOnlyOverBudget ==
  outcome = "ReadLimitExceeded" =>
    /\ call.limit # NoLimit
    /\ call.start + FullCost > call.limit \/ Unholdable

(* checked_shape_product: the count is the mathematical product, zero       *)
(* whatever the other extents are, but no extent that fits no usize passes. *)
CountsMathematically ==
  pc = "counted" =>
    /\ \A i \in DOMAIN ds.extents : ds.extents[i] \in Usize
    /\ count = TrueCount

-----------------------------------------------------------------------------
(***************************************************************************)
(* GraphReader decodes a dataset in one step, from a description of it.    *)
(***************************************************************************)
CONSTANTS Anything  \* what GraphReader's parameters are when it decodes nothing else

(* The description: the tensor's charge, or the strings'; without a limit   *)
(* only the part of a VLEN charge that is known beforehand is computed.     *)
DescribedCost ==
  IF ScalarNumber THEN ScalarSize
  ELSE IF ds.class \in Numeric THEN NumericRequest
  ELSE CASE ds.class = "vlen" -> IF call.limit = NoLimit THEN VlenMinimum ELSE VlenRequest
         [] ds.class = "fixed" /\ ~Wide -> FixedRequest
         [] OTHER -> 0

ZeroHidesOverflow ==
  TrueCount = 0 /\ \E n \in 1 .. Len(ds.extents) : Products(ds.extents)[n] > UsizeMax

Described ==
  [secure  |-> TRUE,
   class   |-> CASE ds.class \in {"f32", "f64"} -> "float"
                 [] ds.class \in {"int", "u64"} -> "int"
                 [] ds.class = "vlen" -> "string"
                 [] ds.class = "fixed" -> IF Wide THEN "wide" ELSE "string"
                 [] OTHER -> ds.class,
   rank    |-> IF Len(ds.extents) < 2 THEN Len(ds.extents) ELSE 2,
   paired  |-> EdgeShape,
   count   |-> IF TooWideExtent \/ TrueCount > UsizeMax THEN Overflow ELSE TrueCount,
   cost    |-> DescribedCost,
   bytes   |-> IF ds.class \in Numeric THEN TrueCount * DtypeSize ELSE 0,
   payload |-> CASE ds.class = "u64" /\ ds.values = "big" -> "unfit"
                 [] ~ScalarNumber /\ (ds.null \/ ZeroHidesOverflow) -> "unfit"
                 [] OTHER -> IF ds.values = "negative" THEN "negative" ELSE "fine",
   value   |-> "text"]

Reader == INSTANCE GraphReader WITH
  Groups <- {}, Datasets <- {}, Root <- Anything, Names <- {}, NoName <- Anything,
  NoLink <- Anything, Rank <- Anything, Values <- {"text"}, NoVersion <- Anything,
  MajorOf <- Anything, Reads <- {}, FieldPlan <- Anything, MaxGraphs <- 1,
  file <- Anything, version <- Anything, frame <- Anything, callers <- <<>>,
  visited <- <<>>, tree <- {}, error <- outcome, followed <- {},
  call <- [limit |-> [bytes |-> call.limit, edges |-> call.edgeLimit]],
  used <- [bytes |-> call.start, edges |-> call.edges]

(* A synthesized default is a second charge, for the tensor's bytes again.  *)
WantOf == IF call.want = "default" THEN "tensor" ELSE call.want

DefaultRefused ==
  call.want = "default" /\ ~Reader!Fits(CheckedAdd(Described.cost, Described.bytes))

DescribedOutcome ==
  LET verdict == Reader!Verdict(Described, WantOf)
  IN  IF verdict = "none" /\ DefaultRefused THEN "ReadLimitExceeded" ELSE verdict

(* The steps of the decoder add up to the step GraphReader takes: the same  *)
(* verdict, so the same first error, and the same bytes on the ledger.  A   *)
(* VLEN payload no usize holds is the failing HDF5 call of that model; not  *)
(* in it is the panic of the vector of pairs, which needs more than half as *)
(* many bytes for the pairs themselves as the largest object has.           *)
DecodesAsDescribed ==
  /\ Finished =>
       \/ outcome = DescribedOutcome
       \/ outcome = "Io" /\ ds.class = "vlen" /\ VlenPayload \notin Usize
       \/ outcome = "panic" /\ 2 * (EdgeCount * PairSize) > IsizeMax
  /\ pc = "done" /\ call.limit # NoLimit =>
       used = call.start + Reader!Cost(Described, WantOf)
                + (IF call.want = "default" THEN Described.bytes ELSE 0)

=============================================================================
