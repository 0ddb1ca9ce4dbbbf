------------------------- MODULE DatasetContractProofs ------------------------
(***************************************************************************)
(* What decoding a dataset promises, for every shape, element type, call   *)
(* and machine.  First its costs: every byte a limited read holds was      *)
(* charged first, and no buffer of any read exceeds the largest object;    *)
(* the inductive invariant says at each step which buffers are live, and   *)
(* that the ledger has paid for them and for those the next steps build.   *)
(* Then the contract: the count is the product in plain arithmetic, a      *)
(* success has charged the documented bytes exactly, a refusal is never a  *)
(* wrapped sum, and the steps add up to the one step GraphReader takes.    *)
(***************************************************************************)
EXTENDS DatasetContract, Induction, TLAPS

Limited == call.limit # NoLimit
Spent   == used - call.start

Live(raw, heap, headers, text, values) ==
  /\ buffers["raw"] = raw
  /\ buffers["heap"] = heap
  /\ buffers["headers"] = headers
  /\ buffers["text"] = text
  /\ buffers["values"] = values
  /\ buffers["moved"] = 0

RawStrings == IF ds.class = "vlen" THEN Elements("vlen") ELSE FixedRaw
HeapBytes  == IF ds.class = "vlen" THEN ds.heap ELSE 0
TextBytes  == IF ds.class = "vlen" THEN ds.heap ELSE FixedText

NumberBytes == Elements(ds.class)
SecondBytes == IF ds.class = "u64" THEN Elements("int") ELSE 0

EmptyLabels ==
  {"dispatch", "scalar", "readScalar", "count", "countAxis", "counted", "readNumbers",
   "chargeStrings", "readStrings", "failed"}

TensorLabels == {"shapeAxis", "chargeWords", "collectWords", "chargeDefault", "synthesize"}
NumberLabels == {"readNumbers", "narrow", "build"} \cup TensorLabels
StringLabels == {"copyStrings", "strings", "chargePairs", "pairUp", "growPairs", "movePairs"}
EdgeLabels   == {"chargeStrings", "readStrings"} \cup StringLabels

LedgerInv == Limited => call.start <= used

BufferInv ==
  /\ pc \in EmptyLabels => Live(0, 0, 0, 0, 0)
  /\ pc = "narrow" => Live(NumberBytes, 0, 0, 0, 0)
  /\ pc = "build" => Live(NumberBytes, 0, 0, 0, SecondBytes)
  /\ pc \in TensorLabels => Live(NumberBytes, 0, 0, 0, 0)
  /\ pc = "copyStrings" => Live(RawStrings, HeapBytes, 0, 0, 0)
  /\ pc = "strings" => Live(RawStrings, HeapBytes, Headers, buffers["text"], 0)
  /\ pc \in {"chargePairs", "pairUp"} => Live(0, 0, Headers, buffers["text"], 0)
  /\ pc = "growPairs" => Live(0, 0, Headers, buffers["text"], buffers["values"])
  /\ pc = "movePairs" =>
       buffers["raw"] = 0 /\ buffers["heap"] = 0 /\ buffers["headers"] = Headers

ScalarInv ==
  /\ pc \in {"count", "countAxis", "counted"} /\ ReadsTensor => ds.class \in Numeric
  /\ pc \in {"scalar", "readScalar"} => ds.class \in Numeric
  /\ pc = "readScalar" /\ Limited => ScalarSize <= Spent

NumberInv ==
  /\ pc \in NumberLabels => ds.class \in Numeric
  /\ pc \in NumberLabels => NumericRequest # Overflow
  /\ pc \in NumberLabels /\ Limited => NumericRequest <= Spent
  /\ pc = "narrow" => ds.class = "u64"
  /\ pc \in {"chargeWords", "collectWords"} => ds.class \in {"int", "u64"}
  /\ pc = "collectWords" /\ Limited => NumericRequest + count * WordSize <= Spent
  /\ pc = "synthesize" /\ Limited => NumericRequest + count * DtypeSize <= Spent

StringBytes == RawStrings + HeapBytes + Headers + TextBytes

StringsFit ==
  /\ RawStrings # Overflow /\ Headers # Overflow /\ TextBytes # Overflow
  /\ Limited => StringBytes <= Spent

(* The copied text is what was charged for it, but for its rounding.        *)
TextFits == buffers["text"] <= TextBytes + TextRounding

(* A buffer that is moved out of is no larger than the one moved into.      *)
PairsFit ==
  /\ buffers["moved"] <= buffers["values"] /\ buffers["values"] <= IsizeMax
  /\ buffers["values"] + buffers["moved"] <= MostPairs * PairSize

Readable == ds.class \in Textual /\ (ds.class = "fixed" => ~Wide)

StringInv ==
  /\ pc = "readStrings" /\ Readable => StringsFit
  /\ pc \in StringLabels => Readable /\ StringsFit
  /\ pc \in StringLabels \ {"copyStrings"} => TextFits
  /\ pc \in {"pairUp", "growPairs", "movePairs"} /\ Limited =>
       StringBytes + EdgeCount * PairSize <= Spent
  /\ pc \in {"growPairs", "movePairs"} => PairsFit

CountInv ==
  /\ pc \in {"dispatch", "count"} => axis = 1 /\ product = 1
  /\ pc = "countAxis" /\ Len(ds.extents) = 2 =>
       \/ axis = 1 /\ product = 1
       \/ axis = 2 /\ product = ds.extents[1]
       \/ axis = 3 /\ product = ds.extents[1] * ds.extents[2]
  /\ pc = "counted" /\ count # 0 /\ Len(ds.extents) = 2 =>
       count = ds.extents[1] * ds.extents[2]
  /\ pc \in EdgeLabels /\ call.want = "edges" => EdgeShape /\ count = EdgeCount * 2
  /\ pc \in {"chargePairs", "pairUp", "growPairs", "movePairs"} => call.want = "edges"

DoneInv == pc = "done" => PaidBeforeHeld /\ BuffersFitObjects

IInv ==
  /\ TypeOK /\ LedgerInv /\ BufferInv /\ ScalarInv
  /\ NumberInv /\ StringInv /\ CountInv /\ DoneInv

-----------------------------------------------------------------------------
(* Arithmetic of the ledger: what a request that is not Overflow equals.    *)

LEMMA MulFacts ==
  ASSUME NEW a \in Nat, NEW b \in Nat
  PROVE  /\ CheckedMul(a, b) \in Requests
         /\ CheckedMul(a, b) # Overflow => CheckedMul(a, b) = a * b
         /\ a * b <= UsizeMax => CheckedMul(a, b) = a * b
<1>1. a \in Int /\ b \in Int /\ a * b \in Nat
  OBVIOUS
<1>2. a # Overflow /\ b # Overflow
  BY OverflowAssumption
<1>3. CASE a * b <= UsizeMax
  <2>1. CheckedMul(a, b) = a * b
    BY <1>2, <1>3 DEF CheckedMul
  <2>2. a * b \in Usize
    BY <1>1, <1>3, UsizeAssumption DEF Usize
  <2>3. QED
    BY <2>1, <2>2 DEF Requests
<1>4. CASE ~(a * b <= UsizeMax)
  <2>1. CheckedMul(a, b) = Overflow
    BY <1>4 DEF CheckedMul
  <2>2. QED
    BY <2>1, <1>4 DEF Requests
<1>5. QED
  BY <1>3, <1>4

LEMMA AddFacts ==
  ASSUME NEW a \in Requests, NEW b \in Requests
  PROVE  /\ CheckedAdd(a, b) \in Requests
         /\ CheckedAdd(a, b) # Overflow =>
              a # Overflow /\ b # Overflow /\ CheckedAdd(a, b) = a + b
BY UsizeAssumption, OverflowAssumption DEF CheckedAdd, Requests, Usize

LEMMA AllocationFacts ==
  ASSUME NEW n \in Nat, NEW width \in Nat
  PROVE  /\ AllocationBytes(n, width) \in Requests
         /\ AllocationBytes(n, width) # Overflow =>
              /\ AllocationBytes(n, width) = n * width
              /\ AllocationBytes(n, width) \in Nat
              /\ AllocationBytes(n, width) <= IsizeMax
         /\ AllocationBytes(n, width) = Overflow => n * width > IsizeMax
<1>1. n * width \in Nat /\ IsizeMax \in Nat /\ IsizeMax <= UsizeMax
  BY DecoderAssumption, UsizeAssumption DEF Usize
<1>2. CASE n * width <= UsizeMax
  BY <1>1, <1>2, MulFacts, OverflowAssumption, UsizeAssumption
     DEF AllocationBytes, Requests, Usize
<1>3. CASE n * width > UsizeMax
  <2>1. CheckedMul(n, width) = Overflow
    BY <1>3, <1>1, UsizeAssumption DEF CheckedMul
  <2>2. QED
    BY <2>1, <1>1, <1>3, UsizeAssumption DEF AllocationBytes, Requests, Usize
<1>4. QED
  BY <1>1, <1>2, <1>3, UsizeAssumption

(* A ladder of capacities has a smallest rung wide enough, if it has one.   *)
LEMMA LadderFacts ==
  ASSUME NEW S \in SUBSET Nat, S # {}
  PROVE  Min(S) \in S
<1>1. PICK x \in S : \A y \in S : ~(<<y, x>> \in OpToRel(<, Nat))
  BY NatLessThanWellFounded, WFMin
<1>2. \A y \in S : x <= y
  <2>1. SUFFICES ASSUME NEW y \in S PROVE x <= y
    OBVIOUS
  <2>2. x \in Nat /\ y \in Nat
    OBVIOUS
  <2>3. y < x => <<y, x>> \in OpToRel(<, Nat)
    BY <2>2 DEF OpToRel
  <2>4. ~(y < x)
    BY <1>1, <2>3
  <2>5. QED
    BY <2>2, <2>4
<1>3. QED
  BY <1>2 DEF Min

-----------------------------------------------------------------------------
(* Sizes of a dataset: what each buffer's request equals once admitted.     *)

LEMMA Typing ==
  ASSUME TypeOK
  PROVE  /\ ds.extents \in Seq(Nat)
         /\ ds.class \in Numeric \cup Textual \cup {"opaque"}
         /\ ds.width \in Nat /\ ds.heap \in Nat
         /\ call.limit \in Limits /\ call.edgeLimit \in Limits
         /\ call.start \in Usize
         /\ count \in Nat /\ used \in Nat /\ product \in Nat
         /\ VlenPayload \in Nat /\ ds.heap <= VlenPayload
<1>1. ds \in DatasetRecords /\ call \in CallRecords
  BY DecoderAssumption DEF TypeOK
<1>2. ds.extents = <<>> => ds.heap <= FileSize
  BY DecoderAssumption DEF TypeOK
<1>3. ds.heap \in Nat /\ FileSize \in Nat
  BY <1>1, DecoderAssumption DEF DatasetRecords
<1>4. VlenPayload \in Nat /\ ds.heap <= VlenPayload
  BY <1>2, <1>3 DEF VlenPayload
<1>5. QED
  BY <1>1, <1>4, UsizeAssumption DEF DatasetRecords, CallRecords, TypeOK, Usize

LEMMA MachineFacts ==
  /\ IsizeMax \in Nat /\ HeaderSize \in Nat /\ WordSize \in Nat /\ UsizeMax \in Nat
  /\ IsizeMax <= UsizeMax
  /\ \A c \in Numeric \cup {"vlen"} : ElementSize[c] \in Nat
  /\ PairSize \in Nat
BY DecoderAssumption, UsizeAssumption DEF Usize

LEMMA TimesGrow ==
  ASSUME NEW a \in Nat, NEW b \in Nat, NEW c \in Nat, a <= b
  PROVE  a * c <= b * c /\ a * c \in Nat /\ b * c \in Nat
<1>1. PICK d \in Nat : b = a + d
  <2>1. b - a \in Nat /\ b = a + (b - a)
    OBVIOUS
  <2>2. QED
    BY <2>1
<1>2. b * c = a * c + d * c /\ d * c \in Nat /\ a * c \in Nat
  BY <1>1
<1>3. QED
  BY <1>2

LEMMA ElementsFacts ==
  ASSUME TypeOK, NEW class \in Numeric \cup {"vlen"}
  PROVE  /\ Elements(class) \in Requests
         /\ Elements(class) # Overflow =>
              /\ Elements(class) = count * ElementSize[class]
              /\ Elements(class) \in Nat
              /\ Elements(class) <= IsizeMax
BY Typing, MachineFacts, AllocationFacts DEF Elements

LEMMA HeadersFacts ==
  ASSUME TypeOK
  PROVE  /\ Headers \in Requests
         /\ Headers # Overflow =>
              Headers = count * HeaderSize /\ Headers \in Nat /\ Headers <= IsizeMax
BY Typing, MachineFacts, AllocationFacts DEF Headers

LEMMA PayloadFacts ==
  ASSUME TypeOK
  PROVE  /\ Payload \in Requests
         /\ Payload # Overflow => Payload = VlenPayload
<1>1. VlenPayload \in Nat /\ VlenPayload * 1 = VlenPayload
  BY Typing
<1>2. QED
  BY <1>1, AllocationFacts DEF Payload

LEMMA FixedFacts ==
  ASSUME TypeOK, ~Wide
  PROVE  /\ FixedRaw \in Requests /\ FixedText \in Requests
         /\ FixedRaw # Overflow => FixedRaw \in Nat /\ FixedRaw <= IsizeMax
         /\ FixedText # Overflow => FixedText \in Nat
<1>1. Rungs \in SUBSET Nat /\ Rungs # {}
  <2>1. FixedCaps \subseteq Nat
    BY DecoderAssumption, UsizeAssumption DEF Usize
  <2>2. QED
    BY <2>1 DEF Rungs, Wide
<1>2. Capacity \in Nat
  BY <1>1, LadderFacts DEF Capacity
<1>3. QED
  BY <1>2, Typing, AllocationFacts DEF FixedRaw, FixedText

LEMMA NumericFacts ==
  ASSUME TypeOK, ds.class \in Numeric
  PROVE  /\ NumericRequest \in Requests
         /\ NumericRequest # Overflow =>
              /\ NumberBytes \in Nat /\ NumberBytes <= IsizeMax
              /\ SecondBytes \in Nat /\ SecondBytes <= IsizeMax
              /\ NumberBytes = count * DtypeSize
              /\ NumericRequest = NumberBytes + SecondBytes
<1>1. NumberBytes \in Requests /\ Elements("int") \in Requests /\ Elements("u64") \in Requests
  BY ElementsFacts DEF NumberBytes, Numeric
<1>2. CASE ds.class = "u64"
  <2>1. NumericRequest = CheckedAdd(Elements("u64"), Elements("int"))
    BY <1>2 DEF NumericRequest
  <2>2. SecondBytes = Elements("int") /\ NumberBytes = Elements("u64")
    BY <1>2 DEF SecondBytes, NumberBytes
  <2>3. NumericRequest \in Requests
    BY <1>1, <2>1, AddFacts
  <2>4. ASSUME NumericRequest # Overflow
        PROVE  /\ Elements("u64") # Overflow /\ Elements("int") # Overflow
               /\ NumericRequest = Elements("u64") + Elements("int")
    BY <1>1, <2>1, <2>4, AddFacts
  <2>5. QED
    BY <1>2, <2>2, <2>3, <2>4, ElementsFacts DEF Numeric, DtypeSize
<1>3. CASE ds.class # "u64"
  <2>1. NumericRequest = NumberBytes /\ SecondBytes = 0
    BY <1>3 DEF NumericRequest, SecondBytes, NumberBytes
  <2>2. NumberBytes # Overflow =>
          /\ NumberBytes \in Nat /\ NumberBytes <= IsizeMax
          /\ NumberBytes = count * DtypeSize
    BY ElementsFacts DEF NumberBytes, DtypeSize
  <2>3. QED
    BY <1>1, <2>1, <2>2, MachineFacts
<1>4. QED
  BY <1>2, <1>3

LEMMA FixedRequestFacts ==
  ASSUME TypeOK, ds.class = "fixed", ~Wide
  PROVE  /\ FixedRequest \in Requests
         /\ FixedRequest # Overflow =>
              /\ RawStrings # Overflow /\ Headers # Overflow /\ TextBytes # Overflow
              /\ FixedRequest = StringBytes
<1>1. RawStrings = FixedRaw /\ HeapBytes = 0 /\ TextBytes = FixedText
  BY DEF RawStrings, HeapBytes, TextBytes
<1>2. FixedRaw \in Requests /\ FixedText \in Requests /\ Headers \in Requests
  BY FixedFacts, HeadersFacts
<1>3. CheckedAdd(FixedRaw, Headers) \in Requests
  BY <1>2, AddFacts
<1>4. FixedRequest \in Requests
  BY <1>2, <1>3, AddFacts DEF FixedRequest
<1>5. ASSUME FixedRequest # Overflow
      PROVE  /\ FixedRaw # Overflow /\ Headers # Overflow /\ FixedText # Overflow
             /\ FixedRequest = (FixedRaw + Headers) + FixedText
  <2>1. /\ CheckedAdd(FixedRaw, Headers) # Overflow /\ FixedText # Overflow
        /\ FixedRequest = CheckedAdd(FixedRaw, Headers) + FixedText
    BY <1>2, <1>3, <1>5, AddFacts DEF FixedRequest
  <2>2. QED
    BY <1>2, <2>1, AddFacts
<1>6. QED
  <2>1. ASSUME FixedRequest # Overflow PROVE FixedRequest = StringBytes
    <3>1. FixedRaw \in Nat /\ Headers \in Nat /\ FixedText \in Nat
      BY <1>5, <2>1, FixedFacts, HeadersFacts
    <3>2. StringBytes = FixedRaw + 0 + Headers + FixedText
      BY <1>1 DEF StringBytes
    <3>3. QED
      BY <3>1, <3>2, <1>5, <2>1
  <2>2. QED
    BY <1>1, <1>4, <1>5, <2>1

LEMMA VlenFacts ==
  ASSUME TypeOK, ds.class = "vlen"
  PROVE  /\ VlenMinimum \in Requests /\ VlenRequest \in Requests
         /\ VlenMinimum # Overflow =>
              RawStrings # Overflow /\ Headers # Overflow /\ TextBytes # Overflow
         /\ VlenRequest # Overflow =>
              /\ RawStrings # Overflow /\ Headers # Overflow /\ TextBytes # Overflow
              /\ StringBytes <= VlenRequest
<1>1. /\ RawStrings = Elements("vlen") /\ HeapBytes = ds.heap /\ TextBytes = ds.heap
  BY DEF RawStrings, HeapBytes, TextBytes
<1>2. /\ Elements("vlen") \in Requests /\ Headers \in Requests /\ Payload \in Requests
  BY ElementsFacts, HeadersFacts, PayloadFacts
<1>3. ds.heap # Overflow /\ ds.heap \in Nat /\ ds.heap <= VlenPayload /\ VlenPayload \in Nat
  BY Typing, OverflowAssumption
<1>4. VlenMinimum \in Requests
      /\ (VlenMinimum # Overflow => Elements("vlen") # Overflow /\ Headers # Overflow)
  BY <1>2, AddFacts DEF VlenMinimum
<1> DEFINE one == CheckedAdd(Elements("vlen"), Payload)
           two == CheckedAdd(one, Headers)
<1>5. one \in Requests
      /\ (one # Overflow => Elements("vlen") # Overflow /\ Payload # Overflow
                            /\ one = Elements("vlen") + Payload)
  BY <1>2, AddFacts
<1>6. two \in Requests
      /\ (two # Overflow => one # Overflow /\ Headers # Overflow /\ two = one + Headers)
  <2> HIDE DEF one
  <2>1. QED
    BY <1>2, <1>5, AddFacts
<1>7. VlenRequest \in Requests
      /\ (VlenRequest # Overflow => two # Overflow /\ Payload # Overflow
                                    /\ VlenRequest = two + Payload)
  <2>1. VlenRequest = CheckedAdd(two, Payload)
    BY DEF VlenRequest
  <2> HIDE DEF two
  <2>2. QED
    BY <2>1, <1>2, <1>6, AddFacts
<1> HIDE DEF one, two
<1>8. ASSUME VlenRequest # Overflow
      PROVE  /\ Elements("vlen") # Overflow /\ Headers # Overflow
             /\ StringBytes <= VlenRequest
  <2>1. /\ Elements("vlen") # Overflow /\ Headers # Overflow /\ Payload # Overflow
        /\ VlenRequest = ((Elements("vlen") + Payload) + Headers) + Payload
    BY <1>5, <1>6, <1>7, <1>8
  <2>2. Elements("vlen") \in Nat /\ Headers \in Nat /\ Payload = VlenPayload
    BY <2>1, ElementsFacts, HeadersFacts, PayloadFacts
  <2>3. StringBytes = Elements("vlen") + ds.heap + Headers + ds.heap
    BY <1>1 DEF StringBytes
  <2>4. QED
    BY <2>1, <2>2, <2>3, <1>3
<1>9. QED
  BY <1>1, <1>3, <1>4, <1>7, <1>8

-----------------------------------------------------------------------------
(* Steps: what a charge does, what a failure keeps, what a step that leaves *)
(* the dataset and its count alone leaves alone.                            *)

LEMMA ChargeFacts ==
  ASSUME TypeOK, LedgerInv, NEW req \in Requests, NEW next, Charge(req, next)
  PROVE  \/ /\ pc' = "failed" /\ outcome' = "ReadLimitExceeded"
            /\ buffers' = NoBuffers /\ used' = used
         \/ /\ pc' = next /\ buffers' = buffers /\ outcome' = outcome
            /\ used' \in Usize /\ used' >= used
            /\ Limited => req # Overflow /\ used' = used + req
<1>1. used \in Usize /\ used \in Requests
  BY DEF TypeOK, Requests
<1>2. CASE Admits(call.limit, used, req) /\ Limited
  <2>1. CheckedAdd(used, req) # Overflow
    BY <1>2 DEF Admits, Limited
  <2>2. req # Overflow /\ CheckedAdd(used, req) = used + req /\ CheckedAdd(used, req) \in Requests
    BY <1>1, <2>1, AddFacts
  <2>3. used' = used + req /\ pc' = next /\ buffers' = buffers /\ outcome' = outcome
    BY <1>2 DEF Charge, Charged, Goto, Limited
  <2>4. QED
    BY <1>1, <2>1, <2>2, <2>3, UsizeAssumption DEF Requests, Usize
<1>3. CASE ~Limited
  <2>1. used' = used /\ pc' = next /\ buffers' = buffers /\ outcome' = outcome
    BY <1>3 DEF Charge, Charged, Goto, Limited, Admits
  <2>2. QED
    BY <1>1, <1>3, <2>1, UsizeAssumption DEF Usize
<1>4. CASE ~Admits(call.limit, used, req)
  BY <1>4 DEF Charge, Fail
<1>5. QED
  BY <1>2, <1>3, <1>4

LEMMA ChargeAllocationFacts ==
  ASSUME TypeOK, LedgerInv, NEW req \in Requests, NEW next, ChargeAllocation(req, next)
  PROVE  \/ /\ pc' = "failed" /\ outcome' \in {"ReadLimitExceeded", "InvalidTensor"}
            /\ buffers' = NoBuffers /\ used' = used
         \/ /\ pc' = next /\ buffers' = buffers /\ outcome' = outcome
            /\ used' \in Usize /\ used' >= used /\ req # Overflow
            /\ Limited => used' = used + req
<1>1. CASE call.limit = NoLimit /\ req = Overflow /\ Fail("InvalidTensor") /\ used' = used
  BY <1>1 DEF Fail
<1>2. CASE (call.limit # NoLimit \/ req # Overflow) /\ Charge(req, next)
  BY <1>2, ChargeFacts DEF Limited
<1>3. QED
  BY <1>1, <1>2 DEF ChargeAllocation

Steady == ds' = ds /\ call' = call

LEMMA SizesStay ==
  ASSUME Steady, count' = count
  PROVE  /\ NumberBytes' = NumberBytes /\ SecondBytes' = SecondBytes
         /\ NumericRequest' = NumericRequest /\ ScalarSize' = ScalarSize
         /\ RawStrings' = RawStrings /\ HeapBytes' = HeapBytes
         /\ Headers' = Headers /\ TextBytes' = TextBytes /\ StringBytes' = StringBytes
         /\ DtypeSize' = DtypeSize /\ EdgeCount' = EdgeCount
         /\ EdgeShape' = EdgeShape /\ Readable' = Readable
         /\ Limited' = Limited
<1>1. /\ \A c : AllocationBytes(count', c) = AllocationBytes(count, c)
      /\ Capacity' = Capacity /\ Wide' = Wide
  BY DEF Steady, Capacity, Wide, Rungs
<1>2. QED
  BY <1>1 DEF Steady, NumberBytes, SecondBytes, NumericRequest, ScalarSize, RawStrings,
     HeapBytes, Headers, TextBytes, StringBytes, DtypeSize, EdgeCount, EdgeShape, Readable,
     Limited, Elements, FixedRaw, FixedText

LEMMA NoBuffersFacts ==
  /\ NoBuffers \in [Kinds -> Nat]
  /\ \A k \in Kinds : NoBuffers[k] = 0
BY DEF NoBuffers

(* The variables an error leaves, and those any error resets.               *)
LEMMA FailureKeeps ==
  ASSUME IInv, Steady, pc' = "failed", buffers' = NoBuffers, outcome' \in Outcomes,
         used' = used, axis' \in Nat \ {0}, product' \in Usize, count' \in Usize,
         edges' \in Usize
  PROVE  IInv'
<1>1. TypeOK'
  BY NoBuffersFacts DEF IInv, TypeOK, Steady, Labels
<1>2. LedgerInv'
  BY DEF IInv, LedgerInv, Steady, Limited
<1>3. BufferInv'
  BY NoBuffersFacts DEF BufferInv, Live, Kinds, TensorLabels
<1>4. ScalarInv' /\ NumberInv' /\ StringInv' /\ CountInv' /\ DoneInv'
  BY DEF ScalarInv, NumberInv, StringInv, CountInv, DoneInv, NumberLabels, TensorLabels,
     StringLabels, EdgeLabels
<1>5. QED
  BY <1>1, <1>2, <1>3, <1>4 DEF IInv

-----------------------------------------------------------------------------
(* Counting. *)

LEMMA InitEstablishes == Init => IInv
<1> SUFFICES ASSUME Init PROVE IInv
  OBVIOUS
<1>1. call \in CallRecords
  BY DecoderAssumption DEF Init
<1>2. TypeOK
  BY <1>1, NoBuffersFacts, UsizeAssumption
     DEF Init, TypeOK, Labels, Outcomes, CallRecords, Usize
<1>3. LedgerInv
  BY <1>1, UsizeAssumption DEF Init, LedgerInv, Limited, CallRecords, Usize
<1>4. BufferInv
  BY NoBuffersFacts DEF Init, BufferInv, Live, Kinds, TensorLabels
<1>5. ScalarInv /\ NumberInv /\ StringInv /\ CountInv /\ DoneInv
  BY DEF Init, ScalarInv, NumberInv, StringInv, CountInv, DoneInv, NumberLabels,
     TensorLabels, StringLabels, EdgeLabels
<1>6. QED
  BY <1>2, <1>3, <1>4, <1>5 DEF IInv

(* A step between labels where nothing is live and nothing new is claimed.  *)
LEMMA QuietStep ==
  ASSUME IInv, Steady, pc \in EmptyLabels, pc' \in {"scalar", "count", "countAxis", "counted"},
         pc = "dispatch" /\ (pc' = "scalar" \/ ReadsTensor) => ds.class \in Numeric,
         pc' = "scalar" => pc = "dispatch",
         pc # "dispatch" => pc \in {"count", "countAxis", "counted"},
         buffers' = buffers, outcome' = outcome, used' = used, edges' = edges,
         axis' \in Nat \ {0}, product' \in Usize, count' \in Usize, CountInv'
  PROVE  IInv'
<1>1. TypeOK'
  BY DEF IInv, TypeOK, Steady, Labels
<1>2. LedgerInv'
  BY DEF IInv, LedgerInv, Steady, Limited
<1>3. BufferInv'
  BY DEF IInv, BufferInv, Live, EmptyLabels, TensorLabels
<1>4. ScalarInv'
  BY DEF IInv, ScalarInv, Steady, ReadsTensor
<1>5. NumberInv' /\ StringInv' /\ DoneInv'
  BY DEF NumberInv, StringInv, DoneInv, NumberLabels, TensorLabels,
     StringLabels, EdgeLabels
<1>6. QED
  BY <1>1, <1>2, <1>3, <1>4, <1>5 DEF IInv

LEMMA DispatchKeeps == IInv /\ Dispatch => IInv'
<1> SUFFICES ASSUME IInv, Dispatch PROVE IInv'
  OBVIOUS
<1>1. Steady /\ axis' = axis /\ product' = product /\ count' = count /\ used' = used
      /\ edges' = edges /\ pc = "dispatch"
  BY DEF Dispatch, Steady
<1>2. axis \in Nat \ {0} /\ product \in Usize /\ count \in Usize /\ edges \in Usize
  BY DEF IInv, TypeOK
<1>3. CASE Refused /\ Fail("InvalidTensor")
  BY <1>1, <1>2, <1>3, FailureKeeps DEF Fail, Outcomes
<1>4. CASE ~Refused /\ Goto(IF ScalarNumber THEN "scalar" ELSE "count")
  <2>1. CountInv'
    BY <1>1, <1>4 DEF IInv, Goto, CountInv, EdgeLabels, StringLabels
  <2>2. pc' = "scalar" \/ ReadsTensor => ds.class \in Numeric
    BY <1>4 DEF Goto, ScalarNumber, Refused, ReadsTensor
  <2>3. QED
    BY <1>1, <1>2, <1>4, <2>1, <2>2, QuietStep DEF Goto, EmptyLabels
<1>5. QED
  BY <1>3, <1>4 DEF Dispatch

LEMMA CountElementsKeeps == IInv /\ CountElements => IInv'
<1> SUFFICES ASSUME IInv, CountElements PROVE IInv'
  OBVIOUS
<1>1. Steady /\ axis' = axis /\ product' = product /\ count' = 0 /\ used' = used
      /\ edges' = edges /\ pc = "count"
  BY DEF CountElements, Steady
<1>2. axis \in Nat \ {0} /\ product \in Usize /\ edges \in Usize /\ 0 \in Usize
  BY UsizeAssumption DEF IInv, TypeOK, Usize
<1>3. CASE Uncountable
  BY <1>1, <1>2, <1>3, FailureKeeps DEF Uncountable, Fail, Outcomes
<1>4. CASE Goto("counted")
  <2>1. CountInv'
    BY <1>1, <1>4 DEF Goto, CountInv, EdgeLabels, StringLabels
  <2>2. QED
    BY <1>1, <1>2, <1>4, <2>1, QuietStep DEF Goto, EmptyLabels
<1>5. CASE Goto("countAxis")
  <2>1. axis = 1 /\ product = 1
    BY <1>1 DEF IInv, CountInv
  <2>2. CountInv'
    BY <1>1, <1>5, <2>1 DEF Goto, CountInv, EdgeLabels, StringLabels
  <2>3. QED
    BY <1>1, <1>2, <1>5, <2>2, QuietStep DEF Goto, EmptyLabels
<1>6. QED
  BY <1>3, <1>4, <1>5 DEF CountElements

LEMMA CountAxisKeeps == IInv /\ CountAxis => IInv'
<1> SUFFICES ASSUME IInv, CountAxis PROVE IInv'
  OBVIOUS
<1> DEFINE next == CheckedMul(product, ds.extents[axis])
<1>1. Steady /\ count' = count /\ used' = used /\ edges' = edges /\ pc = "countAxis"
      /\ axis <= Len(ds.extents)
  BY DEF CountAxis, Steady
<1>2. axis \in Nat \ {0} /\ product \in Usize /\ product \in Nat /\ edges \in Usize
      /\ count \in Usize /\ ds.extents \in Seq(Nat)
  BY Typing DEF IInv, TypeOK
<1>3. ds.extents[axis] \in Nat
  BY <1>1, <1>2
<1>4. next \in Requests /\ (next # Overflow => next = product * ds.extents[axis])
  BY <1>2, <1>3, MulFacts
<1>5. CASE Uncountable /\ axis' = axis /\ product' = product
  BY <1>1, <1>2, <1>5, FailureKeeps DEF Uncountable, Fail, Outcomes
<1>6. CASE /\ next # Overflow /\ product' = next /\ axis' = axis + 1
           /\ pc' = pc /\ buffers' = buffers /\ outcome' = outcome
  <2>1. product' \in Usize /\ axis' \in Nat \ {0} /\ product' = product * ds.extents[axis]
    BY <1>2, <1>4, <1>6 DEF Requests
  <2>2. CountInv'
    <3>1. ASSUME Len(ds.extents) = 2
          PROVE  \/ axis' = 2 /\ product' = ds.extents[1]
                 \/ axis' = 3 /\ product' = ds.extents[1] * ds.extents[2]
      <4>1. \/ axis = 1 /\ product = 1
            \/ axis = 2 /\ product = ds.extents[1]
        BY <1>1, <3>1 DEF IInv, CountInv
      <4>2. CASE axis = 1 /\ product = 1
        BY <1>3, <1>6, <2>1, <4>2
      <4>3. CASE axis = 2 /\ product = ds.extents[1]
        BY <1>6, <2>1, <4>3
      <4>4. QED
        BY <4>1, <4>2, <4>3
    <3>2. QED
      BY <1>1, <1>6, <3>1 DEF CountInv, EdgeLabels, StringLabels, Steady
  <2>3. QED
    BY <1>1, <1>2, <1>6, <2>1, <2>2, QuietStep DEF EmptyLabels
<1>7. QED
  BY <1>5, <1>6 DEF CountAxis

LEMMA CountDoneKeeps == IInv /\ CountDone => IInv'
<1> SUFFICES ASSUME IInv, CountDone PROVE IInv'
  OBVIOUS
<1>1. Steady /\ count' = product /\ used' = used /\ edges' = edges /\ pc = "countAxis"
      /\ axis > Len(ds.extents) /\ axis' = axis /\ product' = product
      /\ pc' = "counted" /\ buffers' = buffers /\ outcome' = outcome
  BY DEF CountDone, Steady, Goto
<1>2. axis \in Nat \ {0} /\ product \in Usize /\ edges \in Usize
  BY DEF IInv, TypeOK
<1>3. CountInv'
  <2>1. Len(ds.extents) = 2 => product = ds.extents[1] * ds.extents[2]
    BY <1>1, <1>2 DEF IInv, CountInv
  <2>2. QED
    BY <1>1, <2>1 DEF CountInv, EdgeLabels, StringLabels, Steady
<1>4. QED
  BY <1>1, <1>2, <1>3, QuietStep DEF EmptyLabels

-----------------------------------------------------------------------------
(* Numbers. *)

LEMMA ChargeScalarKeeps == IInv /\ ChargeScalar => IInv'
<1> SUFFICES ASSUME IInv, ChargeScalar PROVE IInv'
  OBVIOUS
<1>1. Steady /\ axis' = axis /\ product' = product /\ count' = count
      /\ edges' = edges /\ pc = "scalar" /\ Charge(ScalarSize, "readScalar")
  BY DEF ChargeScalar, Steady
<1>2. ds.class \in Numeric /\ axis \in Nat \ {0} /\ product \in Usize /\ edges \in Usize
      /\ count \in Usize /\ TypeOK /\ LedgerInv
  BY <1>1 DEF IInv, ScalarInv, TypeOK
<1>3. ScalarSize \in Usize /\ ScalarSize \in Requests /\ ScalarSize # Overflow
      /\ ScalarSize \in Nat
  BY <1>2, DecoderAssumption, UsizeAssumption, OverflowAssumption
     DEF ScalarSize, Numeric, Requests, Usize
<1>4. CASE pc' = "failed" /\ outcome' = "ReadLimitExceeded" /\ buffers' = NoBuffers
           /\ used' = used
  BY <1>1, <1>2, <1>4, FailureKeeps DEF Outcomes
<1>5. CASE /\ pc' = "readScalar" /\ buffers' = buffers /\ outcome' = outcome
           /\ used' \in Usize /\ used' >= used
           /\ Limited => used' = used + ScalarSize
  <2>1. TypeOK'
    BY <1>1, <1>2, <1>5 DEF TypeOK, Steady, Labels
  <2>2. used \in Nat /\ call.start \in Nat /\ used' \in Nat
    BY <1>2, <1>5, Typing, UsizeAssumption DEF Usize
  <2>3. LedgerInv'
    BY <1>1, <1>2, <1>5, <2>2 DEF LedgerInv, Steady, Limited
  <2>4. BufferInv'
    BY <1>1, <1>5 DEF IInv, BufferInv, Live, EmptyLabels, TensorLabels
  <2>5. ScalarInv'
    <3>1. Limited => ScalarSize <= used' - call.start
      BY <1>2, <1>3, <1>5, <2>2 DEF LedgerInv
    <3>2. QED
      BY <1>1, <1>2, <1>5, <3>1, SizesStay DEF ScalarInv, Steady, Spent
  <2>6. NumberInv' /\ StringInv' /\ CountInv' /\ DoneInv'
    BY <1>5 DEF NumberInv, StringInv, CountInv, DoneInv, NumberLabels, TensorLabels,
       StringLabels, EdgeLabels
  <2>7. QED
    BY <2>1, <2>3, <2>4, <2>5, <2>6 DEF IInv
<1>6. QED
  BY <1>1, <1>2, <1>3, <1>4, <1>5, ChargeFacts

(* The end of a decoding: what is held was paid for, and each buffer fits.  *)
LEMMA DoneStep ==
  ASSUME IInv, Steady, pc' = "done", buffers' \in [Kinds -> Nat], outcome' = outcome,
         used' = used, edges' \in Usize,
         axis' = axis, product' = product, count' = count,
         PaidBeforeHeld', BuffersFitObjects'
  PROVE  IInv'
<1>1. TypeOK'
  BY DEF IInv, TypeOK, Steady, Labels
<1>2. LedgerInv'
  BY DEF IInv, LedgerInv, Steady, Limited
<1>3. BufferInv' /\ ScalarInv' /\ NumberInv' /\ StringInv' /\ CountInv' /\ DoneInv'
  BY DEF BufferInv, ScalarInv, NumberInv, StringInv, CountInv, DoneInv, EmptyLabels,
     NumberLabels, TensorLabels, StringLabels, EdgeLabels
<1>4. QED
  BY <1>1, <1>2, <1>3 DEF IInv

(* What is live is paid for if the ledger covers it without any rounding.   *)
LEMMA CoveredIsPaid ==
  ASSUME count' \in Nat, Held' \in Nat, used' - call'.start \in Int,
         Limited' => Held' <= used' - call'.start,
         ds'.class \notin Textual \/ buffers'["values"] = 0
  PROVE  PaidBeforeHeld'
<1>1. TextRounding' \in Nat
  <2>1. MinText - 1 \in Nat
    BY DecoderAssumption
  <2>2. count' * (MinText - 1) \in Nat
    BY <2>1
  <2>3. QED
    BY <2>2 DEF TextRounding
<1>2. PairRounding' = 0
  BY DEF PairRounding
<1>3. QED
  BY <1>1, <1>2 DEF PaidBeforeHeld, Limited

LEMMA ReadScalarKeeps == IInv /\ ReadScalar => IInv'
<1> SUFFICES ASSUME IInv, ReadScalar PROVE IInv'
  OBVIOUS
<1>1. Steady /\ axis' = axis /\ product' = product /\ count' = count /\ used' = used
      /\ edges' = edges /\ pc = "readScalar"
  BY DEF ReadScalar, Steady
<1>2. ds.class \in Numeric /\ axis \in Nat \ {0} /\ product \in Usize /\ edges \in Usize
      /\ count \in Usize /\ TypeOK /\ (Limited => ScalarSize <= Spent)
  BY <1>1 DEF IInv, ScalarInv, TypeOK
<1>3. ScalarSize \in Nat /\ ScalarSize <= IsizeMax /\ IsizeMax \in Nat
  BY <1>2, DecoderAssumption, MachineFacts DEF ScalarSize, Numeric
<1>4. CASE Fail("InvalidTensor")
  BY <1>1, <1>2, <1>4, FailureKeeps DEF Fail, Outcomes
<1>5. CASE Hold([NoBuffers EXCEPT !["raw"] = ScalarSize], "done")
  <2>1. buffers' \in [Kinds -> Nat] /\ Live(ScalarSize, 0, 0, 0, 0)'
    BY <1>1, <1>3, <1>5, SizesStay, NoBuffersFacts DEF Hold, Live, Kinds
  <2>2. PaidBeforeHeld'
    <3>1. Held' = ScalarSize
      BY <1>1, <1>3, <2>1, SizesStay DEF Held, Live
    <3>2. used' - call'.start \in Int /\ ds'.class \notin Textual /\ count' \in Nat
      BY <1>1, <1>2, Typing, UsizeAssumption DEF Steady, Numeric, Textual, Usize
    <3>3. QED
      BY <1>1, <1>2, <1>3, <3>1, <3>2, CoveredIsPaid DEF Spent, Limited, Steady
  <2>3. BuffersFitObjects'
    BY <1>1, <1>3, <2>1, SizesStay DEF BuffersFitObjects, Live
  <2>4. QED
    BY <1>1, <1>2, <1>5, <2>1, <2>2, <2>3, DoneStep DEF Hold
<1>6. QED
  BY <1>4, <1>5 DEF ReadScalar

(* A step that charges for numbers or leaves their buffers as they are.     *)
LEMMA NumberStep ==
  ASSUME IInv, Steady, count' = count, pc' \in NumberLabels \ {"narrow", "build"},
         axis' \in Nat \ {0}, product' \in Usize, edges' = edges,
         buffers' \in [Kinds -> Nat], outcome' = outcome,
         used' \in Usize, used' >= used, BufferInv', NumberInv'
  PROVE  IInv'
<1>1. TypeOK'
  BY DEF IInv, TypeOK, Steady, Labels, NumberLabels, TensorLabels
<1>2. used \in Nat /\ used' \in Nat /\ call.start \in Nat
  BY Typing, UsizeAssumption DEF IInv, Usize
<1>3. LedgerInv'
  BY <1>2 DEF IInv, LedgerInv, Steady, Limited
<1>4. ScalarInv' /\ StringInv' /\ CountInv' /\ DoneInv'
  BY DEF ScalarInv, StringInv, CountInv, DoneInv, NumberLabels, TensorLabels,
     StringLabels, EdgeLabels
<1>5. QED
  BY <1>1, <1>3, <1>4 DEF IInv

LEMMA ChargeNumbersKeeps == IInv /\ ChargeNumbers => IInv'
<1> SUFFICES ASSUME IInv, ChargeNumbers PROVE IInv'
  OBVIOUS
<1>1. Steady /\ axis' = axis /\ product' = product /\ count' = count
      /\ edges' = edges /\ pc = "counted" /\ ReadsTensor
      /\ ChargeAllocation(NumericRequest, "readNumbers")
  BY DEF ChargeNumbers, Steady
<1>2. axis \in Nat \ {0} /\ product \in Usize /\ edges \in Usize /\ count \in Usize
      /\ TypeOK /\ LedgerInv /\ buffers \in [Kinds -> Nat]
  BY DEF IInv, TypeOK
<1>3. ds.class \in Numeric
  BY <1>1 DEF IInv, ScalarInv
<1>4. CASE pc' = "failed" /\ outcome' \in {"ReadLimitExceeded", "InvalidTensor"}
           /\ buffers' = NoBuffers /\ used' = used
  BY <1>1, <1>2, <1>4, FailureKeeps DEF Outcomes
<1>5. CASE /\ pc' = "readNumbers" /\ buffers' = buffers /\ outcome' = outcome
           /\ used' \in Usize /\ used' >= used /\ NumericRequest # Overflow
           /\ Limited => used' = used + NumericRequest
  <2>1. NumericRequest \in Nat /\ used \in Nat /\ call.start \in Nat
    BY <1>2, <1>3, <1>5, NumericFacts, Typing, UsizeAssumption DEF Usize
  <2>2. Limited => NumericRequest <= used' - call.start
    BY <1>2, <1>5, <2>1 DEF LedgerInv
  <2>3. NumberInv'
    BY <1>1, <1>3, <1>5, <2>2, SizesStay DEF NumberInv, Spent, Steady, TensorLabels
  <2>4. BufferInv'
    BY <1>1, <1>5 DEF IInv, BufferInv, Live, EmptyLabels, TensorLabels
  <2>5. QED
    BY <1>1, <1>2, <1>5, <2>3, <2>4, NumberStep DEF NumberLabels
<1>6. QED
  BY <1>1, <1>2, <1>3, <1>4, <1>5, ChargeAllocationFacts, NumericFacts

(* What is known of the tensor's bytes while they are decoded.              *)
LEMMA TensorKnown ==
  ASSUME IInv, pc \in NumberLabels
  PROVE  /\ ds.class \in Numeric /\ TypeOK /\ LedgerInv
         /\ axis \in Nat \ {0} /\ product \in Usize /\ count \in Usize /\ edges \in Usize
         /\ count \in Nat
         /\ NumberBytes \in Nat /\ NumberBytes <= IsizeMax
         /\ SecondBytes \in Nat /\ SecondBytes <= IsizeMax /\ IsizeMax \in Nat
         /\ NumberBytes = count * DtypeSize
         /\ NumericRequest = NumberBytes + SecondBytes
         /\ NumericRequest # Overflow
         /\ Limited => NumberBytes + SecondBytes <= Spent
         /\ Spent \in Int
<1>1. ds.class \in Numeric /\ TypeOK /\ NumericRequest # Overflow /\ LedgerInv
      /\ (Limited => NumericRequest <= Spent)
  BY DEF IInv, NumberInv
<1>2. axis \in Nat \ {0} /\ product \in Usize /\ count \in Usize /\ edges \in Usize
  BY <1>1 DEF TypeOK
<1>3. Spent \in Int /\ count \in Nat
  BY <1>1, Typing, UsizeAssumption DEF Spent, Usize
<1>4. QED
  BY <1>1, <1>2, <1>3, NumericFacts, MachineFacts

(* The steps that move a tensor's buffers without a charge.                 *)
LEMMA NumbersMove ==
  ASSUME IInv, Steady, pc \in NumberLabels, pc' \in {"narrow", "build", "shapeAxis",
           "chargeWords", "chargeDefault"},
         count' = count, used' = used, edges' = edges, outcome' = outcome,
         axis' \in Nat \ {0}, product' \in Usize, buffers' \in [Kinds -> Nat],
         pc' = "narrow" => ds.class = "u64",
         pc' = "chargeWords" => ds.class \in {"int", "u64"},
         BufferInv'
  PROVE  IInv'
<1>1. ds.class \in Numeric /\ NumericRequest # Overflow /\ (Limited => NumericRequest <= Spent)
  BY DEF IInv, NumberInv
<1>2. NumberInv'
  BY <1>1, SizesStay DEF NumberInv, Steady, Spent
<1>3. TypeOK'
  BY DEF IInv, TypeOK, Steady, Labels
<1>4. LedgerInv'
  BY DEF IInv, LedgerInv, Steady, Limited
<1>5. ScalarInv' /\ StringInv' /\ CountInv' /\ DoneInv'
  BY DEF ScalarInv, StringInv, CountInv, DoneInv, StringLabels, EdgeLabels
<1>6. QED
  BY <1>2, <1>3, <1>4, <1>5 DEF IInv

LEMMA ReadNumbersKeeps == IInv /\ ReadNumbers => IInv'
<1> SUFFICES ASSUME IInv, ReadNumbers PROVE IInv'
  OBVIOUS
<1>1. Steady /\ axis' = axis /\ product' = product /\ count' = count /\ used' = used
      /\ edges' = edges /\ pc = "readNumbers" /\ outcome' = outcome
      /\ pc' = (IF ds.class = "u64" THEN "narrow" ELSE "build")
      /\ buffers' = [buffers EXCEPT !["raw"] = NumberBytes]
  BY DEF ReadNumbers, Steady, Hold, NumberBytes
<1>2. pc \in NumberLabels
  BY <1>1 DEF NumberLabels
<1>3. NumberBytes \in Nat /\ axis \in Nat \ {0} /\ product \in Usize
      /\ buffers \in [Kinds -> Nat]
  BY <1>2, TensorKnown DEF TypeOK
<1>4. buffers' \in [Kinds -> Nat] /\ Live(NumberBytes, 0, 0, 0, 0)'
  BY <1>1, <1>3, SizesStay DEF IInv, BufferInv, Live, EmptyLabels, Kinds
<1>5. BufferInv'
  BY <1>1, <1>4, SizesStay DEF BufferInv, EmptyLabels, TensorLabels, Live, SecondBytes
<1>6. QED
  BY <1>1, <1>2, <1>3, <1>4, <1>5, NumbersMove

LEMMA NarrowU64Keeps == IInv /\ NarrowU64 => IInv'
<1> SUFFICES ASSUME IInv, NarrowU64 PROVE IInv'
  OBVIOUS
<1>1. Steady /\ axis' = axis /\ product' = product /\ count' = count /\ used' = used
      /\ edges' = edges /\ pc = "narrow" /\ ds.class = "u64"
  BY DEF IInv, NumberInv, NarrowU64, Steady
<1>2. pc \in NumberLabels
  BY <1>1 DEF NumberLabels
<1>3. NumberBytes \in Nat /\ SecondBytes \in Nat /\ axis \in Nat \ {0} /\ product \in Usize
      /\ buffers \in [Kinds -> Nat] /\ count \in Usize /\ edges \in Usize
      /\ SecondBytes = Elements("int")
  BY <1>1, <1>2, TensorKnown DEF TypeOK, SecondBytes
<1>4. CASE Fail("InvalidTensor")
  BY <1>1, <1>3, <1>4, FailureKeeps DEF Fail, Outcomes
<1>5. CASE Hold([buffers EXCEPT !["values"] = Elements("int")], "build")
  <2>1. buffers' \in [Kinds -> Nat] /\ Live(NumberBytes, 0, 0, 0, SecondBytes)'
    BY <1>1, <1>3, <1>5, SizesStay DEF IInv, BufferInv, Live, Kinds, Hold
  <2>2. BufferInv'
    BY <1>5, <2>1, SizesStay DEF BufferInv, EmptyLabels, TensorLabels, Hold
  <2>3. QED
    BY <1>1, <1>2, <1>3, <1>5, <2>1, <2>2, NumbersMove DEF Hold
<1>6. QED
  BY <1>4, <1>5 DEF NarrowU64

LEMMA BuildTensorKeeps == IInv /\ BuildTensor => IInv'
<1> SUFFICES ASSUME IInv, BuildTensor PROVE IInv'
  OBVIOUS
<1>1. Steady /\ axis' = 1 /\ product' = 1 /\ count' = count /\ used' = used
      /\ edges' = edges /\ pc = "build" /\ outcome' = outcome /\ pc' = "shapeAxis"
      /\ buffers' = [NoBuffers EXCEPT !["raw"] = NumberBytes]
  BY DEF BuildTensor, Steady, Hold, NumberBytes
<1>2. pc \in NumberLabels
  BY <1>1 DEF NumberLabels
<1>3. NumberBytes \in Nat /\ 1 \in Usize /\ 1 \in Nat \ {0}
  BY <1>2, TensorKnown, UsizeAssumption DEF Usize
<1>4. buffers' \in [Kinds -> Nat] /\ Live(NumberBytes, 0, 0, 0, 0)'
  BY <1>1, <1>3, SizesStay, NoBuffersFacts DEF Live, Kinds
<1>5. BufferInv'
  BY <1>1, <1>4, SizesStay DEF BufferInv, EmptyLabels, TensorLabels, Live
<1>6. QED
  BY <1>1, <1>2, <1>3, <1>4, <1>5, NumbersMove

(* The tensor's bytes stay where they are from one label to the next.       *)
LEMMA TensorBufferStays ==
  ASSUME IInv, Steady, count' = count, buffers' = buffers,
         pc \in TensorLabels, pc' \in TensorLabels
  PROVE  BufferInv' /\ buffers' \in [Kinds -> Nat]
<1>1. Live(NumberBytes, 0, 0, 0, 0)
  BY DEF IInv, BufferInv
<1>2. Live(NumberBytes, 0, 0, 0, 0)'
  BY <1>1, SizesStay DEF Live
<1>3. QED
  BY <1>2 DEF IInv, TypeOK, BufferInv, EmptyLabels, TensorLabels

(* A decoding that ends with the tensor's bytes and a second buffer.        *)
LEMMA NumbersDone ==
  ASSUME IInv, Steady, pc \in TensorLabels, pc' = "done", outcome' = outcome,
         used' = used, edges' = edges, axis' = axis, product' = product, count' = count,
         NEW second \in Nat, buffers' = [buffers EXCEPT !["values"] = second],
         second <= IsizeMax, Limited => NumberBytes + second <= Spent
  PROVE  IInv'
<1>1. pc \in NumberLabels /\ edges \in Usize /\ buffers \in [Kinds -> Nat]
  BY DEF NumberLabels, IInv, TypeOK
<1>2. /\ NumberBytes \in Nat /\ NumberBytes <= IsizeMax /\ IsizeMax \in Nat
      /\ Spent \in Int
  BY <1>1, TensorKnown
<1>3. Live(NumberBytes, 0, 0, 0, 0)
  BY DEF IInv, BufferInv
<1>4. Live(NumberBytes, 0, 0, 0, second)' /\ buffers' \in [Kinds -> Nat]
  BY <1>1, <1>3, SizesStay DEF Live, Kinds
<1>5. PaidBeforeHeld'
  <2>1. Held' = NumberBytes + second
    BY <1>2, <1>4, SizesStay DEF Held, Live
  <2>2. ds'.class \notin Textual /\ count' \in Nat
    BY <1>1, Typing DEF IInv, NumberInv, Steady, Numeric, Textual
  <2>3. QED
    BY <1>2, <2>1, <2>2, CoveredIsPaid DEF Spent, Limited, Steady
<1>6. BuffersFitObjects'
  BY <1>2, <1>4, SizesStay DEF BuffersFitObjects, Live
<1>7. QED
  BY <1>1, <1>4, <1>5, <1>6, DoneStep

LEMMA ShapeAxisKeeps == IInv /\ ShapeAxis => IInv'
<1> SUFFICES ASSUME IInv, ShapeAxis PROVE IInv'
  OBVIOUS
<1> DEFINE next == CheckedMul(product, ds.extents[axis])
<1>1. Steady /\ count' = count /\ used' = used /\ edges' = edges /\ pc = "shapeAxis"
      /\ axis <= Len(ds.extents)
  BY DEF ShapeAxis, Steady
<1>2. axis \in Nat \ {0} /\ product \in Usize /\ product \in Nat /\ edges \in Usize
      /\ count \in Usize /\ ds.extents \in Seq(Nat)
  BY Typing DEF IInv, TypeOK
<1>3. next \in Requests
  BY <1>1, <1>2, MulFacts
<1>4. CASE next = Overflow /\ Fail("InvalidTensor") /\ axis' = axis /\ product' = product
  BY <1>1, <1>2, <1>4, FailureKeeps DEF Fail, Outcomes
<1>5. CASE /\ next # Overflow /\ product' = next /\ axis' = axis + 1
           /\ pc' = pc /\ buffers' = buffers /\ outcome' = outcome
  <2>1. product' \in Usize /\ axis' \in Nat \ {0}
    BY <1>2, <1>3, <1>5 DEF Requests
  <2>2. BufferInv' /\ buffers' \in [Kinds -> Nat]
    BY <1>1, <1>5, TensorBufferStays DEF TensorLabels
  <2>3. QED
    BY <1>1, <1>5, <2>1, <2>2, NumbersMove DEF NumberLabels, TensorLabels
<1>6. QED
  BY <1>4, <1>5 DEF ShapeAxis

LEMMA ShapeDoneKeeps == IInv /\ ShapeDone => IInv'
<1> SUFFICES ASSUME IInv, ShapeDone PROVE IInv'
  OBVIOUS
<1>1. Steady /\ axis' = axis /\ product' = product /\ count' = count /\ used' = used
      /\ edges' = edges /\ pc = "shapeAxis"
  BY DEF ShapeDone, Steady
<1>2. axis \in Nat \ {0} /\ product \in Usize /\ edges \in Usize /\ count \in Usize
      /\ pc \in TensorLabels /\ pc \in NumberLabels /\ buffers \in [Kinds -> Nat]
  BY <1>1 DEF IInv, TypeOK, TensorLabels, NumberLabels
<1>3. CASE Fail("InvalidTensor")
  BY <1>1, <1>2, <1>3, FailureKeeps DEF Fail, Outcomes
<1>4. CASE Goto("chargeWords") /\ ds.class \in {"int", "u64"}
  BY <1>1, <1>2, <1>4, TensorBufferStays, NumbersMove DEF Goto, TensorLabels
<1>5. CASE Goto("chargeDefault")
  BY <1>1, <1>2, <1>5, TensorBufferStays, NumbersMove DEF Goto, TensorLabels
<1>6. CASE Goto("done")
  <2>1. /\ NumberBytes \in Nat /\ SecondBytes \in Nat /\ IsizeMax \in Nat /\ Spent \in Int
        /\ Limited => NumberBytes + SecondBytes <= Spent
    BY <1>2, TensorKnown
  <2>2. buffers' = [buffers EXCEPT !["values"] = 0]
    BY <1>2, <1>6 DEF Goto, IInv, BufferInv, Live
  <2>3. 0 \in Nat /\ 0 <= IsizeMax /\ (Limited => NumberBytes + 0 <= Spent)
    BY <2>1
  <2>4. QED
    BY <1>1, <1>2, <1>6, <2>2, <2>3, NumbersDone DEF Goto
<1>7. QED
  <2>1. CASE call.want = "extents"
    BY <2>1, <1>3, <1>4 DEF ShapeDone
  <2>2. CASE call.want = "default"
    BY <2>2, <1>3, <1>5 DEF ShapeDone
  <2>3. CASE call.want \notin {"extents", "default"}
    BY <2>3, <1>3, <1>6 DEF ShapeDone
  <2>4. QED
    BY <2>1, <2>2, <2>3

(* A plain charge while the tensor's bytes are live adds to what it cost.   *)
LEMMA ChargeMore ==
  ASSUME IInv, Steady, axis' = axis, product' = product, count' = count, edges' = edges,
         pc \in TensorLabels, NEW next \in {"collectWords", "synthesize"},
         next = "collectWords" => ds.class \in {"int", "u64"},
         NEW w \in Nat, w = (IF next = "collectWords" THEN WordSize ELSE DtypeSize),
         Charge(CheckedMul(count, w), next)
  PROVE  IInv'
<1>1. axis \in Nat \ {0} /\ product \in Usize /\ edges \in Usize /\ count \in Usize
      /\ TypeOK /\ LedgerInv /\ pc \in NumberLabels
  BY DEF IInv, TypeOK, NumberLabels
<1>2. /\ NumberBytes \in Nat /\ SecondBytes \in Nat /\ count \in Nat
      /\ NumericRequest = NumberBytes + SecondBytes /\ NumericRequest # Overflow
      /\ (Limited => NumberBytes + SecondBytes <= Spent) /\ ds.class \in Numeric
  BY <1>1, TensorKnown
<1>3. /\ CheckedMul(count, w) \in Requests
      /\ CheckedMul(count, w) # Overflow => CheckedMul(count, w) = count * w
  BY <1>2, MulFacts
<1>4. CASE pc' = "failed" /\ outcome' = "ReadLimitExceeded" /\ buffers' = NoBuffers
           /\ used' = used
  BY <1>1, <1>4, FailureKeeps DEF Outcomes
<1>5. CASE /\ pc' = next /\ buffers' = buffers /\ outcome' = outcome
           /\ used' \in Usize /\ used' >= used
           /\ Limited => CheckedMul(count, w) # Overflow
                         /\ used' = used + CheckedMul(count, w)
  <2>1. BufferInv' /\ buffers' \in [Kinds -> Nat]
    BY <1>5, TensorBufferStays DEF TensorLabels
  <2>2. Limited => NumericRequest + count * w <= used' - call.start
    <3>1. used \in Nat /\ call.start \in Nat /\ count * w \in Nat
      BY <1>1, <1>2, Typing, UsizeAssumption DEF Usize
    <3>2. Limited => used' = used + count * w
      BY <1>3, <1>5
    <3>3. QED
      BY <1>2, <3>1, <3>2 DEF Spent
  <2>3. /\ Steady /\ NumericRequest' = NumericRequest /\ DtypeSize' = DtypeSize
        /\ Limited' = Limited
    BY SizesStay
  <2>4. NumericRequest \in Nat /\ used' - call.start \in Int /\ count * w \in Nat
    BY <1>1, <1>2, <1>5, Typing, UsizeAssumption DEF Usize
  <2>5. Limited => NumericRequest <= used' - call.start
    BY <2>2, <2>4
  <2>6. NumberInv'
    BY <1>2, <1>5, <2>2, <2>3, <2>5 DEF NumberInv, Spent, Steady
  <2>7. QED
    BY <1>1, <1>5, <2>1, <2>6, NumberStep DEF NumberLabels, TensorLabels
<1>6. QED
  BY <1>1, <1>3, <1>4, <1>5, ChargeFacts

LEMMA ChargeWordsKeeps == IInv /\ ChargeWords => IInv'
<1> SUFFICES ASSUME IInv, ChargeWords PROVE IInv'
  OBVIOUS
<1>1. Steady /\ axis' = axis /\ product' = product /\ count' = count
      /\ edges' = edges /\ pc = "chargeWords"
      /\ Charge(CheckedMul(count, WordSize), "collectWords")
  BY DEF ChargeWords, Steady
<1>2. WordSize \in Nat /\ ds.class \in {"int", "u64"}
  BY <1>1, MachineFacts DEF IInv, NumberInv
<1>3. QED
  BY <1>1, <1>2, ChargeMore DEF TensorLabels

LEMMA ChargeDefaultKeeps == IInv /\ ChargeDefault => IInv'
<1> SUFFICES ASSUME IInv, ChargeDefault PROVE IInv'
  OBVIOUS
<1>1. Steady /\ axis' = axis /\ product' = product /\ count' = count
      /\ edges' = edges /\ pc = "chargeDefault"
      /\ Charge(CheckedMul(count, DtypeSize), "synthesize")
  BY DEF ChargeDefault, Steady
<1>2. DtypeSize \in Nat
  BY <1>1, TensorKnown, MachineFacts DEF NumberLabels, TensorLabels, DtypeSize
<1>3. QED
  BY <1>1, <1>2, ChargeMore DEF TensorLabels

LEMMA ProductsGrow ==
  ASSUME NEW n \in Nat, NEW a \in Nat, NEW b \in Nat, a <= b
  PROVE  n * a <= n * b /\ n * a \in Nat /\ n * b \in Nat
OBVIOUS

LEMMA CollectWordsKeeps == IInv /\ CollectWords => IInv'
<1> SUFFICES ASSUME IInv, CollectWords PROVE IInv'
  OBVIOUS
<1>1. Steady /\ axis' = axis /\ product' = product /\ count' = count /\ used' = used
      /\ edges' = edges /\ pc = "collectWords"
  BY DEF CollectWords, Steady
<1>2. axis \in Nat \ {0} /\ product \in Usize /\ edges \in Usize /\ count \in Usize
      /\ pc \in TensorLabels /\ pc \in NumberLabels
  BY <1>1 DEF IInv, TypeOK, TensorLabels, NumberLabels
<1>3. CASE Fail("InvalidTensor")
  BY <1>1, <1>2, <1>3, FailureKeeps DEF Fail, Outcomes
<1>4. CASE Hold([buffers EXCEPT !["values"] = count * WordSize], "done")
  <2>1. /\ count \in Nat /\ NumberBytes \in Nat /\ SecondBytes \in Nat /\ IsizeMax \in Nat
        /\ NumberBytes = count * DtypeSize /\ NumberBytes <= IsizeMax /\ Spent \in Int
        /\ NumericRequest = NumberBytes + SecondBytes
    BY <1>2, TensorKnown
  <2>2. ds.class \in {"int", "u64"} /\ (Limited => NumericRequest + count * WordSize <= Spent)
    BY <1>1 DEF IInv, NumberInv
  <2>3. WordSize \in Nat /\ DtypeSize \in Nat /\ WordSize <= DtypeSize
    BY <2>2, DecoderAssumption, MachineFacts DEF DtypeSize, Numeric
  <2>4. count * WordSize \in Nat /\ count * WordSize <= NumberBytes
    BY <2>1, <2>3, ProductsGrow
  <2>5. count * WordSize <= IsizeMax
    BY <2>1, <2>4
  <2>6. Limited => NumberBytes + count * WordSize <= Spent
    BY <2>1, <2>2, <2>4
  <2>7. QED
    BY <1>1, <1>2, <1>4, <2>4, <2>5, <2>6, NumbersDone DEF Hold
<1>5. QED
  BY <1>3, <1>4 DEF CollectWords

LEMMA SynthesizeKeeps == IInv /\ Synthesize => IInv'
<1> SUFFICES ASSUME IInv, Synthesize PROVE IInv'
  OBVIOUS
<1>1. Steady /\ axis' = axis /\ product' = product /\ count' = count /\ used' = used
      /\ edges' = edges /\ pc = "synthesize" /\ pc' = "done" /\ outcome' = outcome
      /\ buffers' = [buffers EXCEPT !["values"] = count * DtypeSize]
  BY DEF Synthesize, Steady, Hold
<1>2. pc \in TensorLabels /\ pc \in NumberLabels
  BY <1>1 DEF TensorLabels, NumberLabels
<1>3. /\ NumberBytes \in Nat /\ SecondBytes \in Nat /\ IsizeMax \in Nat
      /\ NumberBytes = count * DtypeSize /\ NumberBytes <= IsizeMax /\ Spent \in Int
      /\ NumericRequest = NumberBytes + SecondBytes
  BY <1>2, TensorKnown
<1>4. Limited => NumericRequest + count * DtypeSize <= Spent
  BY <1>1 DEF IInv, NumberInv
<1>5. Limited => NumberBytes + count * DtypeSize <= Spent
  <2>1. Limited => (NumberBytes + SecondBytes) + NumberBytes <= Spent
    BY <1>3, <1>4
  <2>2. QED
    BY <1>3, <2>1
<1>6. QED
  BY <1>1, <1>2, <1>3, <1>5, NumbersDone

-----------------------------------------------------------------------------
(* Strings. *)

LEMMA StringSizes ==
  ASSUME TypeOK, Readable, StringsFit
  PROVE  /\ RawStrings \in Nat /\ RawStrings <= IsizeMax /\ IsizeMax \in Nat
         /\ HeapBytes \in Nat /\ TextBytes \in Nat
         /\ Headers \in Nat /\ Headers <= IsizeMax /\ Headers = count * HeaderSize
         /\ Spent \in Int
<1>1. Headers \in Nat /\ Headers <= IsizeMax /\ Headers = count * HeaderSize
  BY HeadersFacts DEF StringsFit
<1>2. ds.heap \in Nat /\ IsizeMax \in Nat /\ Spent \in Int
  BY Typing, MachineFacts, UsizeAssumption DEF Spent, Usize
<1>3. CASE ds.class = "vlen"
  BY <1>1, <1>2, <1>3, ElementsFacts DEF RawStrings, HeapBytes, TextBytes, StringsFit
<1>4. CASE ds.class = "fixed" /\ ~Wide
  BY <1>1, <1>2, <1>4, FixedFacts DEF RawStrings, HeapBytes, TextBytes, StringsFit
<1>5. QED
  BY <1>3, <1>4 DEF Readable, Textual

(* The dataset is about to be read as strings: nothing is live yet.         *)
LEMMA ToStrings ==
  ASSUME IInv, Steady, pc = "counted", pc' = "chargeStrings", buffers' = buffers,
         outcome' = outcome, used' = used, axis' = axis, product' = product,
         count' = count, edges' \in Usize,
         call.want = "edges" => EdgeShape /\ count = EdgeCount * 2
  PROVE  IInv'
<1>1. TypeOK'
  BY DEF IInv, TypeOK, Steady, Labels
<1>2. LedgerInv'
  BY DEF IInv, LedgerInv, Steady, Limited
<1>3. BufferInv'
  BY DEF IInv, BufferInv, Live, EmptyLabels, TensorLabels
<1>4. CountInv'
  BY SizesStay DEF CountInv, Steady
<1>5. ScalarInv' /\ NumberInv' /\ StringInv' /\ DoneInv'
  BY DEF ScalarInv, NumberInv, StringInv, DoneInv, NumberLabels, TensorLabels, StringLabels
<1>6. QED
  BY <1>1, <1>2, <1>3, <1>4, <1>5 DEF IInv

LEMMA OneStringKeeps == IInv /\ OneString => IInv'
<1> SUFFICES ASSUME IInv, OneString PROVE IInv'
  OBVIOUS
<1>1. Steady /\ axis' = axis /\ product' = product /\ count' = count /\ used' = used
      /\ edges' = edges /\ pc = "counted" /\ WantsOneString
  BY DEF OneString, Steady
<1>2. axis \in Nat \ {0} /\ product \in Usize /\ edges \in Usize /\ count \in Usize
  BY DEF IInv, TypeOK
<1>3. CASE Fail("Io")
  BY <1>1, <1>2, <1>3, FailureKeeps DEF Fail, Outcomes
<1>4. CASE Goto("chargeStrings")
  BY <1>1, <1>2, <1>4, ToStrings DEF Goto, WantsOneString
<1>5. QED
  BY <1>3, <1>4 DEF OneString

LEMMA StringListKeeps == IInv /\ StringList => IInv'
<1> SUFFICES ASSUME IInv, StringList PROVE IInv'
  OBVIOUS
<1>1. Steady /\ axis' = axis /\ product' = product /\ count' = count /\ used' = used
      /\ edges' = edges /\ pc = "counted" /\ call.want = "metadata" /\ Goto("chargeStrings")
  BY DEF StringList, Steady
<1>2. edges \in Usize
  BY DEF IInv, TypeOK
<1>3. QED
  BY <1>1, <1>2, ToStrings DEF Goto

LEMMA ChargeEdgesKeeps == IInv /\ ChargeEdges => IInv'
<1> SUFFICES ASSUME IInv, ChargeEdges PROVE IInv'
  OBVIOUS
<1>1. Steady /\ axis' = axis /\ product' = product /\ count' = count /\ used' = used
      /\ pc = "counted" /\ call.want = "edges"
  BY DEF ChargeEdges, Steady
<1>2. axis \in Nat \ {0} /\ product \in Usize /\ edges \in Usize /\ count \in Usize
      /\ buffers \in [Kinds -> Nat] /\ TypeOK /\ LedgerInv
  BY DEF IInv, TypeOK
<1>3. CASE Goto("done") /\ edges' = edges
  <2>1. Live(0, 0, 0, 0, 0)' /\ buffers' \in [Kinds -> Nat]
    BY <1>1, <1>2, <1>3 DEF IInv, BufferInv, EmptyLabels, Live, Goto
  <2>2. used \in Nat /\ call.start \in Nat /\ IsizeMax \in Nat
    BY <1>2, Typing, MachineFacts, UsizeAssumption DEF Usize
  <2>3. BuffersFitObjects' /\ Held' = 0 /\ buffers'["values"] = 0
    BY <2>1, <2>2 DEF BuffersFitObjects, Held, Live
  <2>5. PaidBeforeHeld'
    BY <1>1, <1>2, <2>2, <2>3, Typing, CoveredIsPaid DEF LedgerInv, Limited, Steady
  <2>4. QED
    BY <1>1, <1>2, <1>3, <2>1, <2>3, <2>5, DoneStep DEF Goto
<1>4. CASE (Fail("InvalidGraph") \/ Fail("ReadCountLimitExceeded")) /\ edges' = edges
  BY <1>1, <1>2, <1>4, FailureKeeps DEF Fail, Outcomes
<1>5. CASE /\ count # 0 /\ EdgeShape /\ Goto("chargeStrings")
           /\ Admits(call.edgeLimit, edges, EdgeCount)
           /\ edges' = Charged(call.edgeLimit, edges, EdgeCount)
  <2>1. ds.extents \in Seq(Nat) /\ Len(ds.extents) = 2 /\ ds.extents[2] = 2
    BY <1>2, <1>5, Typing DEF EdgeShape
  <2>2. EdgeCount \in Nat /\ count = EdgeCount * 2
    BY <1>1, <1>5, <2>1 DEF IInv, CountInv, EdgeCount
  <2>3. edges' \in Usize
    <3>1. CASE call.edgeLimit = NoLimit
      BY <1>2, <1>5, <3>1 DEF Charged
    <3>2. CASE call.edgeLimit # NoLimit
      <4>1. CheckedAdd(edges, EdgeCount) # Overflow /\ edges' = edges + EdgeCount
        BY <1>5, <3>2 DEF Admits, Charged
      <4>2. edges + EdgeCount <= UsizeMax
        BY <4>1 DEF CheckedAdd
      <4>3. QED
        BY <1>2, <2>2, <4>1, <4>2, UsizeAssumption DEF Usize
    <3>3. QED
      BY <3>1, <3>2
  <2>4. QED
    BY <1>1, <1>5, <2>2, <2>3, ToStrings DEF Goto
<1>6. QED
  BY <1>3, <1>4, <1>5 DEF ChargeEdges

(* A step of reading strings that leaves dataset and count as they are.     *)
LEMMA StringStep ==
  ASSUME IInv, Steady, axis' = axis, product' = product, count' = count, edges' = edges,
         pc \in EdgeLabels, pc' \in {"readStrings"} \cup StringLabels,
         pc' \in {"chargePairs", "pairUp", "growPairs", "movePairs"} => call.want = "edges",
         outcome' = outcome, buffers' \in [Kinds -> Nat],
         used' \in Usize, used' >= used, BufferInv', StringInv'
  PROVE  IInv'
<1>1. TypeOK'
  BY DEF IInv, TypeOK, Steady, Labels, StringLabels
<1>2. used \in Nat /\ used' \in Nat /\ call.start \in Nat
  BY Typing, UsizeAssumption DEF IInv, Usize
<1>3. LedgerInv'
  BY <1>2 DEF IInv, LedgerInv, Steady, Limited
<1>4. CountInv'
  BY SizesStay DEF IInv, CountInv, EdgeLabels, StringLabels, Steady
<1>5. ScalarInv' /\ NumberInv' /\ DoneInv'
  BY DEF ScalarInv, NumberInv, DoneInv, NumberLabels, TensorLabels, StringLabels
<1>6. QED
  BY <1>1, <1>3, <1>4, <1>5 DEF IInv

(* The strings' cost is known: the step from a charge to the read.          *)
LEMMA ToReadStrings ==
  ASSUME IInv, Steady, axis' = axis, product' = product, count' = count, edges' = edges,
         pc = "chargeStrings", pc' = "readStrings", outcome' = outcome, buffers' = buffers,
         used' \in Usize, used' >= used, Readable => StringsFit'
  PROVE  IInv'
<1>1. BufferInv' /\ buffers' \in [Kinds -> Nat]
  BY DEF IInv, TypeOK, BufferInv, Live, EmptyLabels, TensorLabels
<1>2. StringInv'
  BY SizesStay DEF StringInv, StringLabels
<1>3. QED
  BY <1>1, <1>2, StringStep DEF EdgeLabels

(* An admitted charge of at least the strings' bytes pays for them.         *)
LEMMA StringsPaid ==
  ASSUME TypeOK, LedgerInv, Steady, count' = count, Readable,
         RawStrings # Overflow, Headers # Overflow, TextBytes # Overflow,
         NEW req \in Nat, Limited => StringBytes <= req /\ used' = used + req
  PROVE  StringsFit'
<1>1. StringBytes \in Nat
  <2>1. RawStrings \in Nat /\ HeapBytes \in Nat /\ Headers \in Nat /\ TextBytes \in Nat
    <3>1. Headers \in Nat /\ ds.heap \in Nat
      BY Typing, HeadersFacts
    <3>2. CASE ds.class = "vlen"
      BY <3>1, <3>2, ElementsFacts DEF RawStrings, HeapBytes, TextBytes
    <3>3. CASE ds.class = "fixed" /\ ~Wide
      BY <3>1, <3>3, FixedFacts DEF RawStrings, HeapBytes, TextBytes
    <3>4. QED
      BY <3>2, <3>3 DEF Readable, Textual
  <2>2. QED
    BY <2>1 DEF StringBytes
<1>2. used \in Nat /\ call.start \in Nat
  BY Typing, UsizeAssumption DEF Usize
<1>3. Limited => StringBytes <= used' - call.start
  BY <1>1, <1>2 DEF LedgerInv
<1>4. QED
  BY <1>3, SizesStay DEF StringsFit, Spent, Steady

LEMMA ChargeFixedKeeps == IInv /\ ChargeFixed => IInv'
<1> SUFFICES ASSUME IInv, ChargeFixed PROVE IInv'
  OBVIOUS
<1>1. Steady /\ axis' = axis /\ product' = product /\ count' = count
      /\ edges' = edges /\ pc = "chargeStrings" /\ ds.class = "fixed" /\ ~Wide
      /\ ChargeAllocation(FixedRequest, "readStrings")
  BY DEF ChargeFixed, Steady
<1>2. axis \in Nat \ {0} /\ product \in Usize /\ edges \in Usize /\ count \in Usize
      /\ TypeOK /\ LedgerInv /\ Readable
  BY <1>1 DEF IInv, TypeOK, Readable, Textual
<1>3. FixedRequest \in Requests
      /\ (FixedRequest # Overflow =>
            /\ RawStrings # Overflow /\ Headers # Overflow /\ TextBytes # Overflow
            /\ FixedRequest = StringBytes)
  BY <1>1, <1>2, FixedRequestFacts
<1>4. CASE pc' = "failed" /\ outcome' \in {"ReadLimitExceeded", "InvalidTensor"}
           /\ buffers' = NoBuffers /\ used' = used
  BY <1>1, <1>2, <1>4, FailureKeeps DEF Outcomes
<1>5. CASE /\ pc' = "readStrings" /\ buffers' = buffers /\ outcome' = outcome
           /\ used' \in Usize /\ used' >= used /\ FixedRequest # Overflow
           /\ Limited => used' = used + FixedRequest
  <2>1. FixedRequest \in Nat /\ StringBytes <= FixedRequest
    BY <1>3, <1>5, UsizeAssumption DEF Requests, Usize
  <2>2. StringsFit'
    BY <1>1, <1>2, <1>3, <1>5, <2>1, StringsPaid
  <2>3. QED
    BY <1>1, <1>5, <2>2, ToReadStrings
<1>6. QED
  BY <1>1, <1>2, <1>3, <1>4, <1>5, ChargeAllocationFacts

LEMMA ChargeNothingKeeps == IInv /\ ChargeNothing => IInv'
<1> SUFFICES ASSUME IInv, ChargeNothing PROVE IInv'
  OBVIOUS
<1>1. Steady /\ axis' = axis /\ product' = product /\ count' = count /\ used' = used
      /\ edges' = edges /\ pc = "chargeStrings" /\ Goto("readStrings") /\ ~Readable
  BY DEF ChargeNothing, Steady, Readable, Textual
<1>2. used \in Usize /\ used >= used
  BY UsizeAssumption DEF IInv, TypeOK, Usize
<1>3. QED
  BY <1>1, <1>2, ToReadStrings DEF Goto

LEMMA ChargeVlenKeeps == IInv /\ ChargeVlen => IInv'
<1> SUFFICES ASSUME IInv, ChargeVlen PROVE IInv'
  OBVIOUS
<1>1. Steady /\ axis' = axis /\ product' = product /\ count' = count
      /\ edges' = edges /\ pc = "chargeStrings" /\ ds.class = "vlen"
  BY DEF ChargeVlen, Steady
<1>2. axis \in Nat \ {0} /\ product \in Usize /\ edges \in Usize /\ count \in Usize
      /\ used \in Usize /\ used >= used /\ TypeOK /\ LedgerInv /\ Readable
  BY <1>1, UsizeAssumption DEF IInv, TypeOK, Readable, Textual, Usize
<1>3. /\ VlenRequest \in Requests
      /\ VlenMinimum # Overflow =>
           RawStrings # Overflow /\ Headers # Overflow /\ TextBytes # Overflow
      /\ VlenRequest # Overflow =>
           /\ RawStrings # Overflow /\ Headers # Overflow /\ TextBytes # Overflow
           /\ StringBytes <= VlenRequest
  BY <1>1, <1>2, VlenFacts
<1>4. CASE /\ pc' = "failed" /\ outcome' \in {"ReadLimitExceeded", "InvalidTensor", "Io"}
           /\ buffers' = NoBuffers /\ used' = used
  BY <1>1, <1>2, <1>4, FailureKeeps DEF Outcomes
<1>5. CASE call.limit = NoLimit /\ VlenMinimum # Overflow /\ Goto("readStrings") /\ used' = used
  <2>1. StringsFit'
    BY <1>1, <1>3, <1>5, SizesStay DEF StringsFit, Limited
  <2>2. QED
    BY <1>1, <1>2, <1>5, <2>1, ToReadStrings DEF Goto
<1>6. CASE ChargeAllocation(VlenRequest, "readStrings")
  <2>1. CASE /\ pc' = "readStrings" /\ buffers' = buffers /\ outcome' = outcome
             /\ used' \in Usize /\ used' >= used /\ VlenRequest # Overflow
             /\ Limited => used' = used + VlenRequest
    <3>1. VlenRequest \in Nat
      BY <1>3, <2>1, UsizeAssumption DEF Requests, Usize
    <3>2. StringsFit'
      BY <1>1, <1>2, <1>3, <2>1, <3>1, StringsPaid
    <3>3. QED
      BY <1>1, <2>1, <3>2, ToReadStrings
  <2>2. QED
    BY <1>2, <1>3, <1>4, <1>6, <2>1, ChargeAllocationFacts
<1>7. QED
  BY <1>4, <1>5, <1>6 DEF ChargeVlen, Fail

LEMMA ReadStringsKeeps == IInv /\ ReadStrings => IInv'
<1> SUFFICES ASSUME IInv, ReadStrings PROVE IInv'
  OBVIOUS
<1>1. Steady /\ axis' = axis /\ product' = product /\ count' = count /\ used' = used
      /\ edges' = edges /\ pc = "readStrings"
  BY DEF ReadStrings, Steady
<1>2. axis \in Nat \ {0} /\ product \in Usize /\ edges \in Usize /\ count \in Usize
      /\ used \in Usize /\ used >= used /\ TypeOK
  BY UsizeAssumption DEF IInv, TypeOK, Usize
<1>3. CASE Fail("Io")
  BY <1>1, <1>2, <1>3, FailureKeeps DEF Fail, Outcomes
<1>4. CASE /\ Readable
           /\ Hold([NoBuffers EXCEPT !["raw"] = RawStrings, !["heap"] = HeapBytes],
                   "copyStrings")
  <2>1. StringsFit
    BY <1>1, <1>4 DEF IInv, StringInv
  <2>2. RawStrings \in Nat /\ HeapBytes \in Nat
    BY <1>2, <1>4, <2>1, StringSizes
  <2>3. Live(RawStrings, HeapBytes, 0, 0, 0)' /\ buffers' \in [Kinds -> Nat]
    BY <1>1, <1>4, <2>2, SizesStay, NoBuffersFacts DEF Hold, Live, Kinds
  <2>4. BufferInv'
    BY <1>4, <2>3 DEF Hold, BufferInv, EmptyLabels, TensorLabels
  <2>5. StringsFit' /\ Readable'
    BY <1>1, <1>4, <2>1, SizesStay DEF StringsFit, Spent, Steady
  <2>6. StringInv'
    BY <1>4, <2>5 DEF Hold, StringInv
  <2>7. QED
    BY <1>1, <1>2, <1>4, <2>3, <2>4, <2>6, StringStep DEF Hold, EdgeLabels, StringLabels
<1>5. QED
  <2>1. CASE ds.class = "vlen"
    <3>1. Readable /\ RawStrings = Elements("vlen") /\ HeapBytes = ds.heap
      BY <2>1 DEF Readable, Textual, RawStrings, HeapBytes
    <3>2. QED
      BY <2>1, <3>1, <1>3, <1>4 DEF ReadStrings
  <2>2. CASE ds.class = "fixed" /\ ~Wide
    <3>1. Readable /\ RawStrings = FixedRaw /\ HeapBytes = 0
      BY <2>2 DEF Readable, Textual, RawStrings, HeapBytes
    <3>2. [NoBuffers EXCEPT !["raw"] = FixedRaw, !["heap"] = 0]
            = [NoBuffers EXCEPT !["raw"] = FixedRaw]
      BY DEF NoBuffers, Kinds
    <3>3. QED
      BY <2>2, <3>1, <3>2, <1>3, <1>4 DEF ReadStrings
  <2>3. QED
    BY <1>3, <2>1, <2>2 DEF ReadStrings, Textual

(* What is known of the strings' buffers once they have been charged.       *)
LEMMA StringsKnown ==
  ASSUME IInv, pc \in StringLabels
  PROVE  /\ TypeOK /\ LedgerInv /\ Readable /\ StringsFit
         /\ axis \in Nat \ {0} /\ product \in Usize /\ edges \in Usize /\ count \in Usize
         /\ used \in Usize /\ used >= used /\ buffers \in [Kinds -> Nat]
         /\ RawStrings \in Nat /\ RawStrings <= IsizeMax /\ IsizeMax \in Nat
         /\ HeapBytes \in Nat /\ TextBytes \in Nat /\ Spent \in Int
         /\ Headers \in Nat /\ Headers <= IsizeMax /\ Headers = count * HeaderSize
         /\ Limited => RawStrings + HeapBytes + Headers + TextBytes <= Spent
<1>1. TypeOK /\ LedgerInv /\ Readable /\ StringsFit
  BY DEF IInv, StringInv
<1>2. QED
  BY <1>1, StringSizes, UsizeAssumption DEF TypeOK, StringsFit, StringBytes, Usize

(* The rounding of the copied text, for strings of any lengths.             *)
LEMMA RoundingFacts ==
  ASSUME TypeOK, Readable, StringsFit
  PROVE  RoundedText \in Nat /\ RoundedText <= TextBytes + count * (MinText - 1)
<1>1. count \in Nat /\ MinText \in Nat \ {0} /\ ds.heap \in Nat /\ ds.width \in Nat
  BY Typing, DecoderAssumption
<1> DEFINE extra == count * (MinText - 1)
<1>2. count * MinText = count + extra /\ extra \in Nat /\ MinText * count = count + extra
  BY <1>1
<1>3. CASE ds.class = "vlen"
  <2>1. TextBytes = ds.heap
    BY <1>3 DEF TextBytes
  <2>2. CASE ds.heap < count
    <3>1. MinText * ds.heap = ds.heap + ds.heap * (MinText - 1)
      BY <1>1
    <3>2. ds.heap * (MinText - 1) <= extra /\ ds.heap * (MinText - 1) \in Nat
      <4>1. MinText - 1 \in Nat
        BY <1>1
      <4>2. QED
        BY <1>1, <2>2, <4>1, TimesGrow
    <3>3. RoundedText = MinText * ds.heap
      BY <1>3, <2>2 DEF RoundedText
    <3>4. QED
      BY <1>1, <1>2, <2>1, <3>1, <3>2, <3>3
  <2>3. CASE count <= ds.heap
    <3>1. (MinText - 1) * (count - 1) = extra - (MinText - 1)
      BY <1>1
    <3>2. \/ RoundedText = MinText * count
          \/ /\ RoundedText = ds.heap + (MinText - 1) * (count - 1)
             /\ ~(ds.heap + (MinText - 1) * (count - 1) < MinText * count)
      BY <1>1, <1>3, <2>3 DEF RoundedText
    <3> HIDE DEF extra
    <3>3. QED
      BY <1>1, <1>2, <2>1, <2>3, <3>1, <3>2
  <2>4. QED
    BY <1>1, <2>2, <2>3
<1>4. CASE ds.class = "fixed"
  <2>1. ds.width # 0 /\ TextBytes = FixedText
    BY <1>4, DecoderAssumption DEF TypeOK, TextBytes
  <2>2. FixedText = count * ds.width
    BY <1>1, <2>1, AllocationFacts DEF FixedText, StringsFit
  <2>3. RoundedText = count * ds.width \/ RoundedText = count * MinText
    BY <1>4 DEF RoundedText
  <2>4. count * ds.width \in Nat /\ count <= count * ds.width
    <3>1. 1 * count <= ds.width * count
      BY <1>1, <2>1, TimesGrow
    <3>2. QED
      BY <1>1, <3>1
  <2> HIDE DEF extra
  <2>5. QED
    BY <1>1, <1>2, <2>1, <2>2, <2>3, <2>4
<1>5. QED
  BY <1>3, <1>4 DEF Readable, Textual

LEMMA RoundingNat ==
  ASSUME IInv
  PROVE  TextRounding \in Nat
<1>1. count \in Nat /\ MinText - 1 \in Nat
  BY Typing, DecoderAssumption DEF IInv
<1>2. QED
  BY <1>1 DEF TextRounding

LEMMA TextStays ==
  ASSUME Steady, count' = count, buffers'["text"] = buffers["text"]
  PROVE  TextRounding' = TextRounding /\ (TextFits' <=> TextFits)
BY SizesStay DEF TextRounding, TextFits

LEMMA StringsStay ==
  ASSUME IInv, Steady, count' = count, used' = used, pc \in StringLabels,
         pc' \in {"copyStrings", "strings", "chargePairs"}, TextFits'
  PROVE  StringInv'
<1>1. Readable /\ StringsFit
  BY DEF IInv, StringInv
<1>2. Readable' /\ StringsFit'
  BY <1>1, SizesStay DEF StringsFit, Spent, Steady
<1>3. QED
  BY <1>2 DEF StringInv

LEMMA CopyStringsKeeps == IInv /\ CopyStrings => IInv'
<1> SUFFICES ASSUME IInv, CopyStrings PROVE IInv'
  OBVIOUS
<1>1. PICK text \in {TextBytes, RoundedText} :
        Hold([buffers EXCEPT !["headers"] = Headers, !["text"] = text], "strings")
  BY DEF CopyStrings, TextBytes
<1>2. Steady /\ axis' = axis /\ product' = product /\ count' = count /\ used' = used
      /\ edges' = edges /\ pc = "copyStrings" /\ pc' = "strings" /\ outcome' = outcome
      /\ buffers' = [buffers EXCEPT !["headers"] = Headers, !["text"] = text]
  BY <1>1 DEF CopyStrings, Steady, Hold
<1>3. pc \in StringLabels /\ pc \in EdgeLabels
  BY <1>2 DEF StringLabels, EdgeLabels
<1>4. /\ Headers \in Nat /\ TextBytes \in Nat /\ buffers \in [Kinds -> Nat] /\ count \in Nat
      /\ used \in Usize /\ used >= used /\ TypeOK /\ Readable /\ StringsFit
  BY <1>3, StringsKnown, UsizeAssumption DEF Usize
<1>5. text \in Nat /\ text <= TextBytes + count * (MinText - 1)
      /\ count * (MinText - 1) \in Nat
  <2>1. MinText - 1 \in Nat
    BY DecoderAssumption
  <2>2. count * (MinText - 1) \in Nat
    BY <1>4, <2>1
  <2>3. QED
    BY <1>4, <2>2, RoundingFacts
<1>6. Live(RawStrings, HeapBytes, 0, 0, 0)
  BY <1>2 DEF IInv, BufferInv
<1>7. Live(RawStrings, HeapBytes, Headers, buffers["text"], 0)' /\ buffers' \in [Kinds -> Nat]
      /\ buffers'["text"] = text
  BY <1>2, <1>4, <1>5, <1>6, SizesStay DEF Live, Kinds
<1>8. BufferInv'
  BY <1>2, <1>7 DEF BufferInv, EmptyLabels, TensorLabels
<1>9. TextFits'
  BY <1>2, <1>4, <1>5, <1>7, SizesStay DEF TextFits, TextRounding
<1>10. StringInv'
  BY <1>2, <1>3, <1>9, StringsStay
<1>11. QED
  BY <1>2, <1>3, <1>4, <1>7, <1>8, <1>10, StringStep DEF StringLabels

LEMMA ReturnStringsKeeps == IInv /\ ReturnStrings => IInv'
<1> SUFFICES ASSUME IInv, ReturnStrings PROVE IInv'
  OBVIOUS
<1>1. Steady /\ axis' = axis /\ product' = product /\ count' = count /\ used' = used
      /\ edges' = edges /\ pc = "strings" /\ outcome' = outcome
      /\ buffers' = [buffers EXCEPT !["raw"] = 0, !["heap"] = 0]
      /\ pc' = (IF call.want = "edges" THEN "chargePairs" ELSE "done")
  BY DEF ReturnStrings, Steady, Hold
<1>2. pc \in StringLabels /\ pc \in EdgeLabels
  BY <1>1 DEF StringLabels, EdgeLabels
<1>3. /\ Headers \in Nat /\ TextBytes \in Nat /\ buffers \in [Kinds -> Nat]
      /\ RawStrings \in Nat /\ HeapBytes \in Nat /\ Headers <= IsizeMax /\ IsizeMax \in Nat
      /\ Spent \in Int /\ edges \in Usize /\ used \in Usize /\ used >= used
      /\ Limited => RawStrings + HeapBytes + Headers + TextBytes <= Spent
  BY <1>2, StringsKnown
<1>4. Live(RawStrings, HeapBytes, Headers, buffers["text"], 0) /\ TextFits
  BY <1>1, <1>2 DEF IInv, BufferInv, StringInv
<1>5. /\ Live(0, 0, Headers, buffers["text"], 0)' /\ buffers' \in [Kinds -> Nat]
      /\ buffers'["text"] = buffers["text"] /\ buffers["text"] \in Nat
  BY <1>1, <1>3, <1>4, SizesStay DEF Live, Kinds
<1>9. TextFits' /\ TextRounding' = TextRounding
  BY <1>1, <1>4, <1>5, TextStays
<1>6. CASE call.want = "edges"
  <2>1. BufferInv'
    BY <1>1, <1>5, <1>6 DEF BufferInv, EmptyLabels, TensorLabels
  <2>2. StringInv'
    BY <1>1, <1>2, <1>6, <1>9, StringsStay
  <2>3. QED
    BY <1>1, <1>2, <1>3, <1>5, <1>6, <2>1, <2>2, StringStep DEF StringLabels
<1>7. CASE call.want # "edges"
  <2>1. Held' = Headers + buffers["text"]
    BY <1>1, <1>3, <1>5, SizesStay DEF Held, Live
  <2>2. Limited => Headers + buffers["text"] <= Spent + TextRounding
    BY <1>3, <1>4, <1>5, RoundingNat DEF TextFits
  <2>3. PaidBeforeHeld'
    <3>1. PairRounding' = 0 /\ TextRounding \in Nat
      BY <1>5, RoundingNat DEF Live, PairRounding
    <3>2. QED
      BY <1>1, <1>3, <1>9, <2>1, <2>2, <3>1 DEF PaidBeforeHeld, Spent, Limited, Steady
  <2>4. BuffersFitObjects'
    BY <1>1, <1>3, <1>5, SizesStay DEF BuffersFitObjects, Live
  <2>5. QED
    BY <1>1, <1>3, <1>5, <1>7, <2>3, <2>4, DoneStep
<1>8. QED
  BY <1>6, <1>7

LEMMA ChargePairsKeeps == IInv /\ ChargePairs => IInv'
<1> SUFFICES ASSUME IInv, ChargePairs PROVE IInv'
  OBVIOUS
<1>1. Steady /\ axis' = axis /\ product' = product /\ count' = count
      /\ edges' = edges /\ pc = "chargePairs"
      /\ Charge(CheckedMul(EdgeCount, PairSize), "pairUp")
  BY DEF ChargePairs, Steady
<1>2. pc \in StringLabels /\ pc \in EdgeLabels
  BY <1>1 DEF StringLabels, EdgeLabels
<1>3. /\ TypeOK /\ LedgerInv /\ Readable /\ StringsFit /\ axis \in Nat \ {0}
      /\ product \in Usize /\ edges \in Usize /\ count \in Usize /\ buffers \in [Kinds -> Nat]
      /\ Spent \in Int /\ StringBytes \in Nat /\ (Limited => StringBytes <= Spent)
  BY <1>2, StringsKnown DEF StringBytes
<1>4. call.want = "edges" /\ EdgeShape
  BY <1>1 DEF IInv, CountInv, EdgeLabels, StringLabels
<1>5. EdgeCount \in Nat /\ EdgeCount * PairSize \in Nat
  <2>1. ds.extents \in Seq(Nat) /\ Len(ds.extents) = 2 /\ PairSize \in Nat
    BY <1>3, <1>4, Typing, MachineFacts DEF EdgeShape
  <2>2. EdgeCount \in Nat
    BY <2>1 DEF EdgeCount
  <2>3. QED
    BY <2>1, <2>2
<1>6. /\ CheckedMul(EdgeCount, PairSize) \in Requests
      /\ CheckedMul(EdgeCount, PairSize) # Overflow =>
           CheckedMul(EdgeCount, PairSize) = EdgeCount * PairSize
  BY <1>5, MulFacts, MachineFacts
<1>7. CASE pc' = "failed" /\ outcome' = "ReadLimitExceeded" /\ buffers' = NoBuffers
           /\ used' = used
  BY <1>1, <1>3, <1>7, FailureKeeps DEF Outcomes
<1>8. CASE /\ pc' = "pairUp" /\ buffers' = buffers /\ outcome' = outcome
           /\ used' \in Usize /\ used' >= used
           /\ Limited => CheckedMul(EdgeCount, PairSize) # Overflow
                         /\ used' = used + CheckedMul(EdgeCount, PairSize)
  <2>1. Live(0, 0, Headers, buffers["text"], 0) /\ TextFits
    BY <1>1, <1>2 DEF IInv, BufferInv, StringInv
  <2>2. Live(0, 0, Headers, buffers["text"], 0)' /\ TextFits'
    BY <1>1, <1>8, <2>1, SizesStay, TextStays DEF Live
  <2>3. BufferInv' /\ buffers' \in [Kinds -> Nat]
    BY <1>3, <1>8, <2>2 DEF BufferInv, EmptyLabels, TensorLabels
  <2>4. Limited => StringBytes + EdgeCount * PairSize <= used' - call.start
    <3>1. used \in Nat /\ call.start \in Nat
      BY <1>3, Typing, UsizeAssumption DEF Usize
    <3>2. Limited => used' = used + EdgeCount * PairSize
      BY <1>6, <1>8
    <3>3. QED
      BY <1>3, <1>5, <3>1, <3>2 DEF Spent
  <2>5. /\ StringBytes' = StringBytes /\ EdgeCount' = EdgeCount /\ Readable' = Readable
        /\ RawStrings' = RawStrings /\ Headers' = Headers /\ TextBytes' = TextBytes
        /\ Limited' = Limited /\ call' = call
    BY <1>1, SizesStay DEF Steady
  <2>6. Limited => StringBytes <= used' - call.start
    <3>1. used' \in Nat /\ call.start \in Nat
      BY <1>3, <1>8, Typing, UsizeAssumption DEF Usize
    <3>2. QED
      BY <1>3, <1>5, <2>4, <3>1
  <2>7. StringsFit'
    BY <1>3, <2>5, <2>6 DEF StringsFit, Spent
  <2>8. StringInv'
    BY <1>3, <1>8, <2>2, <2>4, <2>5, <2>7 DEF StringInv, Spent
  <2>9. QED
    BY <1>1, <1>2, <1>3, <1>4, <1>8, <2>3, <2>8, StringStep DEF StringLabels
<1>9. QED
  BY <1>1, <1>3, <1>6, <1>7, <1>8, ChargeFacts

(* What is known of the edges while their pairs are collected.              *)
LEMMA PairsKnown ==
  ASSUME IInv, pc \in {"pairUp", "growPairs", "movePairs"}
  PROVE  /\ pc \in StringLabels /\ pc \in EdgeLabels /\ call.want = "edges"
         /\ EdgeCount \in Nat /\ PairSize \in Nat /\ MostPairs \in Nat /\ FirstPairs \in Nat
         /\ EdgeCount <= MostPairs /\ 3 * EdgeCount <= MostPairs /\ FirstPairs <= MostPairs
         /\ TextFits /\ (Limited => StringBytes + EdgeCount * PairSize <= Spent)
<1>1. /\ pc \in StringLabels /\ pc \in EdgeLabels /\ call.want = "edges" /\ EdgeShape /\ TypeOK
      /\ TextFits /\ (Limited => StringBytes + EdgeCount * PairSize <= Spent)
  BY DEF StringLabels, EdgeLabels, IInv, CountInv, StringInv
<1>2. EdgeCount \in Nat
  <2>1. ds.extents \in Seq(Nat) /\ Len(ds.extents) = 2
    BY <1>1, Typing DEF EdgeShape
  <2>2. QED
    BY <2>1 DEF EdgeCount
<1>3. PairSize \in Nat /\ FirstPairs \in Nat
  BY MachineFacts, DecoderAssumption
<1>4. QED
  BY <1>1, <1>2, <1>3 DEF MostPairs

(* A step that changes no buffer but those of the pairs.                    *)
LEMMA PairStep ==
  ASSUME IInv, Steady, axis' = axis, product' = product, count' = count, edges' = edges,
         used' = used, outcome' = outcome,
         pc \in {"pairUp", "growPairs", "movePairs"}, pc' \in {"growPairs", "movePairs"},
         NEW values \in Nat, NEW moved \in Nat,
         buffers' = [buffers EXCEPT !["values"] = values, !["moved"] = moved],
         pc' = "growPairs" => moved = 0,
         moved <= values, values <= IsizeMax, values + moved <= MostPairs * PairSize
  PROVE  IInv'
<1>1. /\ pc \in StringLabels /\ pc \in EdgeLabels /\ call.want = "edges" /\ TextFits
      /\ (Limited => StringBytes + EdgeCount * PairSize <= Spent)
  BY PairsKnown
<1>2. /\ buffers \in [Kinds -> Nat] /\ used \in Usize /\ used >= used /\ Readable /\ StringsFit
  BY <1>1, StringsKnown
<1>3. buffers["raw"] = 0 /\ buffers["heap"] = 0 /\ buffers["headers"] = Headers
  BY DEF IInv, BufferInv, Live
<1>4. /\ buffers' \in [Kinds -> Nat] /\ buffers'["raw"] = 0 /\ buffers'["heap"] = 0
      /\ buffers'["headers"] = Headers /\ buffers'["text"] = buffers["text"]
      /\ buffers'["values"] = values /\ buffers'["moved"] = moved
  BY <1>2, <1>3 DEF Kinds
<1>5. Headers' = Headers /\ MostPairs' = MostPairs /\ TextFits'
  BY <1>1, <1>4, SizesStay, TextStays DEF MostPairs
<1>6. BufferInv'
  BY <1>4, <1>5 DEF BufferInv, Live, EmptyLabels, TensorLabels
<1>7. PairsFit'
  BY <1>4, <1>5 DEF PairsFit
<1>8. StringsFit' /\ Readable'
  BY <1>2, SizesStay DEF StringsFit, Spent, Steady
<1>9. Limited' => StringBytes' + EdgeCount' * PairSize <= Spent'
  BY <1>1, SizesStay DEF Spent, Steady
<1>10. StringInv'
  BY <1>5, <1>7, <1>8, <1>9 DEF StringInv
<1>11. QED
  BY <1>1, <1>2, <1>4, <1>6, <1>10, StringStep DEF StringLabels

LEMMA PairUpKeeps == IInv /\ PairUp => IInv'
<1> SUFFICES ASSUME IInv, PairUp PROVE IInv'
  OBVIOUS
<1> DEFINE first == FirstPairs * PairSize
<1>1. Steady /\ axis' = axis /\ product' = product /\ count' = count /\ used' = used
      /\ edges' = edges /\ pc = "pairUp" /\ pc' = "growPairs" /\ outcome' = outcome
      /\ buffers' = [buffers EXCEPT !["values"] = first]
  BY DEF PairUp, Steady, Hold
<1>2. /\ PairSize \in Nat /\ MostPairs \in Nat /\ FirstPairs \in Nat
      /\ FirstPairs <= MostPairs
  BY <1>1, PairsKnown
<1>3. /\ first \in Nat /\ 0 <= first /\ first + 0 <= MostPairs * PairSize
      /\ first <= IsizeMax /\ 0 \in Nat
  BY <1>2, TimesGrow, DecoderAssumption
<1>4. buffers["moved"] = 0 /\ buffers \in [Kinds -> Nat]
  BY <1>1 DEF IInv, TypeOK, BufferInv, Live
<1>5. buffers' = [buffers EXCEPT !["values"] = first, !["moved"] = 0]
  BY <1>1, <1>4 DEF Kinds
<1> HIDE DEF first
<1>6. QED
  BY <1>1, <1>3, <1>5, PairStep

LEMMA GrowPairsKeeps == IInv /\ GrowPairs => IInv'
<1> SUFFICES ASSUME IInv, GrowPairs PROVE IInv'
  OBVIOUS
<1> DEFINE size == buffers["values"]
<1>1. Steady /\ axis' = axis /\ product' = product /\ count' = count /\ used' = used
      /\ edges' = edges /\ pc = "growPairs"
  BY DEF GrowPairs, Steady
<1>2. /\ pc \in StringLabels /\ EdgeCount \in Nat /\ PairSize \in Nat /\ MostPairs \in Nat
      /\ EdgeCount <= MostPairs /\ 3 * EdgeCount <= MostPairs /\ call.want = "edges"
      /\ TextFits /\ (Limited => StringBytes + EdgeCount * PairSize <= Spent)
  BY <1>1, PairsKnown
<1>3. /\ PairsFit /\ Live(0, 0, Headers, buffers["text"], size)
      /\ buffers \in [Kinds -> Nat] /\ axis \in Nat \ {0} /\ product \in Usize
      /\ edges \in Usize /\ count \in Usize /\ TypeOK
  BY <1>1 DEF IInv, TypeOK, StringInv, BufferInv
<1>4. /\ size \in Nat /\ buffers["moved"] = 0 /\ buffers["text"] \in Nat /\ IsizeMax \in Nat
      /\ size <= IsizeMax /\ size <= MostPairs * PairSize
  BY <1>2, <1>3, MachineFacts DEF PairsFit, Live, Kinds
<1>5. CASE Fail("panic")
  BY <1>1, <1>3, <1>5, FailureKeeps DEF Fail, Outcomes
<1>6. ASSUME size < EdgeCount * PairSize, 2 * size <= IsizeMax,
             NEW moved \in {0, size}, pc' = "growPairs" => moved = 0,
             pc' \in {"growPairs", "movePairs"}, outcome' = outcome,
             buffers' = [buffers EXCEPT !["values"] = 2 * size, !["moved"] = moved]
      PROVE  IInv'
  <2>1. 3 * (EdgeCount * PairSize) <= MostPairs * PairSize
    <3>1. (3 * EdgeCount) * PairSize = 3 * (EdgeCount * PairSize)
      BY <1>2
    <3>2. 3 * EdgeCount \in Nat
      BY <1>2
    <3>3. QED
      BY <1>2, <3>1, <3>2, TimesGrow
  <2>2. EdgeCount * PairSize \in Nat /\ MostPairs * PairSize \in Nat
    BY <1>2
  <2>3. /\ 2 * size \in Nat /\ moved \in Nat /\ moved <= 2 * size
        /\ 2 * size + moved <= MostPairs * PairSize
    BY <1>4, <1>6, <2>1, <2>2
  <2>4. QED
    BY <1>1, <1>6, <2>3, PairStep
<1>7. CASE size < EdgeCount * PairSize /\ 2 * size <= IsizeMax
           /\ Hold([buffers EXCEPT !["values"] = 2 * size], "growPairs")
  <2>1. buffers' = [buffers EXCEPT !["values"] = 2 * size, !["moved"] = 0]
    BY <1>3, <1>4, <1>7 DEF Hold, Kinds
  <2>2. QED
    BY <1>6, <1>7, <2>1 DEF Hold
<1>8. CASE size < EdgeCount * PairSize /\ 2 * size <= IsizeMax
           /\ Hold([buffers EXCEPT !["values"] = 2 * size, !["moved"] = size], "movePairs")
  BY <1>6, <1>8 DEF Hold
<1>9. CASE Goto("done")
  <2>1. /\ pc' = "done" /\ outcome' = outcome /\ buffers' = buffers
    BY <1>9 DEF Goto
  <2>2. /\ Headers \in Nat /\ Headers <= IsizeMax /\ StringBytes \in Nat
        /\ Headers + TextBytes <= StringBytes /\ TextBytes \in Nat /\ Spent \in Int
        /\ ds.class \in Textual
    BY <1>2, StringsKnown DEF StringBytes, Readable
  <2>3. Held = Headers + buffers["text"] + size
    BY <1>3, <1>4, <2>2 DEF Held, Live
  <2>4. (MostPairs - EdgeCount) * PairSize = MostPairs * PairSize - EdgeCount * PairSize
        /\ EdgeCount * PairSize \in Nat /\ MostPairs * PairSize \in Nat
    BY <1>2
  <2>5. size <= EdgeCount * PairSize + PairRounding /\ PairRounding \in Int
    BY <1>4, <2>2, <2>4 DEF PairRounding
  <2>6. buffers["text"] <= TextBytes + TextRounding /\ TextRounding \in Nat
    BY <1>2, RoundingNat DEF TextFits
  <2>7. Limited => Held <= Spent + TextRounding + PairRounding
    BY <1>2, <1>4, <2>2, <2>3, <2>4, <2>5, <2>6
  <2>8. PaidBeforeHeld'
    <3>1. Held' = Held /\ TextRounding' = TextRounding /\ PairRounding' = PairRounding
      BY <1>1, <2>1, SizesStay DEF Held, TextRounding, PairRounding, MostPairs, Steady
    <3>2. QED
      BY <1>1, <2>7, <3>1 DEF PaidBeforeHeld, Spent, Limited, Steady
  <2>9. BuffersFitObjects'
    BY <1>3, <1>4, <2>1, <2>2 DEF BuffersFitObjects, Live
  <2>10. QED
    BY <1>1, <1>3, <2>1, <2>8, <2>9, DoneStep
<1>10. QED
  BY <1>5, <1>7, <1>8, <1>9 DEF GrowPairs

LEMMA MovePairsKeeps == IInv /\ MovePairs => IInv'
<1> SUFFICES ASSUME IInv, MovePairs PROVE IInv'
  OBVIOUS
<1>1. Steady /\ axis' = axis /\ product' = product /\ count' = count /\ used' = used
      /\ edges' = edges /\ pc = "movePairs" /\ pc' = "growPairs" /\ outcome' = outcome
      /\ buffers' = [buffers EXCEPT !["moved"] = 0]
  BY DEF MovePairs, Steady, Hold
<1>2. PairsFit /\ buffers \in [Kinds -> Nat]
  BY <1>1 DEF IInv, TypeOK, StringInv
<1>3. MostPairs \in Nat /\ PairSize \in Nat /\ MostPairs * PairSize \in Nat
  BY <1>1, PairsKnown
<1>4. /\ buffers["values"] \in Nat /\ buffers["moved"] \in Nat
      /\ buffers' = [buffers EXCEPT !["values"] = buffers["values"], !["moved"] = 0]
  BY <1>1, <1>2 DEF Kinds
<1>5. /\ buffers["values"] + 0 <= MostPairs * PairSize /\ buffers["values"] <= IsizeMax
      /\ 0 <= buffers["values"] /\ 0 \in Nat
  BY <1>2, <1>3, <1>4 DEF PairsFit
<1>6. QED
  BY <1>1, <1>4, <1>5, PairStep

-----------------------------------------------------------------------------
(* The theorems. *)

LEMMA StutterKeeps == IInv /\ UNCHANGED vars => IInv'
<1> SUFFICES ASSUME IInv, UNCHANGED vars PROVE IInv'
  OBVIOUS
<1>1. Steady /\ pc' = pc /\ axis' = axis /\ product' = product /\ count' = count
      /\ used' = used /\ edges' = edges /\ buffers' = buffers /\ outcome' = outcome
  BY DEF vars, Steady
<1>2. TypeOK' /\ LedgerInv' /\ ScalarInv' /\ DoneInv'
  BY <1>1, SizesStay DEF IInv, TypeOK, LedgerInv, ScalarInv, DoneInv, PaidBeforeHeld,
     BuffersFitObjects, Held, Limited, Spent, Steady, ReadsTensor, TextRounding, PairRounding,
     MostPairs
<1>3. BufferInv'
  BY <1>1, SizesStay DEF IInv, BufferInv, Live
<1>4. NumberInv'
  BY <1>1, SizesStay DEF IInv, NumberInv, Spent, Steady
<1>5. StringInv'
  BY <1>1, SizesStay DEF IInv, StringInv, StringsFit, Spent, Steady, TextFits, TextRounding,
     PairsFit, MostPairs
<1>6. CountInv'
  BY <1>1, SizesStay DEF IInv, CountInv, Steady
<1>7. QED
  BY <1>2, <1>3, <1>4, <1>5, <1>6 DEF IInv

(* The inductive invariant holds at every step of every decoding.           *)
THEOREM Inductive == Spec => []IInv
<1>1. ASSUME IInv, [Next]_vars PROVE IInv'
  <2>1. CASE Dispatch \/ ChargeScalar \/ ReadScalar \/ CountElements \/ CountAxis \/ CountDone
    BY <1>1, <2>1, DispatchKeeps, ChargeScalarKeeps, ReadScalarKeeps, CountElementsKeeps,
       CountAxisKeeps, CountDoneKeeps
  <2>2. CASE \/ ChargeNumbers \/ ReadNumbers \/ NarrowU64 \/ BuildTensor \/ ShapeAxis
             \/ ShapeDone
    BY <1>1, <2>2, ChargeNumbersKeeps, ReadNumbersKeeps, NarrowU64Keeps, BuildTensorKeeps,
       ShapeAxisKeeps, ShapeDoneKeeps
  <2>3. CASE ChargeWords \/ CollectWords \/ ChargeDefault \/ Synthesize
    BY <1>1, <2>3, ChargeWordsKeeps, CollectWordsKeeps, ChargeDefaultKeeps, SynthesizeKeeps
  <2>4. CASE OneString \/ StringList \/ ChargeEdges
    BY <1>1, <2>4, OneStringKeeps, StringListKeeps, ChargeEdgesKeeps
  <2>5. CASE \/ ChargeFixed \/ ChargeNothing \/ ChargeVlen \/ ReadStrings \/ CopyStrings
             \/ ReturnStrings
    BY <1>1, <2>5, ChargeFixedKeeps, ChargeNothingKeeps, ChargeVlenKeeps, ReadStringsKeeps,
       CopyStringsKeeps, ReturnStringsKeeps
  <2>6. CASE ChargePairs \/ PairUp \/ GrowPairs \/ MovePairs
    BY <1>1, <2>6, ChargePairsKeeps, PairUpKeeps, GrowPairsKeeps, MovePairsKeeps
  <2>7. CASE UNCHANGED vars
    BY <1>1, <2>7, StutterKeeps
  <2>8. QED
    BY <1>1, <2>1, <2>2, <2>3, <2>4, <2>5, <2>6, <2>7 DEF Next
<1>2. QED
  BY InitEstablishes, <1>1, PTL DEF Spec

(* Every count, product and ledger of the decoder stays within usize,       *)
(* whatever the extents of the dataset (checked_shape_product, charge).     *)
THEOREM DecoderTypeCorrect == Spec => []TypeOK
<1>1. IInv => TypeOK
  BY DEF IInv
<1>2. QED
  BY Inductive, <1>1, PTL

(* What every label holds has been paid for.                                *)
LEMMA PaidAtEveryLabel == IInv => PaidBeforeHeld
<1> SUFFICES ASSUME IInv, Limited PROVE Held <= Spent + TextRounding + PairRounding
  BY DEF PaidBeforeHeld, Limited, Spent
<1>1. TypeOK /\ LedgerInv /\ BufferInv /\ buffers \in [Kinds -> Nat] /\ TextRounding \in Nat
  BY RoundingNat DEF IInv, TypeOK
<1>2. Spent \in Nat
  BY <1>1, Typing, UsizeAssumption DEF Spent, LedgerInv, Usize
<1>3. CASE pc \in EmptyLabels
  BY <1>1, <1>2, <1>3 DEF BufferInv, Live, Held, PairRounding
<1>4. CASE pc \in {"narrow", "build"} \cup TensorLabels
  <2>1. /\ NumberBytes \in Nat /\ SecondBytes \in Nat
        /\ NumberBytes + SecondBytes <= Spent
    BY <1>4, TensorKnown DEF NumberLabels
  <2>2. Held = NumberBytes \/ Held = NumberBytes + SecondBytes
    BY <1>1, <1>4, <2>1 DEF BufferInv, Live, Held
  <2>3. PairRounding = 0
    BY <1>4 DEF IInv, NumberInv, NumberLabels, PairRounding, Numeric, Textual
  <2>4. QED
    BY <1>1, <1>2, <2>1, <2>2, <2>3
<1>5. CASE pc \in {"copyStrings", "strings", "chargePairs", "pairUp"}
  <2>1. /\ RawStrings \in Nat /\ HeapBytes \in Nat /\ Headers \in Nat /\ TextBytes \in Nat
        /\ RawStrings + HeapBytes + Headers + TextBytes <= Spent
    BY <1>5, StringsKnown DEF StringLabels
  <2>2. /\ buffers["text"] \in Nat /\ PairRounding = 0
        /\ buffers["text"] <= TextBytes + TextRounding
    BY <1>1, <1>5, <2>1
       DEF BufferInv, Live, PairRounding, IInv, StringInv, StringLabels, TextFits, Kinds
  <2>3. CASE pc = "copyStrings"
    <3>1. Held = RawStrings + HeapBytes
      BY <1>1, <2>1, <2>3 DEF BufferInv, Live, Held
    <3>2. QED
      BY <1>1, <1>2, <2>1, <2>2, <3>1
  <2>4. CASE pc = "strings"
    <3>1. Held = RawStrings + HeapBytes + Headers + buffers["text"]
      BY <1>1, <2>1, <2>2, <2>4 DEF BufferInv, Live, Held
    <3>2. QED
      BY <1>1, <1>2, <2>1, <2>2, <3>1
  <2>5. CASE pc \in {"chargePairs", "pairUp"}
    <3>1. Held = Headers + buffers["text"]
      BY <1>1, <2>1, <2>2, <2>5 DEF BufferInv, Live, Held
    <3>2. QED
      BY <1>1, <1>2, <2>1, <2>2, <3>1
  <2>6. QED
    BY <1>5, <2>3, <2>4, <2>5
<1>6. CASE pc \in {"growPairs", "movePairs"}
  <2>1. /\ EdgeCount \in Nat /\ PairSize \in Nat /\ MostPairs \in Nat
        /\ EdgeCount <= MostPairs /\ pc \in StringLabels
        /\ StringBytes + EdgeCount * PairSize <= Spent /\ TextFits
    BY <1>6, PairsKnown
  <2>2. /\ Headers \in Nat /\ TextBytes \in Nat /\ Headers + TextBytes <= StringBytes
        /\ StringBytes \in Nat /\ ds.class \in Textual
    BY <2>1, StringsKnown DEF StringBytes, Readable
  <2>3. /\ PairsFit /\ buffers["values"] \in Nat /\ buffers["moved"] \in Nat
        /\ buffers["text"] \in Nat
    BY <1>1, <1>6 DEF IInv, StringInv, Kinds
  <2>4. Held = Headers + buffers["text"] + buffers["values"] + buffers["moved"]
    BY <1>1, <1>6, <2>2, <2>3 DEF BufferInv, Live, Held
  <2>5. (MostPairs - EdgeCount) * PairSize = MostPairs * PairSize - EdgeCount * PairSize
        /\ EdgeCount * PairSize \in Nat /\ MostPairs * PairSize \in Nat
    BY <2>1
  <2>6. buffers["values"] + buffers["moved"] <= EdgeCount * PairSize + PairRounding
        /\ PairRounding \in Int
    BY <2>2, <2>3, <2>5 DEF PairsFit, PairRounding
  <2>7. buffers["text"] <= TextBytes + TextRounding
    BY <2>1 DEF TextFits
  <2>8. QED
    BY <1>1, <1>2, <2>1, <2>2, <2>3, <2>4, <2>5, <2>6, <2>7
<1>7. CASE pc = "done"
  BY <1>7 DEF IInv, DoneInv, PaidBeforeHeld, Limited, Spent
<1>8. QED
  BY <1>1, <1>3, <1>4, <1>5, <1>6, <1>7 DEF TypeOK, Labels, EmptyLabels, TensorLabels

(* `Charge before allocation': under any limit, no decoding of any dataset  *)
(* ever holds a byte that its ledger has not paid (ReadBudget::charge), but *)
(* for the rounding of short strings and of the vector of edge pairs, which *)
(* the property bounds (ToString and the collect of read_edges).            *)
THEOREM PaidFirst == Spec => []PaidBeforeHeld
BY Inductive, PaidAtEveryLabel, PTL

(* No buffer at any label exceeds the largest object.                       *)
LEMMA FitsAtEveryLabel == IInv => BuffersFitObjects
<1> SUFFICES ASSUME IInv
             PROVE  /\ buffers["raw"] <= IsizeMax /\ buffers["headers"] <= IsizeMax
                    /\ buffers["values"] <= IsizeMax /\ buffers["moved"] <= IsizeMax
  BY DEF BuffersFitObjects
<1>1. TypeOK /\ BufferInv /\ IsizeMax \in Nat /\ buffers \in [Kinds -> Nat]
  BY MachineFacts DEF IInv, TypeOK
<1>2. CASE pc \in EmptyLabels
  BY <1>1, <1>2 DEF BufferInv, Live
<1>3. CASE pc \in {"narrow", "build"} \cup TensorLabels
  <2>1. NumberBytes <= IsizeMax /\ SecondBytes <= IsizeMax
    BY <1>3, TensorKnown DEF NumberLabels
  <2>2. QED
    BY <1>1, <1>3, <2>1 DEF BufferInv, Live
<1>4. CASE pc \in {"copyStrings", "strings", "chargePairs", "pairUp"}
  <2>1. RawStrings <= IsizeMax /\ Headers <= IsizeMax
    BY <1>4, StringsKnown DEF StringLabels
  <2>2. QED
    BY <1>1, <1>4, <2>1 DEF BufferInv, Live
<1>5. CASE pc \in {"growPairs", "movePairs"}
  <2>1. Headers <= IsizeMax /\ PairsFit
    BY <1>5, StringsKnown DEF StringLabels, IInv, StringInv
  <2>2. buffers["values"] \in Nat /\ buffers["moved"] \in Nat
    BY <1>1 DEF Kinds
  <2>3. QED
    BY <1>1, <1>5, <2>1, <2>2 DEF BufferInv, Live, PairsFit
<1>6. CASE pc = "done"
  BY <1>6 DEF IInv, DoneInv, BuffersFitObjects
<1>7. QED
  BY <1>1, <1>2, <1>3, <1>4, <1>5, <1>6 DEF TypeOK, Labels, EmptyLabels, TensorLabels

(* With or without a limit, no buffer is asked of the allocator that        *)
(* exceeds isize::MAX, although unlimited reads let the plain charge of a   *)
(* second buffer overflow and the vector of pairs grows past its charge     *)
(* (allocation_bytes, charge_allocation, the collect of read_edges).        *)
THEOREM BuffersFit == Spec => []BuffersFitObjects
BY Inductive, FitsAtEveryLabel, PTL

-----------------------------------------------------------------------------
(* The contract. *)

(* The products of a shape unfold one axis at a time.                       *)
LEMMA ProductsUnfold ==
  ASSUME NEW s \in Seq(Nat)
  PROVE  /\ Products(s) \in [0 .. Len(s) -> Nat]
         /\ Products(s)[0] = 1
         /\ \A n \in 1 .. Len(s) : Products(s)[n] = Products(s)[n - 1] * s[n]
<1> DEFINE step == [x \in Nat \X (1 .. Len(s)) |-> x[1] * s[x[2]]]
           Rec(p) == [n \in 0 .. Len(s) |-> IF n = 0 THEN 1 ELSE p[n - 1] * s[n]]
           P == Products(s)
           S == {n \in Nat : n <= Len(s) => P[n] \in Nat}
<1>1. step \in [Nat \X (1 .. Len(s)) -> Nat] /\ Len(s) \in Nat /\ 1 \in Nat
  OBVIOUS
<1>2. PICK f \in [0 .. Len(s) -> Nat] : Follows(f, 1, step, Len(s))
  <2> HIDE DEF step
  <2>1. QED
    BY <1>1, RecursionExists
<1>3. f = Rec(f)
  <2>1. SUFFICES ASSUME NEW n \in 1 .. Len(s) PROVE f[n] = f[n - 1] * s[n]
    BY <1>2 DEF Follows
  <2>2. n - 1 \in 0 .. Len(s) /\ f[n - 1] \in Nat
    BY <1>1
  <2>3. <<f[n - 1], n>> \in Nat \X (1 .. Len(s))
    BY <2>2
  <2>4. f[n] = step[<<f[n - 1], n>>]
    <3> HIDE DEF step
    <3>1. QED
      BY <1>2 DEF Follows
  <2>5. QED
    BY <2>3, <2>4
<1>4. P = Rec(P)
  BY <1>3 DEF Products
<1>5. P[0] = 1 /\ \A n \in 1 .. Len(s) : P[n] = P[n - 1] * s[n]
  <2>1. \A n \in 0 .. Len(s) : P[n] = IF n = 0 THEN 1 ELSE P[n - 1] * s[n]
    BY <1>4
  <2> HIDE DEF P
  <2>2. QED
    BY <1>1, <2>1
<1>6. Nat \subseteq S
  <2> HIDE DEF P
  <2>1. 0 \in S
    BY <1>5
  <2>2. ASSUME NEW n \in Nat, n \in S PROVE n + 1 \in S
    <3>1. n + 1 <= Len(s) => P[n + 1] = P[n] * s[n + 1] /\ s[n + 1] \in Nat /\ P[n] \in Nat
      BY <1>5, <2>2
    <3>2. QED
      BY <3>1
  <2> HIDE DEF S
  <2>3. QED
    BY <2>1, <2>2, SetInduction
<1>7. P \in [0 .. Len(s) -> Nat]
  <2>1. \A n \in 0 .. Len(s) : P[n] \in Nat
    <3> HIDE DEF P
    <3>1. QED
      BY <1>1, <1>6
  <2>2. QED
    BY <1>4, <2>1
<1>8. QED
  BY <1>5, <1>7

(* A shape with a zero extent has product zero from there on.               *)
LEMMA ZeroProduct ==
  ASSUME NEW s \in Seq(Nat), NEW i \in 1 .. Len(s), s[i] = 0
  PROVE  Products(s)[Len(s)] = 0
<1> DEFINE P == Products(s)
           S == {n \in Nat : i + n <= Len(s) => P[i + n] = 0}
<1>1. /\ P \in [0 .. Len(s) -> Nat] /\ Len(s) \in Nat
      /\ \A n \in 1 .. Len(s) : P[n] = P[n - 1] * s[n]
  BY ProductsUnfold
<1> HIDE DEF P
<1>2. 0 \in S
  <2>1. i - 1 \in 0 .. Len(s)
    BY <1>1
  <2>2. P[i - 1] \in Nat /\ P[i] = P[i - 1] * 0
    BY <1>1, <2>1
  <2>3. QED
    BY <2>2
<1>3. ASSUME NEW n \in Nat, n \in S PROVE n + 1 \in S
  <2>1. SUFFICES ASSUME i + (n + 1) <= Len(s) PROVE P[i + (n + 1)] = 0
    OBVIOUS
  <2>2. /\ i + (n + 1) \in 1 .. Len(s) /\ (i + (n + 1)) - 1 = i + n
        /\ s[i + (n + 1)] \in Nat /\ P[i + n] = 0
    BY <1>1, <1>3, <2>1
  <2>3. P[i + (n + 1)] = P[(i + (n + 1)) - 1] * s[i + (n + 1)]
    BY <1>1, <2>2
  <2>4. QED
    BY <2>2, <2>3
<1>4. Nat \subseteq S
  <2> HIDE DEF S
  <2>1. QED
    BY <1>2, <1>3, SetInduction
<1>5. Len(s) - i \in Nat /\ Len(s) - i \in S /\ i + (Len(s) - i) = Len(s)
  <2>1. Len(s) - i \in Nat /\ i + (Len(s) - i) = Len(s)
    BY <1>1
  <2> HIDE DEF S
  <2>2. QED
    BY <1>4, <2>1
<1>6. QED
  BY <1>1, <1>5 DEF P

LEMMA TimesGrows ==
  ASSUME NEW a \in Nat, NEW b \in Nat \ {0}
  PROVE  a * b \in Nat /\ a <= a * b
<1>1. PICK c \in Nat : b = c + 1
  <2>1. b - 1 \in Nat /\ b = (b - 1) + 1
    OBVIOUS
  <2>2. QED
    BY <2>1
<1>2. a * b = a * c + a /\ a * c \in Nat
  BY <1>1
<1>3. QED
  BY <1>2

(* Without a zero extent the products never shrink.                         *)
LEMMA GrowingProduct ==
  ASSUME NEW s \in Seq(Nat), \A i \in 1 .. Len(s) : s[i] # 0, NEW k \in 0 .. Len(s)
  PROVE  Products(s)[k] <= Products(s)[Len(s)]
<1> DEFINE P == Products(s)
           S == {n \in Nat : k + n <= Len(s) => P[k] <= P[k + n]}
<1>1. /\ P \in [0 .. Len(s) -> Nat] /\ Len(s) \in Nat
      /\ \A n \in 1 .. Len(s) : P[n] = P[n - 1] * s[n]
  BY ProductsUnfold
<1> HIDE DEF P
<1>2. 0 \in S
  BY <1>1
<1>3. ASSUME NEW n \in Nat, n \in S PROVE n + 1 \in S
  <2>1. SUFFICES ASSUME k + (n + 1) <= Len(s) PROVE P[k] <= P[k + (n + 1)]
    OBVIOUS
  <2>2. /\ k + (n + 1) \in 1 .. Len(s) /\ (k + (n + 1)) - 1 = k + n
        /\ s[k + (n + 1)] \in Nat \ {0} /\ P[k + n] \in Nat /\ P[k] \in Nat
        /\ P[k] <= P[k + n]
    <3>1. k + (n + 1) \in 1 .. Len(s) /\ (k + (n + 1)) - 1 = k + n /\ k + n \in 0 .. Len(s)
      BY <1>1, <2>1
    <3>2. s[k + (n + 1)] \in Nat \ {0}
      BY <3>1
    <3>3. P[k + n] \in Nat /\ P[k] \in Nat
      BY <1>1, <3>1
    <3>4. k + n <= Len(s)
      BY <1>1, <2>1
    <3>5. QED
      BY <1>3, <3>1, <3>2, <3>3, <3>4
  <2>3. P[k + (n + 1)] = P[k + n] * s[k + (n + 1)]
    BY <1>1, <2>2
  <2>4. P[k + n] <= P[k + n] * s[k + (n + 1)] /\ P[k + n] * s[k + (n + 1)] \in Nat
    BY <2>2, TimesGrows
  <2>5. QED
    BY <2>2, <2>3, <2>4
<1>4. Nat \subseteq S
  <2> HIDE DEF S
  <2>1. QED
    BY <1>2, <1>3, SetInduction
<1>5. Len(s) - k \in Nat /\ Len(s) - k \in S /\ k + (Len(s) - k) = Len(s)
  <2>1. Len(s) - k \in Nat /\ k + (Len(s) - k) = Len(s)
    BY <1>1
  <2> HIDE DEF S
  <2>2. QED
    BY <1>4, <2>1
<1>6. QED
  BY <1>1, <1>5 DEF P

-----------------------------------------------------------------------------
(***************************************************************************)
(* The invariant, beside IInv: which of the wants and classes reach a      *)
(* label, what the products so far are in plain arithmetic, and exactly    *)
(* what the ledger of a limited read has charged there.                    *)
(***************************************************************************)

CountLabels  == {"count", "countAxis", "counted"}
Counted      == {"counted"} \cup NumberLabels \cup EdgeLabels
ShapedLabels == TensorLabels \ {"shapeAxis"}
PaidStrings  == {"readStrings"} \cup StringLabels

PathInv ==
  /\ pc # "failed" => outcome = "none"
  /\ pc \in {"scalar", "readScalar"} => ScalarNumber
  /\ pc \in CountLabels \cup NumberLabels \cup EdgeLabels => ~ScalarNumber /\ ~Refused
  /\ pc \in NumberLabels => ReadsTensor
  /\ pc \in {"build"} \cup TensorLabels => ~(ds.class = "u64" /\ ds.values = "big")
  /\ pc \in EdgeLabels =>
       /\ ~ReadsTensor
       /\ call.want = "edges" => count # 0
       /\ WantsOneString => count = 1
  /\ pc \in {"chargeWords", "collectWords"} => call.want = "extents"
  /\ pc \in {"chargeDefault", "synthesize"} => call.want = "default"

ShapeInv ==
  /\ pc \in {"dispatch", "count"} => count = 0
  /\ pc = "countAxis" => ~ds.null /\ ~TooWideExtent /\ ~ZeroExtent
  /\ pc \in {"countAxis", "shapeAxis"} =>
       /\ axis <= Len(ds.extents) + 1
       /\ product = Products(ds.extents)[axis - 1]
       /\ \A n \in 0 .. axis - 1 : Products(ds.extents)[n] <= UsizeMax
  /\ pc \in Counted => ~TooWideExtent /\ count = TrueCount
  /\ pc \in ShapedLabels => ~ds.null /\ ~ZeroHidesOverflow

TensorCost ==
  TrueCount * ElementSize[ds.class]
    + (IF ds.class = "u64" THEN TrueCount * ElementSize["int"] ELSE 0)

StringCost ==
  CASE ds.class = "vlen"  -> VlenCost
    [] ds.class = "fixed" -> FixedCost
    [] OTHER              -> 0

SpentInv ==
  Limited =>
    /\ used <= call.limit
    /\ pc \in {"dispatch", "scalar", "chargeStrings"} \cup CountLabels => used = call.start
    /\ pc = "readScalar" => used = call.start + ScalarSize
    /\ pc \in NumberLabels \ {"collectWords", "synthesize"} => used = call.start + TensorCost
    /\ pc = "collectWords" => used = (call.start + TensorCost) + TrueCount * WordSize
    /\ pc = "synthesize" => used = (call.start + TensorCost) + TrueCount * DtypeSize
    /\ pc \in PaidStrings \ {"pairUp", "growPairs", "movePairs"} => used = call.start + StringCost
    /\ pc \in {"pairUp", "growPairs", "movePairs"} =>
         used = (call.start + StringCost) + EdgeCount * PairSize

ExactInv ==
  PathInv /\ ShapeInv /\ SpentInv /\ ChargesExactly /\ RefusedOnlyOverBudget

-----------------------------------------------------------------------------
(* Requests that stand for an amount of plain arithmetic.                   *)

Stands(req, amount) ==
  /\ req \in Requests /\ amount \in Nat
  /\ req # Overflow => req = amount
  /\ req = Overflow => amount > UsizeMax \/ Unholdable

LEMMA MulStands ==
  ASSUME NEW a \in Nat, NEW b \in Nat
  PROVE  Stands(CheckedMul(a, b), a * b)
<1>1. a * b \in Nat /\ UsizeMax \in Nat
  BY UsizeAssumption
<1>2. CASE a * b <= UsizeMax
  BY <1>1, <1>2, MulFacts, OverflowAssumption DEF Stands
<1>3. CASE ~(a * b <= UsizeMax)
  BY <1>1, <1>3, MulFacts DEF Stands
<1>4. QED
  BY <1>2, <1>3

LEMMA AllocationStands ==
  ASSUME NEW n \in Nat, NEW width \in Nat, n * width > IsizeMax => Unholdable
  PROVE  Stands(AllocationBytes(n, width), n * width)
<1>1. n * width \in Nat
  OBVIOUS
<1>2. QED
  BY <1>1, AllocationFacts DEF Stands

LEMMA AddStands ==
  ASSUME NEW r, NEW s, NEW a, NEW b, Stands(r, a), Stands(s, b)
  PROVE  Stands(CheckedAdd(r, s), a + b)
<1>1. /\ r \in Requests /\ s \in Requests /\ a \in Nat /\ b \in Nat /\ a + b \in Nat
      /\ UsizeMax \in Nat
  BY UsizeAssumption DEF Stands
<1>2. CASE r = Overflow \/ s = Overflow
  <2>1. CheckedAdd(r, s) = Overflow
    BY <1>2 DEF CheckedAdd
  <2>2. a > UsizeMax \/ b > UsizeMax \/ Unholdable
    BY <1>2 DEF Stands
  <2>3. a + b > UsizeMax \/ Unholdable
    BY <1>1, <2>2
  <2>4. QED
    BY <1>1, <2>1, <2>3 DEF Stands, Requests
<1>3. CASE r # Overflow /\ s # Overflow
  <2>1. r = a /\ s = b
    BY <1>3 DEF Stands
  <2>2. CASE a + b <= UsizeMax
    <3>1. CheckedAdd(r, s) = a + b
      BY <1>3, <2>1, <2>2 DEF CheckedAdd
    <3>2. a + b \in Usize /\ a + b # Overflow
      BY <1>1, <2>2, OverflowAssumption DEF Usize
    <3>3. QED
      BY <1>1, <3>1, <3>2 DEF Stands, Requests
  <2>3. CASE ~(a + b <= UsizeMax)
    <3>1. CheckedAdd(r, s) = Overflow
      BY <2>1, <2>3 DEF CheckedAdd
    <3>2. QED
      BY <1>1, <2>3, <3>1 DEF Stands, Requests
  <2>4. QED
    BY <2>2, <2>3
<1>4. QED
  BY <1>2, <1>3

-----------------------------------------------------------------------------
(* What the dataset alone determines. *)

LEMMA CountFacts ==
  ASSUME TypeOK
  PROVE  /\ TrueCount \in Nat
         /\ ds.null => ds.extents = <<>>
         /\ Len(ds.extents) \in Nat
         /\ Products(ds.extents) \in [0 .. Len(ds.extents) -> Nat]
<1>1. ds.extents \in Seq(Nat)
  BY Typing
<1>2. /\ Len(ds.extents) \in Nat
      /\ Products(ds.extents) \in [0 .. Len(ds.extents) -> Nat]
  BY <1>1, ProductsUnfold
<1>3. Products(ds.extents)[Len(ds.extents)] \in Nat
  BY <1>2
<1>4. QED
  BY <1>2, <1>3, DecoderAssumption DEF TrueCount, TypeOK

LEMMA SizeFacts ==
  ASSUME TypeOK
  PROVE  /\ ds.class \in Numeric => ElementSize[ds.class] \in Nat
         /\ ElementSize["int"] \in Nat /\ ElementSize["vlen"] \in Nat
         /\ HeaderSize \in Nat /\ WordSize \in Nat /\ PairSize \in Nat /\ DtypeSize = ElementSize[ds.class]
         /\ ds.width \in Nat /\ VlenPayload \in Nat
         /\ ~Wide => Capacity \in Nat /\ ds.width <= Capacity
<1>1. ~Wide => Capacity \in Nat /\ ds.width <= Capacity
  <2>1. SUFFICES ASSUME ~Wide PROVE Capacity \in Nat /\ ds.width <= Capacity
    OBVIOUS
  <2>2. Rungs \in SUBSET Nat /\ Rungs # {}
    <3>1. FixedCaps \subseteq Nat
      BY DecoderAssumption, UsizeAssumption DEF Usize
    <3>2. QED
      BY <2>1, <3>1 DEF Rungs, Wide
  <2>3. Capacity \in Rungs
    BY <2>2, LadderFacts DEF Capacity
  <2>4. QED
    BY <2>2, <2>3 DEF Rungs
<1>2. QED
  BY <1>1, MachineFacts, Typing DEF Numeric, DtypeSize

LEMMA TensorStands ==
  ASSUME TypeOK, ds.class \in Numeric, ReadsTensor, count = TrueCount
  PROVE  Stands(NumericRequest, TensorCost)
<1> DEFINE own == TrueCount * ElementSize[ds.class]
           int == TrueCount * ElementSize["int"]
<1>1. /\ TrueCount \in Nat /\ ElementSize[ds.class] \in Nat /\ ElementSize["int"] \in Nat
  BY CountFacts, SizeFacts
<1>2. Stands(Elements(ds.class), own)
  <2>1. own > IsizeMax => Unholdable
    BY DEF Unholdable
  <2>2. QED
    BY <1>1, <2>1, AllocationStands DEF Elements
<1>3. CASE ds.class = "u64"
  <2>1. ElementSize["int"] = ElementSize["u64"]
    BY DecoderAssumption
  <2>2. Stands(Elements("u64"), own) /\ Stands(Elements("int"), int)
    BY <1>2, <1>3, <2>1 DEF Elements
  <2>3. Stands(CheckedAdd(Elements("u64"), Elements("int")), own + int)
    <3> HIDE DEF own, int
    <3>1. QED
      BY <2>2, AddStands
  <2>4. QED
    BY <1>3, <2>3 DEF NumericRequest, TensorCost
<1>4. CASE ds.class # "u64"
  <2>1. TensorCost = own + 0 /\ own \in Nat
    BY <1>1, <1>4 DEF TensorCost
  <2>2. NumericRequest = Elements(ds.class) /\ TensorCost = own
    BY <1>4, <2>1 DEF NumericRequest
  <2>3. QED
    BY <1>2, <2>2
<1>5. QED
  BY <1>3, <1>4

LEMMA HeadersStand ==
  ASSUME TypeOK, ~ReadsTensor, count = TrueCount
  PROVE  Stands(Headers, TrueCount * HeaderSize)
<1>1. TrueCount * HeaderSize > IsizeMax => Unholdable
  BY DEF Unholdable
<1>2. QED
  BY <1>1, CountFacts, SizeFacts, AllocationStands DEF Headers

LEMMA FixedStands ==
  ASSUME TypeOK, ds.class = "fixed", ~Wide, ~ReadsTensor, count = TrueCount
  PROVE  Stands(FixedRequest, StringCost)
<1>1. /\ TrueCount \in Nat /\ Capacity \in Nat /\ ds.width \in Nat /\ HeaderSize \in Nat
      /\ ds.width <= Capacity /\ IsizeMax \in Nat
  BY CountFacts, SizeFacts, MachineFacts
<1>2. Stands(FixedRaw, TrueCount * Capacity)
  <2>1. TrueCount * Capacity > IsizeMax => Unholdable
    BY DEF Unholdable
  <2>2. QED
    BY <1>1, <2>1, AllocationStands DEF FixedRaw
<1>3. Stands(FixedText, TrueCount * ds.width)
  <2>1. PICK more \in Nat : Capacity = ds.width + more
    <3>1. Capacity - ds.width \in Nat /\ Capacity = ds.width + (Capacity - ds.width)
      BY <1>1
    <3>2. QED
      BY <3>1
  <2>2. /\ TrueCount * Capacity = TrueCount * ds.width + TrueCount * more
        /\ TrueCount * ds.width \in Nat /\ TrueCount * more \in Nat
    BY <1>1, <2>1
  <2>3. TrueCount * ds.width > IsizeMax => TrueCount * Capacity > IsizeMax
    BY <1>1, <2>2
  <2>4. TrueCount * ds.width > IsizeMax => Unholdable
    BY <2>3 DEF Unholdable
  <2>5. QED
    BY <1>1, <2>4, AllocationStands DEF FixedText
<1>4. Stands(FixedRequest, (TrueCount * Capacity + TrueCount * HeaderSize) + TrueCount * ds.width)
  BY <1>2, <1>3, HeadersStand, AddStands DEF FixedRequest
<1>5. StringCost = (TrueCount * Capacity + TrueCount * HeaderSize) + TrueCount * ds.width
  BY <1>1 DEF StringCost, FixedCost
<1>6. QED
  BY <1>4, <1>5

LEMMA VlenStands ==
  ASSUME TypeOK, ds.class = "vlen", ~ReadsTensor, count = TrueCount
  PROVE  /\ Stands(VlenRequest, StringCost)
         /\ \E least \in Nat : Stands(VlenMinimum, least) /\ least <= StringCost
<1> DEFINE own  == TrueCount * ElementSize["vlen"]
           head == TrueCount * HeaderSize
<1>1. /\ TrueCount \in Nat /\ HeaderSize \in Nat /\ ElementSize["vlen"] \in Nat
      /\ VlenPayload \in Nat /\ own \in Nat /\ head \in Nat
  BY CountFacts, SizeFacts
<1>2. Stands(Elements("vlen"), own)
  <2>1. own > IsizeMax => Unholdable
    BY DEF Unholdable
  <2>2. QED
    BY <1>1, <2>1, AllocationStands DEF Elements
<1>3. Stands(Headers, head)
  BY HeadersStand
<1>4. Stands(Payload, VlenPayload)
  <2>1. VlenPayload * 1 = VlenPayload
    BY <1>1
  <2>2. VlenPayload * 1 > IsizeMax => Unholdable
    BY <2>1 DEF Unholdable
  <2>3. QED
    BY <1>1, <2>1, <2>2, AllocationStands DEF Payload
<1>5. StringCost = ((own + VlenPayload) + head) + VlenPayload
  <2>1. TrueCount * (ElementSize["vlen"] + HeaderSize) = own + head
    BY <1>1
  <2> HIDE DEF own, head
  <2>2. QED
    BY <1>1, <2>1 DEF StringCost, VlenCost
<1> HIDE DEF own, head
<1>6. Stands(VlenRequest, ((own + VlenPayload) + head) + VlenPayload)
  <2>1. Stands(CheckedAdd(Elements("vlen"), Payload), own + VlenPayload)
    BY <1>2, <1>4, AddStands
  <2>2. Stands(CheckedAdd(CheckedAdd(Elements("vlen"), Payload), Headers),
               (own + VlenPayload) + head)
    BY <1>3, <2>1, AddStands
  <2>3. QED
    BY <1>4, <2>2, AddStands DEF VlenRequest
<1>7. Stands(VlenMinimum, own + head)
  BY <1>2, <1>3, AddStands DEF VlenMinimum
<1>8. own + head \in Nat /\ own + head <= StringCost
  BY <1>1, <1>5
<1>9. QED
  BY <1>5, <1>6, <1>7, <1>8

(* The documented cost, want by want. *)

Extra ==
  CASE call.want = "extents" -> TrueCount * WordSize
    [] call.want = "default" -> TrueCount * DtypeSize
    [] OTHER                 -> 0

LEMMA TensorCosts ==
  ASSUME TypeOK, ds.class \in Numeric, ReadsTensor, ~ScalarNumber
  PROVE  FullCost = TensorCost + Extra /\ TensorCost \in Nat /\ Extra \in Nat
<1> DEFINE e == ElementSize[ds.class]
           i == IF ds.class = "u64" THEN ElementSize["int"] ELSE 0
           w == IF call.want = "extents" THEN WordSize ELSE 0
           d == IF call.want = "default" THEN DtypeSize ELSE 0
<1>1. /\ TrueCount \in Nat /\ e \in Nat /\ i \in Nat /\ w \in Nat /\ d \in Nat
      /\ WordSize \in Nat /\ DtypeSize \in Nat
  BY CountFacts, SizeFacts
<1>2. TensorCost = TrueCount * e + TrueCount * i
  BY <1>1 DEF TensorCost
<1>3. Extra = TrueCount * w + TrueCount * d
  BY <1>1 DEF Extra
<1>4. FullCost = TrueCount * (e + i + w + d)
  <2>1. call.want # "edges"
    BY DEF ReadsTensor
  <2>2. FullCost = NumberCost + 0
    BY <2>1 DEF FullCost, DocumentedCost
  <2>3. NumberCost = TrueCount * (e + i + w + d)
    BY DEF NumberCost
  <2> HIDE DEF e, i, w, d
  <2>4. QED
    BY <1>1, <2>2, <2>3
<1> HIDE DEF e, i, w, d
<1>5. TrueCount * (e + i + w + d)
        = (TrueCount * e + TrueCount * i) + (TrueCount * w + TrueCount * d)
  BY <1>1
<1>6. /\ TrueCount * e \in Nat /\ TrueCount * i \in Nat
      /\ TrueCount * w \in Nat /\ TrueCount * d \in Nat
  BY <1>1
<1>7. QED
  BY <1>2, <1>3, <1>4, <1>5, <1>6

PairCost == IF call.want = "edges" THEN (TrueCount \div 2) * PairSize ELSE 0

LEMMA StringCosts ==
  ASSUME TypeOK, ~ReadsTensor, ~ScalarNumber, call.want = "edges" => TrueCount # 0
  PROVE  FullCost = StringCost + PairCost /\ StringCost \in Nat /\ PairCost \in Nat
<1>1. /\ TrueCount \in Nat /\ HeaderSize \in Nat /\ ElementSize["vlen"] \in Nat
      /\ VlenPayload \in Nat /\ PairSize \in Nat /\ ds.width \in Nat
      /\ ~Wide => Capacity \in Nat
  BY CountFacts, SizeFacts
<1>2. TrueCount \div 2 \in Nat
  BY <1>1
<1>3. PairCost \in Nat
  BY <1>1, <1>2 DEF PairCost
<1>4. DocumentedCost = StringCost
  BY DEF DocumentedCost, StringCost
<1>5. StringCost \in Nat
  <2>1. VlenCost \in Nat
    <3>1. TrueCount * (ElementSize["vlen"] + HeaderSize) \in Nat /\ 2 * VlenPayload \in Nat
      BY <1>1
    <3>2. QED
      BY <3>1 DEF VlenCost
  <2>2. FixedCost \in Nat
    <3>1. ~Wide => TrueCount * (Capacity + HeaderSize + ds.width) \in Nat
      BY <1>1
    <3>2. QED
      BY <3>1 DEF FixedCost
  <2>3. QED
    BY <2>1, <2>2 DEF StringCost
<1>6. QED
  BY <1>3, <1>4, <1>5 DEF FullCost, PairCost

LEMMA ScalarCosts ==
  ASSUME TypeOK, ScalarNumber
  PROVE  FullCost = ScalarSize /\ ScalarSize \in Nat /\ ScalarSize \in Requests
<1>1. call.want # "edges" /\ ds.class \in Numeric
  BY DEF ScalarNumber
<1>2. ScalarSize \in Usize /\ ScalarSize \in Nat
  BY <1>1, DecoderAssumption, UsizeAssumption DEF ScalarSize, Numeric, Usize
<1>3. FullCost = ScalarSize + 0
  BY <1>1 DEF FullCost, DocumentedCost
<1>4. QED
  BY <1>2, <1>3 DEF Requests

-----------------------------------------------------------------------------
(* Steps. *)

LEMMA StaticStay ==
  ASSUME Steady
  PROVE  /\ TrueCount' = TrueCount /\ FullCost' = FullCost /\ Unholdable' = Unholdable
         /\ ScalarNumber' = ScalarNumber /\ ReadsTensor' = ReadsTensor
         /\ WantsOneString' = WantsOneString /\ Refused' = Refused
         /\ TooWideExtent' = TooWideExtent /\ ZeroExtent' = ZeroExtent
         /\ ZeroHidesOverflow' = ZeroHidesOverflow
         /\ TensorCost' = TensorCost /\ StringCost' = StringCost
         /\ Extra' = Extra /\ PairCost' = PairCost
         /\ ScalarSize' = ScalarSize /\ DtypeSize' = DtypeSize /\ EdgeCount' = EdgeCount
         /\ Limited' = Limited /\ EdgeShape' = EdgeShape
         /\ Wide' = Wide /\ VlenPayload' = VlenPayload
<1>1. ds' = ds /\ call' = call
  BY DEF Steady
<1>2. /\ TrueCount' = TrueCount /\ TooWideExtent' = TooWideExtent /\ ReadsTensor' = ReadsTensor
      /\ ScalarNumber' = ScalarNumber /\ VlenPayload' = VlenPayload
      /\ DtypeSize' = DtypeSize /\ ScalarSize' = ScalarSize
  BY <1>1 DEF TrueCount, TooWideExtent, ReadsTensor, ScalarNumber, VlenPayload, DtypeSize,
     ScalarSize
<1>3. Rungs' = Rungs
  BY <1>1 DEF Rungs
<1>4. Wide' = Wide /\ Capacity' = Capacity
  BY <1>3 DEF Wide, Capacity
<1>5. VlenCost' = VlenCost /\ FixedCost' = FixedCost
  BY <1>1, <1>2, <1>4 DEF VlenCost, FixedCost
<1>6. NumberCost' = NumberCost
  BY <1>1, <1>2 DEF NumberCost
<1>7. DocumentedCost' = DocumentedCost
  BY <1>1, <1>2, <1>5, <1>6 DEF DocumentedCost
<1>8. FullCost' = FullCost
  BY <1>1, <1>2, <1>7 DEF FullCost
<1>9. Unholdable' = Unholdable
  BY <1>1, <1>2, <1>4 DEF Unholdable
<1>10. /\ WantsOneString' = WantsOneString /\ Refused' = Refused /\ ZeroExtent' = ZeroExtent
       /\ ZeroHidesOverflow' = ZeroHidesOverflow /\ EdgeCount' = EdgeCount
       /\ Limited' = Limited /\ EdgeShape' = EdgeShape
  BY <1>1, <1>2 DEF WantsOneString, Refused, ZeroExtent, ZeroHidesOverflow, EdgeCount, Limited,
     EdgeShape
<1>11. TensorCost' = TensorCost /\ StringCost' = StringCost
  BY <1>1, <1>2, <1>5 DEF TensorCost, StringCost
<1>12. Extra' = Extra /\ PairCost' = PairCost
  BY <1>1, <1>2 DEF Extra, PairCost
<1>13. QED
  BY <1>2, <1>4, <1>8, <1>9, <1>10, <1>11, <1>12

OverBudget == call.limit # NoLimit /\ (call.start + FullCost > call.limit \/ Unholdable)

(* Any error: the labels that claim something are left.                     *)
LEMMA FailureExact ==
  ASSUME ExactInv, Steady, pc' = "failed", used' = used,
         outcome' = "ReadLimitExceeded" => OverBudget
  PROVE  ExactInv'
<1>1. PathInv'
  BY DEF PathInv, CountLabels, NumberLabels, EdgeLabels, TensorLabels, StringLabels
<1>2. ShapeInv'
  BY DEF ShapeInv, Counted, NumberLabels, EdgeLabels, TensorLabels, StringLabels, ShapedLabels
<1>3. SpentInv'
  BY DEF ExactInv, SpentInv, Limited, Steady, CountLabels, NumberLabels, EdgeLabels, TensorLabels,
     StringLabels, PaidStrings
<1>4. ChargesExactly'
  BY DEF ChargesExactly
<1>5. RefusedOnlyOverBudget'
  BY StaticStay DEF RefusedOnlyOverBudget, OverBudget, Steady
<1>6. QED
  BY <1>1, <1>2, <1>3, <1>4, <1>5 DEF ExactInv

(* A charge: refused by a limit the amount passes, or exact.                *)
LEMMA ChargeExact ==
  ASSUME IInv, ExactInv, NEW req, NEW amount, NEW next, Stands(req, amount),
         Charge(req, next)
  PROVE  \/ /\ pc' = "failed" /\ outcome' = "ReadLimitExceeded" /\ used' = used
            /\ Limited /\ (used + amount > call.limit \/ Unholdable)
            /\ ~Admits(call.limit, used, req)
         \/ /\ pc' = next /\ outcome' = outcome /\ buffers' = buffers
            /\ Admits(call.limit, used, req)
            /\ ~Limited => used' = used
            /\ Limited => used' = used + amount /\ used' <= call.limit /\ req # Overflow
<1>1. /\ used \in Usize /\ used \in Nat /\ UsizeMax \in Nat /\ amount \in Nat
      /\ req \in Requests /\ used # Overflow /\ used <= UsizeMax
  BY UsizeAssumption, OverflowAssumption DEF IInv, TypeOK, Usize, Stands
<1>2. Limited => call.limit \in Nat /\ call.limit <= UsizeMax
  BY Typing, UsizeAssumption DEF IInv, Limited, Limits, Usize
<1>3. CASE ~Admits(call.limit, used, req)
  <2>1. pc' = "failed" /\ outcome' = "ReadLimitExceeded" /\ used' = used /\ Limited
    BY <1>3 DEF Charge, Fail, Admits, Limited
  <2>2. CheckedAdd(used, req) = Overflow \/ ~(CheckedAdd(used, req) <= call.limit)
    BY <1>3 DEF Admits
  <2>3. CASE req = Overflow
    <3>1. amount > UsizeMax \/ Unholdable
      BY <2>3 DEF Stands
    <3>2. QED
      BY <1>1, <1>2, <1>3, <2>1, <3>1
  <2>4. CASE req # Overflow
    <3>1. req = amount
      BY <2>4 DEF Stands
    <3>2. CASE used + amount <= UsizeMax
      <4>1. CheckedAdd(used, req) = used + amount
        BY <1>1, <2>4, <3>1, <3>2 DEF CheckedAdd
      <4>2. used + amount # Overflow
        BY <1>1, OverflowAssumption
      <4>3. QED
        BY <1>1, <1>2, <1>3, <2>1, <2>2, <4>1, <4>2
    <3>3. CASE ~(used + amount <= UsizeMax)
      BY <1>1, <1>2, <1>3, <2>1, <3>3
    <3>4. QED
      BY <3>2, <3>3
  <2>5. QED
    BY <2>3, <2>4
<1>4. CASE Admits(call.limit, used, req)
  <2>1. pc' = next /\ outcome' = outcome /\ buffers' = buffers
        /\ used' = Charged(call.limit, used, req)
    BY <1>4 DEF Charge, Goto
  <2>2. CASE ~Limited
    BY <1>4, <2>1, <2>2 DEF Charged, Limited
  <2>3. CASE Limited
    <3>1. CheckedAdd(used, req) # Overflow /\ CheckedAdd(used, req) <= call.limit
      BY <1>4, <2>3 DEF Admits, Limited
    <3>2. req # Overflow /\ CheckedAdd(used, req) = used + req
      BY <3>1 DEF CheckedAdd
    <3>3. req = amount
      BY <3>2 DEF Stands
    <3>4. used' = used + amount
      BY <2>1, <2>3, <3>3 DEF Charged, Limited
    <3>5. QED
      BY <1>4, <2>1, <2>3, <3>1, <3>2, <3>3, <3>4
  <2>4. QED
    BY <2>2, <2>3
<1>5. QED
  BY <1>3, <1>4

LEMMA ChargeAllocationExact ==
  ASSUME IInv, ExactInv, NEW req, NEW amount, NEW next, Stands(req, amount),
         ChargeAllocation(req, next)
  PROVE  \/ /\ pc' = "failed" /\ outcome' = "ReadLimitExceeded" /\ used' = used
            /\ Limited /\ (used + amount > call.limit \/ Unholdable)
            /\ ~Admits(call.limit, used, req)
         \/ /\ pc' = "failed" /\ outcome' = "InvalidTensor" /\ used' = used
            /\ ~Limited /\ req = Overflow
         \/ /\ pc' = next /\ outcome' = outcome /\ buffers' = buffers /\ req # Overflow
            /\ Admits(call.limit, used, req)
            /\ ~Limited => used' = used
            /\ Limited => used' = used + amount /\ used' <= call.limit
<1>1. CASE call.limit = NoLimit /\ req = Overflow /\ Fail("InvalidTensor") /\ used' = used
  BY <1>1 DEF Fail, Limited
<1>2. CASE (call.limit # NoLimit \/ req # Overflow) /\ Charge(req, next)
  BY <1>2, ChargeExact DEF Limited
<1>3. QED
  BY <1>1, <1>2 DEF ChargeAllocation

LEMMA NumbersAt ==
  ASSUME IInv, ExactInv
  PROVE  /\ TypeOK /\ call.start \in Nat /\ used \in Nat /\ count \in Nat /\ TrueCount \in Nat
         /\ Limited => call.limit \in Nat
         /\ pc # "failed" => outcome = "none"
         /\ pc \in NumberLabels => ds.class \in Numeric
<1>1. TypeOK
  BY DEF IInv
<1>2. QED
  BY <1>1, Typing, CountFacts, UsizeAssumption
     DEF Usize, Limits, Limited, IInv, NumberInv, ExactInv, PathInv

(* A step that neither fails nor ends the decoding.                         *)
LEMMA MoveExact ==
  ASSUME ExactInv, outcome' = outcome, pc # "failed", pc' # "done", PathInv', ShapeInv', SpentInv'
  PROVE  ExactInv'
BY DEF ExactInv, PathInv, ChargesExactly, RefusedOnlyOverBudget

(* A step that ends it.                                                     *)
LEMMA DoneExact ==
  ASSUME ExactInv, Steady, outcome' = outcome, pc # "failed", pc' = "done",
         Limited => used' <= call.limit /\ used' = call.start + FullCost
  PROVE  ExactInv'
<1>1. PathInv'
  BY DEF ExactInv, PathInv, CountLabels, NumberLabels, EdgeLabels, TensorLabels, StringLabels, Counted,
     ShapedLabels, PaidStrings
<1>2. ShapeInv'
  BY DEF ShapeInv, CountLabels, NumberLabels, EdgeLabels, TensorLabels, StringLabels, Counted,
     ShapedLabels, PaidStrings
<1>3. SpentInv'
  BY DEF SpentInv, Limited, Steady, CountLabels, NumberLabels, EdgeLabels, TensorLabels, StringLabels, Counted,
     ShapedLabels, PaidStrings
<1>4. ChargesExactly' /\ RefusedOnlyOverBudget'
  BY StaticStay DEF ExactInv, PathInv, ChargesExactly, RefusedOnlyOverBudget, Limited, Steady
<1>5. QED
  BY <1>1, <1>2, <1>3, <1>4 DEF ExactInv

LEMMA InitExact == Init => ExactInv
<1> SUFFICES ASSUME Init PROVE ExactInv
  OBVIOUS
<1>1. call.limit # NoLimit => call.start <= call.limit
  BY DecoderAssumption DEF Init
<1>2. PathInv /\ ShapeInv /\ SpentInv
  BY <1>1 DEF Init, PathInv, ShapeInv, SpentInv, Limited, CountLabels, NumberLabels, EdgeLabels, TensorLabels, StringLabels, Counted,
     ShapedLabels, PaidStrings
<1>3. QED
  BY <1>2 DEF Init, ExactInv, ChargesExactly, RefusedOnlyOverBudget

LEMMA DispatchExact == IInv /\ ExactInv /\ Dispatch => ExactInv'
<1> SUFFICES ASSUME IInv, ExactInv, Dispatch PROVE ExactInv'
  OBVIOUS
<1>1. Steady /\ used' = used /\ pc = "dispatch" /\ count' = count
  BY DEF Dispatch, Steady
<1>2. CASE Refused /\ Fail("InvalidTensor")
  BY <1>1, <1>2, FailureExact DEF Fail
<1>3. CASE ~Refused /\ Goto(IF ScalarNumber THEN "scalar" ELSE "count")
  <2>1. outcome' = outcome /\ pc' = (IF ScalarNumber THEN "scalar" ELSE "count")
    BY <1>3 DEF Goto
  <2>2. PathInv'
    BY <1>1, <1>3, <2>1, StaticStay DEF ExactInv, PathInv, CountLabels, NumberLabels, EdgeLabels, TensorLabels, StringLabels, Counted,
     ShapedLabels, PaidStrings
  <2>3. ShapeInv'
    BY <1>1, <2>1 DEF ExactInv, ShapeInv, CountLabels, NumberLabels, EdgeLabels, TensorLabels, StringLabels, Counted,
     ShapedLabels, PaidStrings
  <2>4. SpentInv'
    BY <1>1, <2>1 DEF ExactInv, SpentInv, Limited, Steady, CountLabels, NumberLabels, EdgeLabels, TensorLabels, StringLabels, Counted,
     ShapedLabels, PaidStrings
  <2>5. QED
    BY <1>1, <2>1, <2>2, <2>3, <2>4, MoveExact
<1>4. QED
  BY <1>2, <1>3 DEF Dispatch

LEMMA ChargeScalarExact == IInv /\ ExactInv /\ ChargeScalar => ExactInv'
<1> SUFFICES ASSUME IInv, ExactInv, ChargeScalar PROVE ExactInv'
  OBVIOUS
<1>1. Steady /\ pc = "scalar" /\ Charge(ScalarSize, "readScalar")
  BY DEF ChargeScalar, Steady
<1>2. ScalarNumber /\ (Limited => used = call.start)
  BY <1>1 DEF ExactInv, PathInv, SpentInv
<1>3. TypeOK /\ used \in Nat /\ FullCost = ScalarSize /\ ScalarSize \in Nat
      /\ ScalarSize \in Requests
  BY <1>2, NumbersAt, ScalarCosts
<1>4. Stands(ScalarSize, ScalarSize)
  BY <1>3, OverflowAssumption DEF Stands
<1>5. CASE /\ pc' = "failed" /\ outcome' = "ReadLimitExceeded" /\ used' = used
           /\ Limited /\ (used + ScalarSize > call.limit \/ Unholdable)
  <2>1. OverBudget
    BY <1>2, <1>3, <1>5 DEF OverBudget, Limited
  <2>2. QED
    BY <1>1, <1>5, <2>1, FailureExact
<1>6. CASE /\ pc' = "readScalar" /\ outcome' = outcome
           /\ ~Limited => used' = used
           /\ Limited => used' = used + ScalarSize /\ used' <= call.limit
  <2>1. PathInv'
    BY <1>1, <1>2, <1>6, StaticStay DEF ExactInv, PathInv, CountLabels, NumberLabels, EdgeLabels, TensorLabels, StringLabels, Counted,
     ShapedLabels, PaidStrings
  <2>2. ShapeInv'
    BY <1>6 DEF ShapeInv, CountLabels, NumberLabels, EdgeLabels, TensorLabels, StringLabels, Counted,
     ShapedLabels, PaidStrings
  <2>3. SpentInv'
    BY <1>1, <1>2, <1>6, StaticStay DEF SpentInv, Steady, CountLabels, NumberLabels, EdgeLabels, TensorLabels, StringLabels, Counted,
     ShapedLabels, PaidStrings
  <2>4. QED
    BY <1>1, <1>6, <2>1, <2>2, <2>3, MoveExact
<1>7. QED
  BY <1>1, <1>4, <1>5, <1>6, ChargeExact

LEMMA ReadScalarExact == IInv /\ ExactInv /\ ReadScalar => ExactInv'
<1> SUFFICES ASSUME IInv, ExactInv, ReadScalar PROVE ExactInv'
  OBVIOUS
<1>1. Steady /\ pc = "readScalar" /\ used' = used
  BY DEF ReadScalar, Steady
<1>2. CASE Fail("InvalidTensor")
  BY <1>1, <1>2, FailureExact DEF Fail
<1>3. CASE pc' = "done" /\ outcome' = outcome
  <2>1. ScalarNumber /\ (Limited => used = call.start + ScalarSize /\ used <= call.limit)
    BY <1>1 DEF ExactInv, PathInv, SpentInv
  <2>2. FullCost = ScalarSize
    BY <2>1, NumbersAt, ScalarCosts
  <2>3. QED
    BY <1>1, <1>3, <2>1, <2>2, DoneExact
<1>4. QED
  BY <1>2, <1>3 DEF ReadScalar, Hold

-----------------------------------------------------------------------------
(* Counting. *)

LEMMA UncountableExact ==
  ASSUME IInv, ExactInv, Steady, used' = used, Uncountable, Unholdable
  PROVE  ExactInv'
<1>1. /\ pc' = "failed"
      /\ outcome' = (IF call.limit = NoLimit THEN "InvalidTensor" ELSE "ReadLimitExceeded")
  BY DEF Uncountable, Fail
<1>2. outcome' = "ReadLimitExceeded" => OverBudget
  BY <1>1 DEF OverBudget
<1>3. QED
  BY <1>1, <1>2, FailureExact

LEMMA CountElementsExact == IInv /\ ExactInv /\ CountElements => ExactInv'
<1> SUFFICES ASSUME IInv, ExactInv, CountElements PROVE ExactInv'
  OBVIOUS
<1>1. Steady /\ used' = used /\ pc = "count" /\ count' = 0 /\ axis' = axis /\ product' = product
  BY DEF CountElements, Steady
<1>2. TypeOK /\ ds.extents \in Seq(Nat) /\ Len(ds.extents) \in Nat
      /\ (ds.null => ds.extents = <<>>)
  BY NumbersAt, Typing, CountFacts
<1>3. CASE TooWideExtent /\ Uncountable
  BY <1>1, <1>3, UncountableExact DEF Unholdable
<1>4. CASE Goto("counted") /\ TrueCount = 0 /\ ~TooWideExtent
  <2>1. pc' = "counted" /\ outcome' = outcome
    BY <1>4 DEF Goto
  <2>2. PathInv'
    BY <1>1, <2>1, StaticStay DEF ExactInv, PathInv, CountLabels, NumberLabels, EdgeLabels, TensorLabels, StringLabels, Counted,
     ShapedLabels, PaidStrings
  <2>3. ShapeInv'
    BY <1>1, <1>4, <2>1, StaticStay DEF ShapeInv, CountLabels, NumberLabels, EdgeLabels, TensorLabels, StringLabels, Counted,
     ShapedLabels, PaidStrings
  <2>4. SpentInv'
    BY <1>1, <2>1 DEF ExactInv, SpentInv, Limited, Steady, CountLabels, NumberLabels, EdgeLabels, TensorLabels, StringLabels, Counted,
     ShapedLabels, PaidStrings
  <2>5. QED
    BY <1>1, <2>1, <2>2, <2>3, <2>4, MoveExact
<1>5. CASE ds.null /\ Goto("counted")
  <2>1. TrueCount = 0 /\ ~TooWideExtent
    BY <1>2, <1>5 DEF TrueCount, TooWideExtent
  <2>2. QED
    BY <1>4, <1>5, <2>1
<1>6. CASE ~TooWideExtent /\ ZeroExtent /\ Goto("counted")
  <2>1. PICK i \in 1 .. Len(ds.extents) : ds.extents[i] = 0
    BY <1>2, <1>6 DEF ZeroExtent
  <2>2. Products(ds.extents)[Len(ds.extents)] = 0
    BY <1>2, <2>1, ZeroProduct
  <2>3. QED
    BY <1>4, <1>6, <2>2 DEF TrueCount
<1>7. CASE ~ds.null /\ ~TooWideExtent /\ ~ZeroExtent /\ Goto("countAxis")
  <2>1. pc' = "countAxis" /\ outcome' = outcome /\ axis = 1 /\ product = 1
    BY <1>1, <1>7 DEF Goto, IInv, CountInv
  <2>2. PathInv'
    BY <1>1, <2>1, StaticStay DEF ExactInv, PathInv, CountLabels, NumberLabels, EdgeLabels, TensorLabels, StringLabels, Counted,
     ShapedLabels, PaidStrings
  <2>3. ShapeInv'
    <3>1. Products(ds.extents)[0] = 1 /\ 1 <= UsizeMax
      BY <1>2, ProductsUnfold, UsizeAssumption
    <3>2. \A n \in 0 .. 1 - 1 : Products(ds.extents)[n] <= UsizeMax
      BY <3>1
    <3>3. ds' = ds /\ ~ds.null /\ ~TooWideExtent' /\ ~ZeroExtent' /\ 1 <= Len(ds.extents) + 1
      BY <1>1, <1>2, <1>7, StaticStay DEF Steady
    <3>4. QED
      BY <1>1, <2>1, <3>1, <3>2, <3>3 DEF ShapeInv, CountLabels, NumberLabels, EdgeLabels, TensorLabels, StringLabels, Counted,
     ShapedLabels, PaidStrings
  <2>4. SpentInv'
    BY <1>1, <2>1 DEF ExactInv, SpentInv, Limited, Steady, CountLabels, NumberLabels, EdgeLabels, TensorLabels, StringLabels, Counted,
     ShapedLabels, PaidStrings
  <2>5. QED
    BY <1>1, <2>1, <2>2, <2>3, <2>4, MoveExact
<1>8. QED
  BY <1>3, <1>5, <1>6, <1>7 DEF CountElements

(* The product over one more axis, in both loops.                           *)
LEMMA NextProduct ==
  ASSUME TypeOK, axis <= Len(ds.extents), product = Products(ds.extents)[axis - 1],
         NEW next, next = CheckedMul(product, ds.extents[axis])
  PROVE  /\ axis \in 1 .. Len(ds.extents)
         /\ next # Overflow =>
              next = Products(ds.extents)[axis] /\ Products(ds.extents)[axis] <= UsizeMax
         /\ next = Overflow => Products(ds.extents)[axis] > UsizeMax
<1>1. ds.extents \in Seq(Nat) /\ product \in Nat /\ UsizeMax \in Nat /\ axis \in Nat \ {0}
  BY Typing, UsizeAssumption DEF TypeOK
<1>2. axis \in 1 .. Len(ds.extents) /\ ds.extents[axis] \in Nat
  BY <1>1
<1>3. Products(ds.extents)[axis] = product * ds.extents[axis]
  BY <1>1, <1>2, ProductsUnfold
<1>4. /\ next \in Requests
      /\ next # Overflow => next = product * ds.extents[axis]
      /\ product * ds.extents[axis] <= UsizeMax => next = product * ds.extents[axis]
      /\ product * ds.extents[axis] \in Nat
  <2> DEFINE e == ds.extents[axis]
  <2>1. e \in Nat /\ next = CheckedMul(product, e)
    BY <1>2
  <2> HIDE DEF e
  <2>2. product * e \in Nat
    BY <1>1, <2>1
  <2>3. QED
    BY <1>1, <2>1, <2>2, MulFacts DEF e
<1>5. next # Overflow => next \in Nat /\ next <= UsizeMax
  BY <1>1, <1>4 DEF Requests, Usize
<1>6. QED
  BY <1>1, <1>2, <1>3, <1>4, <1>5, OverflowAssumption

LEMMA CountAxisExact == IInv /\ ExactInv /\ CountAxis => ExactInv'
<1> SUFFICES ASSUME IInv, ExactInv, CountAxis PROVE ExactInv'
  OBVIOUS
<1> DEFINE next == CheckedMul(product, ds.extents[axis])
           P == Products(ds.extents)
<1>1. Steady /\ used' = used /\ pc = "countAxis" /\ count' = count /\ axis <= Len(ds.extents)
  BY DEF CountAxis, Steady
<1>2. /\ TypeOK /\ ds.extents \in Seq(Nat) /\ Len(ds.extents) \in Nat
      /\ P \in [0 .. Len(ds.extents) -> Nat]
  BY NumbersAt, Typing, CountFacts
<1>3. /\ ~ds.null /\ ~TooWideExtent /\ ~ZeroExtent /\ product = P[axis - 1]
      /\ \A n \in 0 .. axis - 1 : P[n] <= UsizeMax
  BY <1>1 DEF ExactInv, ShapeInv
<1>4. /\ axis \in 1 .. Len(ds.extents)
      /\ next # Overflow => next = P[axis] /\ P[axis] <= UsizeMax
      /\ next = Overflow => P[axis] > UsizeMax
  BY <1>1, <1>2, <1>3, NextProduct
<1> HIDE DEF next, P
<1>5. CASE next = Overflow /\ Uncountable
  <2>1. \A i \in 1 .. Len(ds.extents) : ds.extents[i] # 0
    BY <1>2, <1>3 DEF ZeroExtent
  <2>2. P[axis] <= P[Len(ds.extents)]
    BY <1>2, <1>4, <2>1, GrowingProduct DEF P
  <2>3. TrueCount > UsizeMax
    <3>1. P[axis] \in Nat /\ P[Len(ds.extents)] \in Nat /\ UsizeMax \in Nat
      BY <1>2, <1>4, UsizeAssumption
    <3>2. TrueCount = P[Len(ds.extents)]
      BY <1>3 DEF TrueCount, P
    <3>3. QED
      BY <1>4, <1>5, <2>2, <3>1, <3>2
  <2>4. QED
    BY <1>1, <1>5, <2>3, UncountableExact DEF Unholdable
<1>6. CASE /\ next # Overflow /\ product' = next /\ axis' = axis + 1
           /\ UNCHANGED <<pc, buffers, outcome>>
  <2>1. PathInv'
    BY <1>1, <1>6, StaticStay DEF ExactInv, PathInv, CountLabels, NumberLabels, EdgeLabels, TensorLabels, StringLabels, Counted,
     ShapedLabels, PaidStrings
  <2>2. ShapeInv'
    <3>1. axis' - 1 = axis /\ axis' <= Len(ds.extents) + 1
      BY <1>2, <1>4, <1>6
    <3>2. \A n \in 0 .. axis : P[n] <= UsizeMax
      BY <1>3, <1>4, <1>6
    <3>3. P' = P
      BY <1>1 DEF P, Steady
    <3>4. ~TooWideExtent' /\ ~ZeroExtent' /\ ~ds'.null /\ ds' = ds
      BY <1>1, <1>3, StaticStay DEF Steady
    <3>5. /\ axis' <= Len(ds'.extents) + 1 /\ product' = P'[axis' - 1]
          /\ \A n \in 0 .. axis' - 1 : P'[n] <= UsizeMax
      BY <1>4, <1>6, <3>1, <3>2, <3>3, <3>4
    <3>6. QED
      BY <1>1, <1>6, <3>4, <3>5 DEF P, ShapeInv, CountLabels, NumberLabels, EdgeLabels, TensorLabels, StringLabels, Counted,
     ShapedLabels, PaidStrings
  <2>3. SpentInv'
    BY <1>1, <1>6 DEF ExactInv, SpentInv, Limited, Steady, CountLabels, NumberLabels, EdgeLabels, TensorLabels, StringLabels, Counted,
     ShapedLabels, PaidStrings
  <2>4. QED
    BY <1>1, <1>6, <2>1, <2>2, <2>3, MoveExact
<1>7. QED
  BY <1>5, <1>6 DEF CountAxis, next

LEMMA CountDoneExact == IInv /\ ExactInv /\ CountDone => ExactInv'
<1> SUFFICES ASSUME IInv, ExactInv, CountDone PROVE ExactInv'
  OBVIOUS
<1>1. Steady /\ used' = used /\ pc = "countAxis" /\ count' = product /\ axis > Len(ds.extents)
      /\ pc' = "counted" /\ outcome' = outcome
  BY DEF CountDone, Steady, Goto
<1>2. ~ds.null /\ ~TooWideExtent /\ product = TrueCount
  <2>1. /\ ~ds.null /\ ~TooWideExtent /\ product = Products(ds.extents)[axis - 1]
        /\ axis <= Len(ds.extents) + 1
    BY <1>1 DEF ExactInv, ShapeInv
  <2>2. axis - 1 = Len(ds.extents)
    BY <1>1, <2>1, NumbersAt, CountFacts DEF TypeOK
  <2>3. QED
    BY <2>1, <2>2 DEF TrueCount
<1>3. PathInv'
  BY <1>1, StaticStay DEF ExactInv, PathInv, CountLabels, NumberLabels, EdgeLabels, TensorLabels, StringLabels, Counted,
     ShapedLabels, PaidStrings
<1>4. ShapeInv'
  BY <1>1, <1>2, StaticStay DEF ShapeInv, CountLabels, NumberLabels, EdgeLabels, TensorLabels, StringLabels, Counted,
     ShapedLabels, PaidStrings
<1>5. SpentInv'
  BY <1>1 DEF ExactInv, SpentInv, Limited, Steady, CountLabels, NumberLabels, EdgeLabels, TensorLabels, StringLabels, Counted,
     ShapedLabels, PaidStrings
<1>6. QED
  BY <1>1, <1>3, <1>4, <1>5, MoveExact

-----------------------------------------------------------------------------
(* Numbers. *)

LEMMA ChargeNumbersExact == IInv /\ ExactInv /\ ChargeNumbers => ExactInv'
<1> SUFFICES ASSUME IInv, ExactInv, ChargeNumbers PROVE ExactInv'
  OBVIOUS
<1>1. /\ Steady /\ pc = "counted" /\ ReadsTensor /\ count' = count
      /\ ChargeAllocation(NumericRequest, "readNumbers")
  BY DEF ChargeNumbers, Steady
<1>2. /\ ~ScalarNumber /\ ~Refused /\ ~TooWideExtent /\ count = TrueCount
      /\ ds.class \in Numeric /\ (Limited => used = call.start)
  BY <1>1 DEF IInv, ScalarInv, ExactInv, PathInv, ShapeInv, SpentInv, CountLabels, NumberLabels, EdgeLabels, TensorLabels, StringLabels, Counted,
     ShapedLabels, PaidStrings
<1>3. /\ Stands(NumericRequest, TensorCost) /\ FullCost = TensorCost + Extra
      /\ TensorCost \in Nat /\ Extra \in Nat /\ used \in Nat
      /\ (Limited => call.limit \in Nat)
  BY <1>1, <1>2, NumbersAt, TensorStands, TensorCosts
<1>4. CASE /\ pc' = "failed" /\ outcome' = "ReadLimitExceeded" /\ used' = used
           /\ Limited /\ (used + TensorCost > call.limit \/ Unholdable)
  <2>1. OverBudget
    <3>1. CASE Unholdable
      BY <1>4, <3>1 DEF OverBudget, Limited
    <3>2. CASE used + TensorCost > call.limit
      <4>1. used + (TensorCost + Extra) > call.limit
        BY <1>3, <1>4, <3>2
      <4>2. QED
        BY <1>2, <1>3, <1>4, <4>1 DEF OverBudget, Limited
    <3>3. QED
      BY <1>4, <3>1, <3>2
  <2>2. QED
    BY <1>1, <1>4, <2>1, FailureExact
<1>5. CASE pc' = "failed" /\ outcome' = "InvalidTensor" /\ used' = used
  BY <1>1, <1>5, FailureExact
<1>6. CASE /\ pc' = "readNumbers" /\ outcome' = outcome
           /\ Limited => used' = used + TensorCost /\ used' <= call.limit
  <2>1. PathInv'
    BY <1>1, <1>2, <1>6, StaticStay DEF ExactInv, PathInv, CountLabels, NumberLabels, EdgeLabels, TensorLabels, StringLabels, Counted,
     ShapedLabels, PaidStrings
  <2>2. ShapeInv'
    BY <1>1, <1>2, <1>6, StaticStay DEF ShapeInv, CountLabels, NumberLabels, EdgeLabels, TensorLabels, StringLabels, Counted,
     ShapedLabels, PaidStrings
  <2>3. SpentInv'
    BY <1>1, <1>2, <1>6, StaticStay DEF SpentInv, Steady, CountLabels, NumberLabels, EdgeLabels, TensorLabels, StringLabels, Counted,
     ShapedLabels, PaidStrings
  <2>4. QED
    BY <1>1, <1>6, <2>1, <2>2, <2>3, MoveExact
<1>7. QED
  BY <1>1, <1>3, <1>4, <1>5, <1>6, ChargeAllocationExact

(* A step between two labels of a tensor, the ledger untouched.             *)
LEMMA TensorMove ==
  ASSUME IInv, ExactInv, Steady, used' = used, count' = count, outcome' = outcome,
         pc \in NumberLabels \ {"collectWords", "synthesize"},
         pc' \in NumberLabels \ {"collectWords", "synthesize"},
         pc' \in {"build"} \cup TensorLabels => ~(ds.class = "u64" /\ ds.values = "big"),
         pc' = "chargeWords" => call.want = "extents",
         pc' = "chargeDefault" => call.want = "default",
         pc' \in ShapedLabels => ~ds.null /\ ~ZeroHidesOverflow,
         pc' = "shapeAxis" =>
           /\ axis' <= Len(ds.extents) + 1
           /\ product' = Products(ds.extents)[axis' - 1]
           /\ \A n \in 0 .. axis' - 1 : Products(ds.extents)[n] <= UsizeMax
  PROVE  ExactInv'
<1>1. ~ScalarNumber /\ ~Refused /\ ReadsTensor /\ ~TooWideExtent /\ count = TrueCount
  BY DEF ExactInv, PathInv, ShapeInv, Counted
<1>2. PathInv'
  BY <1>1, StaticStay DEF ExactInv, PathInv, Steady, CountLabels, NumberLabels, EdgeLabels, TensorLabels, StringLabels, Counted,
     ShapedLabels, PaidStrings
<1>3. ShapeInv'
  BY <1>1, StaticStay DEF ShapeInv, Steady, CountLabels, NumberLabels, EdgeLabels, TensorLabels, StringLabels, Counted,
     ShapedLabels, PaidStrings
<1>4. SpentInv'
  BY StaticStay DEF ExactInv, SpentInv, Steady, CountLabels, NumberLabels, EdgeLabels, TensorLabels, StringLabels, Counted,
     ShapedLabels, PaidStrings
<1>5. pc # "failed" /\ pc' # "done"
  BY DEF NumberLabels, TensorLabels
<1>6. QED
  BY <1>2, <1>3, <1>4, <1>5, MoveExact

LEMMA ReadNumbersExact == IInv /\ ExactInv /\ ReadNumbers => ExactInv'
<1> SUFFICES ASSUME IInv, ExactInv, ReadNumbers PROVE ExactInv'
  OBVIOUS
<1>1. /\ Steady /\ used' = used /\ count' = count /\ pc = "readNumbers" /\ outcome' = outcome
      /\ pc' = (IF ds.class = "u64" THEN "narrow" ELSE "build")
  BY DEF ReadNumbers, Hold, Steady
<1>2. QED
  BY <1>1, TensorMove DEF NumberLabels, TensorLabels, ShapedLabels

LEMMA NarrowU64Exact == IInv /\ ExactInv /\ NarrowU64 => ExactInv'
<1> SUFFICES ASSUME IInv, ExactInv, NarrowU64 PROVE ExactInv'
  OBVIOUS
<1>1. /\ Steady /\ used' = used /\ count' = count /\ pc = "narrow"
  BY DEF NarrowU64, Steady
<1>2. CASE Fail("InvalidTensor")
  BY <1>1, <1>2, FailureExact DEF Fail
<1>3. CASE ds.values # "big" /\ pc' = "build" /\ outcome' = outcome
  BY <1>1, <1>3, TensorMove DEF NumberLabels, TensorLabels, ShapedLabels
<1>4. QED
  BY <1>2, <1>3 DEF NarrowU64, Hold

LEMMA BuildTensorExact == IInv /\ ExactInv /\ BuildTensor => ExactInv'
<1> SUFFICES ASSUME IInv, ExactInv, BuildTensor PROVE ExactInv'
  OBVIOUS
<1>1. /\ Steady /\ used' = used /\ count' = count /\ pc = "build" /\ outcome' = outcome
      /\ pc' = "shapeAxis" /\ axis' = 1 /\ product' = 1
  BY DEF BuildTensor, Hold, Steady
<1>2. ~(ds.class = "u64" /\ ds.values = "big")
  BY <1>1 DEF ExactInv, PathInv
<1>3. /\ 1 <= Len(ds.extents) + 1 /\ 1 = Products(ds.extents)[0] /\ 1 - 1 = 0
      /\ \A n \in 0 .. 0 : Products(ds.extents)[n] <= UsizeMax
  BY NumbersAt, Typing, CountFacts, ProductsUnfold, UsizeAssumption
<1>4. QED
  BY <1>1, <1>2, <1>3, TensorMove DEF NumberLabels, TensorLabels, ShapedLabels

LEMMA ShapeAxisExact == IInv /\ ExactInv /\ ShapeAxis => ExactInv'
<1> SUFFICES ASSUME IInv, ExactInv, ShapeAxis PROVE ExactInv'
  OBVIOUS
<1> DEFINE next == CheckedMul(product, ds.extents[axis])
           P == Products(ds.extents)
<1>1. /\ Steady /\ used' = used /\ pc = "shapeAxis" /\ count' = count
      /\ axis <= Len(ds.extents)
  BY DEF ShapeAxis, Steady
<1>2. TypeOK /\ Len(ds.extents) \in Nat /\ axis \in Nat
  BY NumbersAt, CountFacts DEF TypeOK
<1>3. product = P[axis - 1] /\ \A n \in 0 .. axis - 1 : P[n] <= UsizeMax
  BY <1>1 DEF ExactInv, ShapeInv
<1>4. next # Overflow => next = P[axis] /\ P[axis] <= UsizeMax
  BY <1>1, <1>2, <1>3, NextProduct
<1>5. CASE next = Overflow /\ Fail("InvalidTensor")
  BY <1>1, <1>5, FailureExact DEF Fail
<1>6. CASE /\ next # Overflow /\ product' = next /\ axis' = axis + 1
           /\ UNCHANGED <<pc, buffers, outcome>>
  <2> HIDE DEF next, P
  <2>1. axis' - 1 = axis /\ axis' <= Len(ds.extents) + 1
    BY <1>1, <1>2, <1>6
  <2>2. \A n \in 0 .. axis : P[n] <= UsizeMax
    BY <1>2, <1>3, <1>4, <1>6
  <2>3. product' = P[axis' - 1] /\ \A n \in 0 .. axis' - 1 : P[n] <= UsizeMax
    BY <1>4, <1>6, <2>1, <2>2
  <2>4. ~(ds.class = "u64" /\ ds.values = "big")
    BY <1>1 DEF ExactInv, PathInv, TensorLabels
  <2>5. QED
    BY <1>1, <1>6, <2>1, <2>3, <2>4, TensorMove DEF P, NumberLabels, TensorLabels, ShapedLabels
<1>7. QED
  BY <1>5, <1>6 DEF ShapeAxis

LEMMA ShapeDoneExact == IInv /\ ExactInv /\ ShapeDone => ExactInv'
<1> SUFFICES ASSUME IInv, ExactInv, ShapeDone PROVE ExactInv'
  OBVIOUS
<1> DEFINE P == Products(ds.extents)
<1>1. Steady /\ used' = used /\ pc = "shapeAxis" /\ count' = count /\ axis > Len(ds.extents)
  BY DEF ShapeDone, Steady
<1>2. CASE Fail("InvalidTensor")
  BY <1>1, <1>2, FailureExact DEF Fail
<1>3. CASE /\ product = count /\ outcome' = outcome
           /\ pc' = (CASE call.want = "extents" -> "chargeWords"
                       [] call.want = "default" -> "chargeDefault"
                       [] OTHER                 -> "done")
  <2>1. /\ axis <= Len(ds.extents) + 1 /\ product = P[axis - 1] /\ count = TrueCount
        /\ \A n \in 0 .. axis - 1 : P[n] <= UsizeMax
    BY <1>1 DEF ExactInv, ShapeInv, Counted, NumberLabels, TensorLabels
  <2>2. /\ TypeOK /\ Len(ds.extents) \in Nat /\ P \in [0 .. Len(ds.extents) -> Nat]
        /\ axis \in Nat /\ UsizeMax \in Nat /\ ds.extents \in Seq(Nat)
    BY NumbersAt, Typing, CountFacts, UsizeAssumption DEF TypeOK
  <2>3. axis - 1 = Len(ds.extents)
    BY <1>1, <2>1, <2>2
  <2>4. ~ZeroHidesOverflow
    BY <2>1, <2>2, <2>3 DEF ZeroHidesOverflow
  <2>5. ~ds.null
    <3>1. SUFFICES ASSUME ds.null PROVE FALSE
      OBVIOUS
    <3>2. ds.extents = <<>> /\ count = 0
      BY <2>1, <2>2, <3>1, CountFacts DEF TrueCount
    <3>3. axis - 1 = 0
      BY <2>3, <3>2
    <3>4. P[0] = 1
      BY <2>2, ProductsUnfold
    <3>5. product = P[0]
      BY <2>1, <3>3
    <3>6. product = 0
      BY <1>3, <3>2
    <3> HIDE DEF P
    <3>7. QED
      BY <3>4, <3>5, <3>6
  <2>6. ~(ds.class = "u64" /\ ds.values = "big")
    BY <1>1 DEF ExactInv, PathInv, TensorLabels
  <2>7. CASE call.want \in {"extents", "default"}
    BY <1>1, <1>3, <2>4, <2>5, <2>6, <2>7, TensorMove DEF NumberLabels, TensorLabels, ShapedLabels
  <2>8. CASE call.want \notin {"extents", "default"}
    <3>1. ReadsTensor /\ ~ScalarNumber /\ ds.class \in Numeric
      BY <1>1, NumbersAt DEF ExactInv, PathInv, NumberLabels, TensorLabels
    <3>2. Extra = 0 /\ TensorCost \in Nat /\ FullCost = TensorCost + Extra
      BY <2>2, <2>8, <3>1, TensorCosts DEF Extra
    <3>3. Limited => used <= call.limit /\ used = call.start + TensorCost
      BY <1>1 DEF ExactInv, SpentInv, NumberLabels, TensorLabels
    <3>4. pc' = "done"
      BY <1>3, <2>8
    <3>5. FullCost = TensorCost
      BY <3>2
    <3>6. QED
      BY <1>1, <1>3, <3>3, <3>4, <3>5, DoneExact
  <2>9. QED
    BY <2>7, <2>8
<1>4. QED
  BY <1>2, <1>3 DEF ShapeDone, Goto

(* The plain charge of a second buffer, and the step that fills it.         *)
LEMMA SecondCharge ==
  ASSUME IInv, ExactInv, Steady, count' = count, pc \in {"chargeWords", "chargeDefault"},
         NEW size \in Nat, NEW next, Charge(CheckedMul(count, size), next),
         pc = "chargeWords" => size = WordSize /\ next = "collectWords",
         pc = "chargeDefault" => size = DtypeSize /\ next = "synthesize"
  PROVE  ExactInv'
<1>1. /\ ~ScalarNumber /\ ~Refused /\ ReadsTensor /\ ~TooWideExtent /\ count = TrueCount
      /\ ~ds.null /\ ~ZeroHidesOverflow /\ ~(ds.class = "u64" /\ ds.values = "big")
      /\ pc = "chargeWords" => call.want = "extents"
      /\ pc = "chargeDefault" => call.want = "default"
      /\ Limited => used = call.start + TensorCost
  BY DEF ExactInv, PathInv, ShapeInv, SpentInv, CountLabels, NumberLabels, EdgeLabels, TensorLabels, StringLabels, Counted,
     ShapedLabels, PaidStrings
<1>2. /\ TypeOK /\ used \in Nat /\ call.start \in Nat /\ TrueCount \in Nat
      /\ ds.class \in Numeric /\ (Limited => call.limit \in Nat)
  BY NumbersAt DEF NumberLabels, TensorLabels
<1>3. Stands(CheckedMul(count, size), TrueCount * size)
  BY <1>1, <1>2, MulStands
<1>4. /\ FullCost = TensorCost + Extra /\ TensorCost \in Nat
      /\ Extra = TrueCount * size
  BY <1>1, <1>2, TensorCosts DEF Extra
<1>5. CASE /\ pc' = "failed" /\ outcome' = "ReadLimitExceeded" /\ used' = used
           /\ Limited /\ (used + TrueCount * size > call.limit \/ Unholdable)
  <2>1. OverBudget
    <3>1. TrueCount * size \in Nat
      BY <1>2
    <3>2. used + TrueCount * size = call.start + FullCost
      BY <1>1, <1>2, <1>4, <1>5, <3>1
    <3>3. QED
      BY <1>5, <3>2 DEF OverBudget, Limited
  <2>2. QED
    BY <1>5, <2>1, FailureExact
<1>6. CASE /\ pc' = next /\ outcome' = outcome
           /\ Limited => used' = used + TrueCount * size /\ used' <= call.limit
  <2>1. PathInv'
    BY <1>1, <1>6, StaticStay DEF ExactInv, PathInv, Steady, CountLabels, NumberLabels, EdgeLabels, TensorLabels, StringLabels, Counted,
     ShapedLabels, PaidStrings
  <2>2. ShapeInv'
    BY <1>1, <1>6, StaticStay DEF ShapeInv, Steady, CountLabels, NumberLabels, EdgeLabels, TensorLabels, StringLabels, Counted,
     ShapedLabels, PaidStrings
  <2>3. SpentInv'
    BY <1>1, <1>6, StaticStay DEF SpentInv, Steady, CountLabels, NumberLabels, EdgeLabels, TensorLabels, StringLabels, Counted,
     ShapedLabels, PaidStrings
  <2>4. QED
    BY <1>6, <2>1, <2>2, <2>3, MoveExact
<1>7. QED
  BY <1>3, <1>5, <1>6, ChargeExact

LEMMA ChargeWordsExact == IInv /\ ExactInv /\ ChargeWords => ExactInv'
BY SecondCharge, MachineFacts DEF ChargeWords, Steady

LEMMA ChargeDefaultExact == IInv /\ ExactInv /\ ChargeDefault => ExactInv'
<1> SUFFICES ASSUME IInv, ExactInv, ChargeDefault PROVE ExactInv'
  OBVIOUS
<1>1. pc = "chargeDefault" /\ Steady /\ count' = count
      /\ Charge(CheckedMul(count, DtypeSize), "synthesize")
  BY DEF ChargeDefault, Steady
<1>2. DtypeSize \in Nat
  BY <1>1, NumbersAt, SizeFacts DEF NumberLabels, TensorLabels
<1>3. QED
  BY <1>1, <1>2, SecondCharge

LEMMA CollectWordsExact == IInv /\ ExactInv /\ CollectWords => ExactInv'
<1> SUFFICES ASSUME IInv, ExactInv, CollectWords PROVE ExactInv'
  OBVIOUS
<1>1. Steady /\ used' = used /\ pc = "collectWords"
  BY DEF CollectWords, Steady
<1>2. CASE Fail("InvalidTensor")
  BY <1>1, <1>2, FailureExact DEF Fail
<1>3. CASE pc' = "done" /\ outcome' = outcome
  <2>1. /\ ReadsTensor /\ ~ScalarNumber /\ ds.class \in Numeric /\ call.want = "extents"
        /\ TypeOK /\ call.start \in Nat /\ TrueCount \in Nat /\ WordSize \in Nat
    BY <1>1, NumbersAt, MachineFacts DEF ExactInv, PathInv, NumberLabels, TensorLabels
  <2>2. Extra = TrueCount * WordSize /\ TensorCost \in Nat /\ FullCost = TensorCost + Extra
        /\ Extra \in Nat
    BY <2>1, TensorCosts DEF Extra
  <2>3. Limited => /\ used <= call.limit
                   /\ used = (call.start + TensorCost) + TrueCount * WordSize
    BY <1>1 DEF ExactInv, SpentInv
  <2>4. Limited => used = call.start + FullCost
    BY <2>1, <2>2, <2>3
  <2>5. QED
    BY <1>1, <1>3, <2>3, <2>4, DoneExact
<1>4. QED
  BY <1>2, <1>3 DEF CollectWords, Hold

LEMMA SynthesizeExact == IInv /\ ExactInv /\ Synthesize => ExactInv'
<1> SUFFICES ASSUME IInv, ExactInv, Synthesize PROVE ExactInv'
  OBVIOUS
<1>1. Steady /\ used' = used /\ pc = "synthesize" /\ pc' = "done" /\ outcome' = outcome
  BY DEF Synthesize, Steady, Hold
<1>2. /\ ReadsTensor /\ ~ScalarNumber /\ ds.class \in Numeric /\ call.want = "default"
      /\ TypeOK /\ call.start \in Nat /\ TrueCount \in Nat
  BY <1>1, NumbersAt DEF ExactInv, PathInv, NumberLabels, TensorLabels
<1>3. Extra = TrueCount * DtypeSize /\ TensorCost \in Nat /\ FullCost = TensorCost + Extra
      /\ Extra \in Nat
  BY <1>2, TensorCosts DEF Extra
<1>4. Limited => /\ used <= call.limit
                 /\ used = (call.start + TensorCost) + TrueCount * DtypeSize
  BY <1>1 DEF ExactInv, SpentInv
<1>5. Limited => used = call.start + FullCost
  BY <1>2, <1>3, <1>4
<1>6. QED
  BY <1>1, <1>4, <1>5, DoneExact

-----------------------------------------------------------------------------
(* Strings. *)

(* A step between two labels of strings, the ledger untouched.              *)
LEMMA StringMove ==
  ASSUME IInv, ExactInv, Steady, used' = used, count' = count, outcome' = outcome,
         \/ pc = "counted" /\ ~ReadsTensor /\ pc' = "chargeStrings"
         \/ pc \in PaidStrings \ {"pairUp", "growPairs", "movePairs"} /\ pc' \in PaidStrings \ {"pairUp", "growPairs", "movePairs"}
         \/ pc = "chargeStrings" /\ pc' = "readStrings" /\ (Limited => StringCost = 0),
         pc = "counted" => /\ call.want = "edges" => count # 0
                           /\ WantsOneString => count = 1
  PROVE  ExactInv'
<1>1. ~ScalarNumber /\ ~Refused /\ ~TooWideExtent /\ count = TrueCount /\ ~ReadsTensor
  BY DEF ExactInv, PathInv, ShapeInv, CountLabels, NumberLabels, EdgeLabels, TensorLabels, StringLabels, Counted,
     ShapedLabels, PaidStrings
<1>2. PathInv'
  BY <1>1, StaticStay DEF ExactInv, PathInv, Steady, CountLabels, NumberLabels, EdgeLabels, TensorLabels, StringLabels, Counted,
     ShapedLabels, PaidStrings
<1>3. ShapeInv'
  BY <1>1, StaticStay DEF ShapeInv, Steady, CountLabels, NumberLabels, EdgeLabels, TensorLabels, StringLabels, Counted,
     ShapedLabels, PaidStrings
<1>4. SpentInv'
  <2>1. SUFFICES ASSUME Limited
                 PROVE  /\ used' <= call.limit
                        /\ pc' = "chargeStrings" => used' = call.start
                        /\ pc' \in PaidStrings \ {"pairUp", "growPairs", "movePairs"} => used' = call.start + StringCost
    BY StaticStay DEF SpentInv, Steady, CountLabels, NumberLabels, EdgeLabels, TensorLabels, StringLabels, Counted,
     ShapedLabels, PaidStrings
  <2>2. /\ used <= call.limit
        /\ pc \in {"counted", "chargeStrings"} => used = call.start
        /\ pc \in PaidStrings \ {"pairUp", "growPairs", "movePairs"} => used = call.start + StringCost
    BY <2>1 DEF ExactInv, SpentInv, CountLabels
  <2>3. pc = "chargeStrings" /\ pc' = "readStrings" => used = call.start + StringCost
    <3>1. call.start \in Nat
      BY NumbersAt
    <3>2. QED
      BY <2>1, <2>2, <3>1
  <2>4. QED
    BY <2>2, <2>3 DEF PaidStrings, StringLabels
<1>5. pc # "failed" /\ pc' # "done"
  BY DEF PaidStrings, StringLabels
<1>6. QED
  BY <1>2, <1>3, <1>4, <1>5, MoveExact

LEMMA OneStringExact == IInv /\ ExactInv /\ OneString => ExactInv'
<1> SUFFICES ASSUME IInv, ExactInv, OneString PROVE ExactInv'
  OBVIOUS
<1>1. Steady /\ used' = used /\ count' = count /\ pc = "counted" /\ WantsOneString /\ ~ReadsTensor
  BY DEF OneString, Steady
<1>2. call.want # "edges"
  BY <1>1 DEF WantsOneString
<1>3. CASE Fail("Io")
  BY <1>1, <1>3, FailureExact DEF Fail
<1>4. CASE count = 1 /\ pc' = "chargeStrings" /\ outcome' = outcome
  BY <1>1, <1>2, <1>4, StringMove
<1>5. QED
  BY <1>3, <1>4 DEF OneString, Goto

LEMMA StringListExact == IInv /\ ExactInv /\ StringList => ExactInv'
<1> SUFFICES ASSUME IInv, ExactInv, StringList PROVE ExactInv'
  OBVIOUS
<1>1. /\ Steady /\ used' = used /\ count' = count /\ pc = "counted" /\ ~WantsOneString
      /\ ~ReadsTensor /\ call.want = "metadata" /\ pc' = "chargeStrings" /\ outcome' = outcome
  BY DEF StringList, Steady, Goto
<1>2. QED
  BY <1>1, StringMove

LEMMA ChargeEdgesExact == IInv /\ ExactInv /\ ChargeEdges => ExactInv'
<1> SUFFICES ASSUME IInv, ExactInv, ChargeEdges PROVE ExactInv'
  OBVIOUS
<1>1. /\ Steady /\ used' = used /\ count' = count /\ pc = "counted" /\ call.want = "edges"
  BY DEF ChargeEdges, Steady
<1>2. ~ReadsTensor /\ ~WantsOneString /\ ~ScalarNumber
  BY <1>1 DEF ReadsTensor, WantsOneString, ScalarNumber
<1>3. CASE count = 0 /\ pc' = "done" /\ outcome' = outcome
  <2>1. TrueCount = 0 /\ (Limited => used = call.start /\ used <= call.limit)
    BY <1>1, <1>3 DEF ExactInv, ShapeInv, SpentInv, Counted, CountLabels
  <2>2. PairSize \in Nat /\ call.start \in Nat
    BY MachineFacts, NumbersAt
  <2>3. DocumentedCost = 0
    BY <1>1, <1>2, <2>1 DEF DocumentedCost
  <2>4. (0 \div 2) * PairSize = 0
    BY <2>2
  <2>5. FullCost = 0
    BY <1>1, <2>1, <2>3, <2>4 DEF FullCost
  <2>6. QED
    BY <1>1, <1>3, <2>1, <2>2, <2>5, DoneExact
<1>4. CASE Fail("InvalidGraph") \/ Fail("ReadCountLimitExceeded")
  BY <1>1, <1>4, FailureExact DEF Fail
<1>5. CASE count # 0 /\ pc' = "chargeStrings" /\ outcome' = outcome
  BY <1>1, <1>2, <1>5, StringMove
<1>6. QED
  BY <1>3, <1>4, <1>5 DEF ChargeEdges, Goto

LEMMA StringsAt ==
  ASSUME IInv, ExactInv, pc \in EdgeLabels
  PROVE  /\ ~ScalarNumber /\ ~Refused /\ ~TooWideExtent /\ count = TrueCount /\ ~ReadsTensor
         /\ call.want = "edges" => count # 0 /\ EdgeShape /\ count = EdgeCount * 2
         /\ WantsOneString => count = 1
         /\ FullCost = StringCost + PairCost /\ StringCost \in Nat /\ PairCost \in Nat
         /\ Limited /\ pc = "chargeStrings" => used = call.start
         /\ Limited /\ pc \in PaidStrings \ {"pairUp", "growPairs", "movePairs"} => used = call.start + StringCost
         /\ Limited => used <= call.limit
<1>1. /\ ~ScalarNumber /\ ~Refused /\ ~TooWideExtent /\ count = TrueCount /\ ~ReadsTensor
      /\ call.want = "edges" => count # 0
      /\ WantsOneString => count = 1
  BY DEF ExactInv, PathInv, ShapeInv, Counted
<1>2. call.want = "edges" => EdgeShape /\ count = EdgeCount * 2
  BY DEF IInv, CountInv
<1>3. FullCost = StringCost + PairCost /\ StringCost \in Nat /\ PairCost \in Nat
  BY <1>1, NumbersAt, StringCosts
<1>4. /\ Limited /\ pc = "chargeStrings" => used = call.start
      /\ Limited /\ pc \in PaidStrings \ {"pairUp", "growPairs", "movePairs"} => used = call.start + StringCost
      /\ Limited => used <= call.limit
  BY DEF ExactInv, SpentInv
<1>5. QED
  BY <1>1, <1>2, <1>3, <1>4

(* The charge for the strings is the whole of their cost, or passes it.     *)
LEMMA ChargeStringsExact ==
  ASSUME IInv, ExactInv, Steady, count' = count, pc = "chargeStrings",
         NEW req, Stands(req, StringCost), ChargeAllocation(req, "readStrings")
  PROVE  ExactInv'
<1>1. pc \in EdgeLabels
  BY DEF EdgeLabels
<1>2. /\ ~ScalarNumber /\ ~Refused /\ ~TooWideExtent /\ count = TrueCount /\ ~ReadsTensor
      /\ call.want = "edges" => count # 0
      /\ WantsOneString => count = 1
      /\ FullCost = StringCost + PairCost /\ StringCost \in Nat /\ PairCost \in Nat
      /\ Limited => used = call.start
      /\ call.start \in Nat /\ (Limited => call.limit \in Nat)
  BY <1>1, StringsAt, NumbersAt
<1>3. CASE /\ pc' = "failed" /\ outcome' = "ReadLimitExceeded" /\ used' = used
           /\ Limited /\ (used + StringCost > call.limit \/ Unholdable)
  <2>1. used + StringCost > call.limit => call.start + FullCost > call.limit
    BY <1>2, <1>3
  <2>2. OverBudget
    BY <1>3, <2>1 DEF OverBudget, Limited
  <2>3. QED
    BY <1>3, <2>2, FailureExact
<1>4. CASE pc' = "failed" /\ outcome' = "InvalidTensor" /\ used' = used
  BY <1>4, FailureExact
<1>5. CASE /\ pc' = "readStrings" /\ outcome' = outcome
           /\ Limited => used' = used + StringCost /\ used' <= call.limit
  <2>1. PathInv'
    BY <1>2, <1>5, StaticStay DEF ExactInv, PathInv, Steady, CountLabels, NumberLabels, EdgeLabels, TensorLabels, StringLabels, Counted,
     ShapedLabels, PaidStrings
  <2>2. ShapeInv'
    BY <1>2, <1>5, StaticStay DEF ShapeInv, Steady, CountLabels, NumberLabels, EdgeLabels, TensorLabels, StringLabels, Counted,
     ShapedLabels, PaidStrings
  <2>3. SpentInv'
    BY <1>2, <1>5, StaticStay DEF SpentInv, Steady, CountLabels, NumberLabels, EdgeLabels, TensorLabels, StringLabels, Counted,
     ShapedLabels, PaidStrings
  <2>4. QED
    BY <1>5, <2>1, <2>2, <2>3, MoveExact
<1>6. QED
  BY <1>3, <1>4, <1>5, ChargeAllocationExact

LEMMA ChargeFixedExact == IInv /\ ExactInv /\ ChargeFixed => ExactInv'
<1> SUFFICES ASSUME IInv, ExactInv, ChargeFixed PROVE ExactInv'
  OBVIOUS
<1>1. /\ Steady /\ count' = count /\ pc = "chargeStrings" /\ ds.class = "fixed" /\ ~Wide
      /\ ChargeAllocation(FixedRequest, "readStrings")
  BY DEF ChargeFixed, Steady
<1>2. ~ReadsTensor /\ count = TrueCount /\ TypeOK
  BY <1>1, StringsAt, NumbersAt DEF EdgeLabels
<1>3. QED
  BY <1>1, <1>2, FixedStands, ChargeStringsExact

LEMMA ChargeNothingExact == IInv /\ ExactInv /\ ChargeNothing => ExactInv'
<1> SUFFICES ASSUME IInv, ExactInv, ChargeNothing PROVE ExactInv'
  OBVIOUS
<1>1. /\ Steady /\ used' = used /\ count' = count /\ pc = "chargeStrings"
      /\ pc' = "readStrings" /\ outcome' = outcome
      /\ ds.class # "vlen" /\ (ds.class = "fixed" => Wide)
  BY DEF ChargeNothing, Steady, Goto
<1>2. StringCost = 0
  BY <1>1 DEF StringCost, FixedCost
<1>3. QED
  BY <1>1, <1>2, StringMove

LEMMA ChargeVlenExact == IInv /\ ExactInv /\ ChargeVlen => ExactInv'
<1> SUFFICES ASSUME IInv, ExactInv, ChargeVlen PROVE ExactInv'
  OBVIOUS
<1>1. Steady /\ count' = count /\ pc = "chargeStrings" /\ ds.class = "vlen"
  BY DEF ChargeVlen, Steady
<1>2. /\ ~ReadsTensor /\ count = TrueCount /\ FullCost = StringCost + PairCost
      /\ StringCost \in Nat /\ PairCost \in Nat /\ (Limited => used = call.start)
      /\ TypeOK /\ call.start \in Nat /\ (Limited => call.limit \in Nat)
  BY <1>1, StringsAt, NumbersAt DEF EdgeLabels
<1>3. PICK least \in Nat : Stands(VlenMinimum, least) /\ least <= StringCost
  BY <1>1, <1>2, VlenStands
<1>4. CASE ~Admits(call.limit, used, VlenMinimum) /\ Fail("ReadLimitExceeded") /\ used' = used
  <2>1. Charge(VlenMinimum, "readStrings")
    BY <1>4 DEF Charge
  <2>2. Limited /\ (used + least > call.limit \/ Unholdable) /\ pc' = "failed"
    BY <1>3, <1>4, <2>1, ChargeExact DEF Fail
  <2>3. used + least > call.limit => call.start + FullCost > call.limit
    BY <1>2, <1>3, <2>2
  <2>4. OverBudget
    BY <2>2, <2>3 DEF OverBudget, Limited
  <2>5. QED
    BY <1>1, <1>4, <2>2, <2>4, FailureExact
<1>5. CASE (Fail("InvalidTensor") \/ Fail("Io")) /\ used' = used
  BY <1>1, <1>5, FailureExact DEF Fail
<1>6. CASE call.limit = NoLimit /\ Goto("readStrings") /\ used' = used
  BY <1>1, <1>6, StringMove DEF Goto, Limited
<1>7. CASE ChargeAllocation(VlenRequest, "readStrings")
  BY <1>1, <1>2, <1>7, VlenStands, ChargeStringsExact
<1>8. QED
  BY <1>4, <1>5, <1>6, <1>7 DEF ChargeVlen

LEMMA ReadStringsExact == IInv /\ ExactInv /\ ReadStrings => ExactInv'
<1> SUFFICES ASSUME IInv, ExactInv, ReadStrings PROVE ExactInv'
  OBVIOUS
<1>1. Steady /\ used' = used /\ count' = count /\ pc = "readStrings"
  BY DEF ReadStrings, Steady
<1>2. CASE Fail("Io")
  BY <1>1, <1>2, FailureExact DEF Fail
<1>3. CASE pc' = "copyStrings" /\ outcome' = outcome
  BY <1>1, <1>3, StringMove DEF PaidStrings, StringLabels
<1>4. QED
  BY <1>2, <1>3 DEF ReadStrings, Hold

LEMMA CopyStringsExact == IInv /\ ExactInv /\ CopyStrings => ExactInv'
<1> SUFFICES ASSUME IInv, ExactInv, CopyStrings PROVE ExactInv'
  OBVIOUS
<1>1. Steady /\ used' = used /\ count' = count /\ pc = "copyStrings" /\ pc' = "strings"
      /\ outcome' = outcome
  BY DEF CopyStrings, Steady, Hold
<1>2. QED
  BY <1>1, StringMove DEF PaidStrings, StringLabels

LEMMA ReturnStringsExact == IInv /\ ExactInv /\ ReturnStrings => ExactInv'
<1> SUFFICES ASSUME IInv, ExactInv, ReturnStrings PROVE ExactInv'
  OBVIOUS
<1>1. Steady /\ used' = used /\ count' = count /\ pc = "strings" /\ outcome' = outcome
      /\ pc' = (IF call.want = "edges" THEN "chargePairs" ELSE "done")
  BY DEF ReturnStrings, Steady, Hold
<1>2. CASE call.want = "edges"
  BY <1>1, <1>2, StringMove DEF PaidStrings, StringLabels
<1>3. CASE call.want # "edges"
  <2>1. /\ FullCost = StringCost + PairCost /\ StringCost \in Nat
        /\ Limited => used = call.start + StringCost /\ used <= call.limit
    BY <1>1, StringsAt DEF EdgeLabels, PaidStrings, StringLabels
  <2>2. PairCost = 0
    BY <1>3 DEF PairCost
  <2>3. FullCost = StringCost
    BY <2>1, <2>2
  <2>4. QED
    BY <1>1, <1>3, <2>1, <2>3, DoneExact
<1>4. QED
  BY <1>2, <1>3

LEMMA PairCosts ==
  ASSUME IInv, ExactInv, pc \in {"chargePairs", "pairUp", "growPairs", "movePairs"}
  PROVE  /\ PairCost = EdgeCount * PairSize /\ EdgeCount \in Nat /\ PairSize \in Nat
         /\ call.want = "edges"
<1>1. pc \in EdgeLabels
  BY DEF EdgeLabels, StringLabels
<1>2. call.want = "edges"
  BY DEF IInv, CountInv
<1>3. EdgeShape /\ count = EdgeCount * 2 /\ count = TrueCount /\ TypeOK
  BY <1>1, <1>2, StringsAt, NumbersAt
<1>4. EdgeCount \in Nat
  <2>1. ds.extents \in Seq(Nat) /\ Len(ds.extents) = 2
    BY <1>3, Typing DEF EdgeShape
  <2>2. QED
    BY <2>1 DEF EdgeCount
<1>5. TrueCount \div 2 = EdgeCount
  BY <1>3, <1>4
<1>6. QED
  BY <1>2, <1>4, <1>5, MachineFacts DEF PairCost

LEMMA ChargePairsExact == IInv /\ ExactInv /\ ChargePairs => ExactInv'
<1> SUFFICES ASSUME IInv, ExactInv, ChargePairs PROVE ExactInv'
  OBVIOUS
<1> DEFINE cost == EdgeCount * PairSize
<1>1. /\ Steady /\ count' = count /\ pc = "chargePairs"
      /\ Charge(CheckedMul(EdgeCount, PairSize), "pairUp")
  BY DEF ChargePairs, Steady
<1>2. /\ PairCost = cost /\ EdgeCount \in Nat /\ PairSize \in Nat /\ call.want = "edges"
  BY <1>1, PairCosts
<1>3. /\ ~ScalarNumber /\ ~Refused /\ ~TooWideExtent /\ count = TrueCount /\ ~ReadsTensor
      /\ count # 0 /\ (WantsOneString => count = 1)
      /\ FullCost = StringCost + PairCost /\ StringCost \in Nat /\ PairCost \in Nat
      /\ Limited => used = call.start + StringCost
      /\ call.start \in Nat /\ (Limited => call.limit \in Nat)
  BY <1>1, <1>2, StringsAt, NumbersAt DEF EdgeLabels, PaidStrings, StringLabels
<1>4. Stands(CheckedMul(EdgeCount, PairSize), cost)
  BY <1>2, MulStands
<1> HIDE DEF cost
<1>5. CASE /\ pc' = "failed" /\ outcome' = "ReadLimitExceeded" /\ used' = used
           /\ Limited /\ (used + cost > call.limit \/ Unholdable)
  <2>1. used + cost = call.start + FullCost
    BY <1>2, <1>3, <1>5
  <2>2. OverBudget
    BY <1>5, <2>1 DEF OverBudget, Limited
  <2>3. QED
    BY <1>1, <1>5, <2>2, FailureExact
<1>6. CASE /\ pc' = "pairUp" /\ outcome' = outcome
           /\ Limited => used' = used + cost /\ used' <= call.limit
  <2>1. PathInv'
    BY <1>1, <1>3, <1>6, StaticStay DEF ExactInv, PathInv, Steady, CountLabels, NumberLabels, EdgeLabels, TensorLabels, StringLabels, Counted,
     ShapedLabels, PaidStrings
  <2>2. ShapeInv'
    BY <1>1, <1>3, <1>6, StaticStay DEF ShapeInv, Steady, CountLabels, NumberLabels, EdgeLabels, TensorLabels, StringLabels, Counted,
     ShapedLabels, PaidStrings
  <2>3. SpentInv'
    BY <1>1, <1>3, <1>6, StaticStay DEF cost, SpentInv, Steady, CountLabels, NumberLabels, EdgeLabels, TensorLabels, StringLabels, Counted,
     ShapedLabels, PaidStrings
  <2>4. QED
    BY <1>1, <1>6, <2>1, <2>2, <2>3, MoveExact
<1>7. QED
  BY <1>1, <1>4, <1>5, <1>6, ChargeExact

(* The pairs are charged for once, however often their vector moves.        *)
LEMMA PairsMoveExact ==
  ASSUME IInv, ExactInv, Steady, used' = used, count' = count, outcome' = outcome,
         pc \in {"pairUp", "growPairs", "movePairs"}, pc' \in {"growPairs", "movePairs"}
  PROVE  ExactInv'
<1>1. /\ ~ScalarNumber /\ ~Refused /\ ~TooWideExtent /\ count = TrueCount /\ ~ReadsTensor
      /\ (call.want = "edges" => count # 0) /\ (WantsOneString => count = 1)
  BY StringsAt DEF EdgeLabels, StringLabels
<1>2. PathInv'
  BY <1>1, StaticStay DEF ExactInv, PathInv, Steady, CountLabels, NumberLabels, EdgeLabels,
     TensorLabels, StringLabels, Counted, ShapedLabels, PaidStrings
<1>3. ShapeInv'
  BY <1>1, StaticStay DEF ShapeInv, Steady, CountLabels, NumberLabels, EdgeLabels, TensorLabels,
     StringLabels, Counted, ShapedLabels, PaidStrings
<1>4. Limited => /\ used <= call.limit
                 /\ used = (call.start + StringCost) + EdgeCount * PairSize
  BY DEF ExactInv, SpentInv
<1>5. SpentInv'
  BY <1>4, StaticStay, SizesStay DEF SpentInv, Limited, Steady, CountLabels, NumberLabels,
     EdgeLabels, TensorLabels, StringLabels, Counted, ShapedLabels, PaidStrings
<1>6. QED
  BY <1>2, <1>3, <1>5, MoveExact

LEMMA PairUpExact == IInv /\ ExactInv /\ PairUp => ExactInv'
BY PairsMoveExact DEF PairUp, Steady, Hold

LEMMA MovePairsExact == IInv /\ ExactInv /\ MovePairs => ExactInv'
BY PairsMoveExact DEF MovePairs, Steady, Hold

LEMMA GrowPairsExact == IInv /\ ExactInv /\ GrowPairs => ExactInv'
<1> SUFFICES ASSUME IInv, ExactInv, GrowPairs PROVE ExactInv'
  OBVIOUS
<1>1. Steady /\ used' = used /\ count' = count /\ pc = "growPairs"
  BY DEF GrowPairs, Steady
<1>2. CASE Fail("panic")
  BY <1>1, <1>2, FailureExact DEF Fail
<1>3. CASE pc' \in {"growPairs", "movePairs"} /\ outcome' = outcome
  BY <1>1, <1>3, PairsMoveExact
<1>4. CASE Goto("done")
  <2>1. /\ FullCost = StringCost + PairCost /\ StringCost \in Nat /\ PairCost \in Nat
        /\ PairCost = EdgeCount * PairSize /\ call.start \in Nat
    BY <1>1, StringsAt, PairCosts, NumbersAt DEF EdgeLabels, StringLabels
  <2>2. Limited => /\ used <= call.limit
                   /\ used = (call.start + StringCost) + EdgeCount * PairSize
    BY <1>1 DEF ExactInv, SpentInv
  <2>3. Limited => used = call.start + FullCost
    BY <2>1, <2>2
  <2>4. QED
    BY <1>1, <1>4, <2>2, <2>3, DoneExact DEF Goto
<1>5. QED
  BY <1>2, <1>3, <1>4 DEF GrowPairs, Hold

-----------------------------------------------------------------------------

LEMMA StutterExact == ExactInv /\ UNCHANGED vars => ExactInv'
<1> SUFFICES ASSUME ExactInv, UNCHANGED vars PROVE ExactInv'
  OBVIOUS
<1>1. /\ Steady /\ pc' = pc /\ axis' = axis /\ product' = product /\ count' = count
      /\ used' = used /\ outcome' = outcome /\ ds' = ds /\ call' = call
  BY DEF vars, Steady
<1>2. PathInv'
  BY <1>1, StaticStay DEF ExactInv, PathInv
<1>3. ShapeInv'
  BY <1>1, StaticStay DEF ExactInv, ShapeInv
<1>4. SpentInv'
  BY <1>1, StaticStay DEF ExactInv, SpentInv
<1>5. ChargesExactly' /\ RefusedOnlyOverBudget'
  BY <1>1, StaticStay DEF ExactInv, ChargesExactly, RefusedOnlyOverBudget
<1>6. QED
  BY <1>2, <1>3, <1>4, <1>5 DEF ExactInv

LEMMA StepExact == IInv /\ ExactInv /\ [Next]_vars => ExactInv'
<1> SUFFICES ASSUME IInv, ExactInv, [Next]_vars PROVE ExactInv'
  OBVIOUS
<1>1. CASE Dispatch \/ ChargeScalar \/ ReadScalar \/ CountElements \/ CountAxis \/ CountDone
  BY <1>1, DispatchExact, ChargeScalarExact, ReadScalarExact, CountElementsExact,
     CountAxisExact, CountDoneExact
<1>2. CASE ChargeNumbers \/ ReadNumbers \/ NarrowU64 \/ BuildTensor \/ ShapeAxis \/ ShapeDone
  BY <1>2, ChargeNumbersExact, ReadNumbersExact, NarrowU64Exact, BuildTensorExact,
     ShapeAxisExact, ShapeDoneExact
<1>3. CASE ChargeWords \/ CollectWords \/ ChargeDefault \/ Synthesize
  BY <1>3, ChargeWordsExact, CollectWordsExact, ChargeDefaultExact, SynthesizeExact
<1>4. CASE OneString \/ StringList \/ ChargeEdges
  BY <1>4, OneStringExact, StringListExact, ChargeEdgesExact
<1>5. CASE \/ ChargeFixed \/ ChargeNothing \/ ChargeVlen \/ ReadStrings \/ CopyStrings
           \/ ReturnStrings
  BY <1>5, ChargeFixedExact, ChargeNothingExact, ChargeVlenExact, ReadStringsExact,
     CopyStringsExact, ReturnStringsExact
<1>6. CASE ChargePairs \/ PairUp \/ GrowPairs \/ MovePairs
  BY <1>6, ChargePairsExact, PairUpExact, GrowPairsExact, MovePairsExact
<1>7. CASE UNCHANGED vars
  BY <1>7, StutterExact
<1>8. QED
  BY <1>1, <1>2, <1>3, <1>4, <1>5, <1>6, <1>7 DEF Next

(* Both invariants together.                                                *)
THEOREM InductiveExact == Spec => [](IInv /\ ExactInv)
<1>1. Init => ExactInv
  BY InitExact
<1>2. IInv /\ ExactInv /\ [Next]_vars => ExactInv'
  BY StepExact
<1>3. QED
  BY <1>1, <1>2, Inductive, PTL DEF Spec

(* checked_shape_product: for a shape of any rank the count is the product  *)
(* of its extents in plain arithmetic, zero whatever stands beside a zero   *)
(* or a NULL dataspace, and no extent that fits no usize is let through.    *)
THEOREM CountsExactly == Spec => []CountsMathematically
<1>1. IInv /\ ExactInv => CountsMathematically
  BY DEF CountsMathematically, ExactInv, ShapeInv, Counted, TooWideExtent
<1>2. QED
  BY <1>1, InductiveExact, PTL

(* ReadOptions::max_bytes: whatever the sizes of the build, a limited read  *)
(* that succeeds has charged the sum of the documented rules and the edge   *)
(* pairs, to the byte.                                                      *)
THEOREM ChargedToTheByte == Spec => []ChargesExactly
<1>1. IInv /\ ExactInv => ChargesExactly
  BY DEF ExactInv
<1>2. QED
  BY <1>1, InductiveExact, PTL

(* `All arithmetic is checked': a limited read is refused for its bytes     *)
(* only when its true cost passes the limit or a buffer cannot exist.       *)
THEOREM NeverRefusedByWrapping == Spec => []RefusedOnlyOverBudget
<1>1. IInv /\ ExactInv => RefusedOnlyOverBudget
  BY DEF ExactInv
<1>2. QED
  BY <1>1, InductiveExact, PTL

-----------------------------------------------------------------------------
(***************************************************************************)
(* GraphReader's decoding.  Its checks are a sequence of refusals; the     *)
(* first one is computed here check by check, and the decoder's steps are  *)
(* shown to meet the same checks in the same order.                        *)
(***************************************************************************)


Errors == {"InvalidTensor", "InvalidGraph", "ReadLimitExceeded", "ReadCountLimitExceeded", "Io"}

(* The first error of a sequence of checks.                                 *)
Finds(refusals, verdict) ==
  refusals \in Seq(Errors) /\ Reader!FirstError(refusals) = verdict

First(one, other) == IF one # "none" THEN one ELSE other
When(condition, kind) == IF condition THEN kind ELSE "none"

LEMMA FindsRefuse ==
  ASSUME NEW kind \in Errors, NEW condition \in BOOLEAN
  PROVE  Finds(Reader!Refuse(condition, kind), When(condition, kind))
<1>1. <<kind>> \in Seq(Errors) /\ <<kind>>[1] = kind /\ <<kind>> # <<>> /\ <<>> \in Seq(Errors)
  OBVIOUS
<1>2. QED
  BY <1>1 DEF Finds, When, Reader!Refuse, Reader!FirstError

LEMMA FindsThen ==
  ASSUME NEW a, NEW b, NEW x, NEW y, Finds(a, x), Finds(b, y)
  PROVE  Finds(a \o b, First(x, y))
<1>1. a \in Seq(Errors) /\ b \in Seq(Errors) /\ a \o b \in Seq(Errors)
  BY DEF Finds
<1>2. CASE a = <<>>
  <2>1. a \o b = b /\ x = "none"
    BY <1>1, <1>2 DEF Finds, Reader!FirstError
  <2>2. QED
    BY <2>1 DEF Finds, First
<1>3. CASE a # <<>>
  <2>1. Len(a) # 0 /\ Len(a) \in Nat
    BY <1>1, <1>3
  <2>2. a[1] \in Errors /\ (a \o b)[1] = a[1] /\ a \o b # <<>>
    BY <1>1, <1>3, <2>1
  <2>3. x = a[1] /\ x # "none"
    BY <1>3, <2>2 DEF Finds, Reader!FirstError, Errors
  <2>4. QED
    BY <1>1, <2>2, <2>3 DEF Finds, First, Reader!FirstError
<1>4. QED
  BY <1>2, <1>3

LEMMA FindsNothing == Finds(<<>>, "none")
BY DEF Finds, Reader!FirstError

-----------------------------------------------------------------------------
(* The description, and the checks of GraphReader on it.                    *)

LEMMA DescribedFields ==
  ASSUME TypeOK
  PROVE  /\ Described.secure /\ Described.value = "text"
         /\ Described.paired = EdgeShape
         /\ Described.cost = DescribedCost
         /\ Described.count = (IF TooWideExtent \/ TrueCount > UsizeMax THEN Overflow ELSE TrueCount)
         /\ Described.bytes = (IF ds.class \in Numeric THEN TrueCount * DtypeSize ELSE 0)
         /\ Described.rank = (IF Len(ds.extents) < 2 THEN Len(ds.extents) ELSE 2)
         /\ Described.class \in {"int", "float", "bool"} <=> ds.class \in Numeric
         /\ Described.class = "int" <=> ds.class \in {"int", "u64"}
         /\ Described.class = "string" <=> Readable
         /\ Described.class \in {"string", "wide"} <=> ds.class \in Textual
         /\ Described.payload = "negative" => ds.values = "negative"
         /\ Described.payload = "unfit" <=>
              \/ ds.class = "u64" /\ ds.values = "big"
              \/ ~ScalarNumber /\ (ds.null \/ ZeroHidesOverflow)
         /\ Described.payload # "unfit" /\ ds.values = "negative" =>
              Described.payload = "negative"
<1>1. ds.class \in Numeric \cup Textual \cup {"opaque"} /\ ds.values \in {"fine", "negative", "big"}
  BY DecoderAssumption DEF TypeOK, DatasetRecords
<1>2. /\ Described.secure /\ Described.value = "text"
      /\ Described.paired = EdgeShape
      /\ Described.cost = DescribedCost
      /\ Described.count = (IF TooWideExtent \/ TrueCount > UsizeMax THEN Overflow ELSE TrueCount)
      /\ Described.bytes = (IF ds.class \in Numeric THEN TrueCount * DtypeSize ELSE 0)
      /\ Described.rank = (IF Len(ds.extents) < 2 THEN Len(ds.extents) ELSE 2)
  BY DEF Described
<1>3. Described.class = CASE ds.class \in {"f32", "f64"} -> "float"
                          [] ds.class \in {"int", "u64"} -> "int"
                          [] ds.class = "vlen" -> "string"
                          [] ds.class = "fixed" -> IF Wide THEN "wide" ELSE "string"
                          [] OTHER -> ds.class
  BY DEF Described
<1>4. Described.payload =
        CASE ds.class = "u64" /\ ds.values = "big" -> "unfit"
          [] ~ScalarNumber /\ (ds.null \/ ZeroHidesOverflow) -> "unfit"
          [] OTHER -> IF ds.values = "negative" THEN "negative" ELSE "fine"
  BY DEF Described
<1>5. /\ Described.class \in {"int", "float", "bool"} <=> ds.class \in Numeric
      /\ Described.class = "int" <=> ds.class \in {"int", "u64"}
      /\ Described.class = "string" <=> Readable
      /\ Described.class \in {"string", "wide"} <=> ds.class \in Textual
  BY <1>1, <1>3 DEF Numeric, Textual, Readable
<1>6. /\ Described.payload = "negative" => ds.values = "negative"
      /\ Described.payload = "unfit" <=>
              \/ ds.class = "u64" /\ ds.values = "big"
              \/ ~ScalarNumber /\ (ds.null \/ ZeroHidesOverflow)
      /\ Described.payload # "unfit" /\ ds.values = "negative" =>
              Described.payload = "negative"
  BY <1>1, <1>4
<1>7. QED
  BY <1>2, <1>5, <1>6

LEMMA FitsIs ==
  ASSUME NEW r
  PROVE  Reader!Fits(r) <=> Admits(call.limit, call.start, r)
BY DEF Reader!Fits, Reader!Admits, Reader!CheckedAdd, Admits, CheckedAdd

AllocationError(req) ==
  First(When(~Admits(call.limit, call.start, req), "ReadLimitExceeded"),
        When(req = Overflow, "InvalidTensor"))

LEMMA AllocationFinds ==
  ASSUME NEW r
  PROVE  Finds(Reader!Allocation(r), AllocationError(r))
<1>1. Reader!Fits(r) \in BOOLEAN /\ (Reader!Fits(r) <=> Admits(call.limit, call.start, r))
  BY FitsIs DEF Reader!Fits, Reader!Admits
<1>2. Finds(Reader!Refuse(~Reader!Fits(r), "ReadLimitExceeded"),
            When(~Admits(call.limit, call.start, r), "ReadLimitExceeded"))
  <2>1. Finds(Reader!Refuse(~Reader!Fits(r), "ReadLimitExceeded"),
              When(~Reader!Fits(r), "ReadLimitExceeded"))
    BY FindsRefuse DEF Errors
  <2>2. QED
    BY <1>1, <2>1 DEF When
<1>3. Finds(Reader!Refuse(r = Overflow, "InvalidTensor"), When(r = Overflow, "InvalidTensor"))
  BY FindsRefuse DEF Errors
<1>4. QED
  BY <1>2, <1>3, FindsThen DEF Reader!Allocation, AllocationError

CountError == AllocationError(IF Described.count = Overflow THEN Overflow ELSE 0)

LEMMA CountableFinds == Finds(Reader!Countable(Described), CountError)
BY AllocationFinds DEF Reader!Countable, CountError

NumbersError ==
  First(First(First(When(ds.class \notin Numeric, "InvalidTensor"), CountError),
              AllocationError(DescribedCost)),
        When(Described.payload = "unfit", "InvalidTensor"))

LEMMA NumbersFinds ==
  ASSUME TypeOK
  PROVE  Finds(Reader!Numbers(Described), NumbersError)
<1> DEFINE a == Reader!Refuse(Described.class \notin {"int", "float", "bool"}, "InvalidTensor")
           b == Reader!Countable(Described)
           c == Reader!Allocation(Described.cost)
           d == Reader!Refuse(Described.payload = "unfit", "InvalidTensor")
<1>1. Reader!Numbers(Described) = ((a \o b) \o c) \o d
  BY DEF Reader!Numbers
<1>2. Finds(a, When(ds.class \notin Numeric, "InvalidTensor"))
  <2>1. Finds(a, When(Described.class \notin {"int", "float", "bool"}, "InvalidTensor"))
    BY FindsRefuse DEF Errors
  <2>2. QED
    BY <2>1, DescribedFields DEF When
<1>3. Finds(b, CountError)
  BY CountableFinds
<1>4. Finds(c, AllocationError(DescribedCost))
  BY AllocationFinds, DescribedFields
<1>5. Finds(d, When(Described.payload = "unfit", "InvalidTensor"))
  BY FindsRefuse DEF Errors
<1> HIDE DEF a, b, c, d
<1>6. Finds((a \o b) \o c, First(First(When(ds.class \notin Numeric, "InvalidTensor"), CountError),
              AllocationError(DescribedCost)))
  BY <1>2, <1>3, <1>4, FindsThen
<1>7. QED
  BY <1>1, <1>5, <1>6, FindsThen DEF NumbersError

ExtentsError ==
  First(First(First(NumbersError, When(ds.class \notin {"int", "u64"}, "InvalidTensor")),
              When(~Admits(call.limit, call.start, Reader!ExtentCost(Described)),
                   "ReadLimitExceeded")),
        When(Described.payload = "negative", "InvalidTensor"))

LEMMA ExtentsFinds ==
  ASSUME TypeOK
  PROVE  Finds(Reader!Extents(Described), ExtentsError)
<1> DEFINE a == Reader!Numbers(Described)
           b == Reader!Refuse(Described.class # "int", "InvalidTensor")
           c == Reader!Refuse(~Reader!Fits(Reader!ExtentCost(Described)), "ReadLimitExceeded")
           d == Reader!Refuse(Described.payload = "negative", "InvalidTensor")
<1>1. Reader!Extents(Described) = ((a \o b) \o c) \o d
  BY DEF Reader!Extents, Reader!Integers64
<1>2. Finds(a, NumbersError)
  BY NumbersFinds
<1>3. Finds(b, When(ds.class \notin {"int", "u64"}, "InvalidTensor"))
  <2>1. Finds(b, When(Described.class # "int", "InvalidTensor"))
    BY FindsRefuse DEF Errors
  <2>2. QED
    BY <2>1, DescribedFields DEF When
<1>4. Finds(c, When(~Admits(call.limit, call.start, Reader!ExtentCost(Described)),
                    "ReadLimitExceeded"))
  <2>1. Finds(c, When(~Reader!Fits(Reader!ExtentCost(Described)), "ReadLimitExceeded"))
    BY FindsRefuse DEF Errors
  <2>2. QED
    BY <2>1, FitsIs DEF When
<1>5. Finds(d, When(Described.payload = "negative", "InvalidTensor"))
  BY FindsRefuse DEF Errors
<1> HIDE DEF a, b, c, d
<1>6. Finds((a \o b) \o c,
            First(First(NumbersError, When(ds.class \notin {"int", "u64"}, "InvalidTensor")),
              When(~Admits(call.limit, call.start, Reader!ExtentCost(Described)),
                   "ReadLimitExceeded")))
  BY <1>2, <1>3, <1>4, FindsThen
<1>7. QED
  BY <1>1, <1>5, <1>6, FindsThen DEF ExtentsError

StringsError ==
  IF Readable THEN AllocationError(DescribedCost) ELSE "Io"

LEMMA StringsFinds ==
  ASSUME TypeOK
  PROVE  Finds(Reader!Strings(Described), StringsError)
<1>1. CASE Readable
  BY <1>1, DescribedFields, AllocationFinds DEF Reader!Strings, StringsError
<1>2. CASE ~Readable
  <2>1. Reader!Strings(Described) = Reader!Refuse(TRUE, "Io")
    BY <1>2, DescribedFields DEF Reader!Strings
  <2>2. Finds(Reader!Refuse(TRUE, "Io"), When(TRUE, "Io"))
    BY FindsRefuse DEF Errors
  <2>3. QED
    BY <1>2, <2>1, <2>2 DEF When, StringsError
<1>3. QED
  BY <1>1, <1>2

OneStringError ==
  First(First(CountError, When(Described.count # 1, "Io")), StringsError)

LEMMA OneStringFinds ==
  ASSUME TypeOK
  PROVE  Finds(Reader!OneString(Described), OneStringError)
<1> DEFINE a == Reader!Countable(Described)
           b == Reader!Refuse(Described.count # 1, "Io")
           c == Reader!Strings(Described)
<1>1. Reader!OneString(Described) = (a \o b) \o c
  BY DEF Reader!OneString
<1>2. Finds(a, CountError) /\ Finds(c, StringsError)
  BY CountableFinds, StringsFinds
<1>3. Finds(b, When(Described.count # 1, "Io"))
  BY FindsRefuse DEF Errors
<1> HIDE DEF a, b, c
<1>4. QED
  BY <1>1, <1>2, <1>3, FindsThen DEF OneStringError

EdgesError ==
  First(First(First(First(CountError, When(~EdgeShape, "InvalidGraph")),
                    When(~Admits(call.edgeLimit, call.edges, Reader!EdgeCount(Described)),
                         "ReadCountLimitExceeded")),
              StringsError),
        When(~Admits(call.limit, call.start, Reader!EdgeCost(Described)), "ReadLimitExceeded"))

LEMMA EdgeListFinds ==
  ASSUME TypeOK
  PROVE  Finds(Reader!EdgeList(Described), IF Described.count = 0 THEN "none" ELSE EdgesError)
<1> DEFINE a == Reader!Countable(Described)
           b == Reader!Refuse(~Described.paired, "InvalidGraph")
           n == Reader!EdgeCount(Described)
           admitted == Reader!Admits([bytes |-> call.limit, edges |-> call.edgeLimit]["edges"],
                                     [bytes |-> call.start, edges |-> call.edges]["edges"], n)
           c == Reader!Refuse(~admitted, "ReadCountLimitExceeded")
           d == Reader!Strings(Described)
           e == Reader!Refuse(~Reader!Fits(Reader!EdgeCost(Described)), "ReadLimitExceeded")
<1>1. CASE Described.count = 0
  BY <1>1, FindsNothing DEF Reader!EdgeList
<1>2. CASE Described.count # 0
  <2>1. Reader!EdgeList(Described) = (((a \o b) \o c) \o d) \o e
    BY <1>2 DEF Reader!EdgeList
  <2>2. Finds(a, CountError) /\ Finds(d, StringsError)
    BY CountableFinds, StringsFinds
  <2>3. Finds(b, When(~EdgeShape, "InvalidGraph"))
    <3>1. Finds(b, When(~Described.paired, "InvalidGraph"))
      BY FindsRefuse DEF Errors
    <3>2. QED
      BY <3>1, DescribedFields
  <2>4. Finds(c, When(~Admits(call.edgeLimit, call.edges, n), "ReadCountLimitExceeded"))
    <3>1. Finds(c, When(~admitted, "ReadCountLimitExceeded"))
      BY FindsRefuse DEF Errors
    <3>2. admitted <=> Admits(call.edgeLimit, call.edges, n)
      BY DEF Reader!Admits, Reader!CheckedAdd, Admits, CheckedAdd
    <3>3. QED
      BY <3>1, <3>2 DEF When
  <2>5. Finds(e, When(~Admits(call.limit, call.start, Reader!EdgeCost(Described)),
                      "ReadLimitExceeded"))
    <3>1. Finds(e, When(~Reader!Fits(Reader!EdgeCost(Described)), "ReadLimitExceeded"))
      BY FindsRefuse DEF Errors
    <3>2. QED
      BY <3>1, FitsIs DEF When
  <2> HIDE DEF a, b, c, d, e
  <2>6. Finds(((a \o b) \o c) \o d,
              First(First(First(CountError, When(~EdgeShape, "InvalidGraph")),
                    When(~Admits(call.edgeLimit, call.edges, n), "ReadCountLimitExceeded")),
              StringsError))
    BY <2>2, <2>3, <2>4, FindsThen
  <2>7. QED
    BY <1>2, <2>1, <2>5, <2>6, FindsThen DEF EdgesError
<1>3. QED
  BY <1>1, <1>2

MetadataError ==
  IF ds.class \notin Textual THEN NumbersError
  ELSE CASE Len(ds.extents) = 0 -> OneStringError
         [] Len(ds.extents) = 1 -> First(CountError, StringsError)
         [] OTHER               -> "InvalidTensor"

LEMMA MetadataFinds ==
  ASSUME TypeOK
  PROVE  Finds(Reader!MetadataEntry(Described), MetadataError)
<1> DEFINE rank == Len(ds.extents)
<1>1. rank \in Nat
  BY CountFacts
<1>2. CASE ds.class \notin Textual
  BY <1>2, DescribedFields, NumbersFinds DEF Reader!MetadataEntry, MetadataError
<1>3. CASE ds.class \in Textual /\ Len(ds.extents) = 0
  <2>1. Described.rank = 0 /\ Described.class \in {"string", "wide"}
    BY <1>3, DescribedFields
  <2>2. Reader!MetadataEntry(Described) = Reader!OneString(Described)
    BY <2>1 DEF Reader!MetadataEntry
  <2>3. QED
    BY <1>3, <2>2, OneStringFinds DEF MetadataError
<1>4. CASE ds.class \in Textual /\ Len(ds.extents) = 1
  <2>1. Described.rank = 1 /\ Described.class \in {"string", "wide"}
    BY <1>4, DescribedFields
  <2>2. Reader!MetadataEntry(Described) = Reader!Countable(Described) \o Reader!Strings(Described)
    BY <2>1 DEF Reader!MetadataEntry
  <2>3. QED
    BY <1>4, <2>2, CountableFinds, StringsFinds, FindsThen DEF MetadataError
<1>5. CASE ds.class \in Textual /\ rank >= 2
  <2>1. /\ Described.rank = 2 /\ Described.rank # 0 /\ Described.rank # 1
        /\ Described.class \in {"string", "wide"}
        /\ rank # 0 /\ rank # 1
    <3>1. /\ Described.rank = (IF rank < 2 THEN rank ELSE 2)
          /\ Described.class \in {"string", "wide"}
      BY <1>5, DescribedFields
    <3> HIDE DEF rank
    <3>2. QED
      BY <1>1, <1>5, <3>1
  <2>2. Reader!MetadataEntry(Described) = Reader!Refuse(TRUE, "InvalidTensor")
    BY <2>1 DEF Reader!MetadataEntry
  <2>3. Finds(Reader!Refuse(TRUE, "InvalidTensor"), When(TRUE, "InvalidTensor"))
    BY FindsRefuse DEF Errors
  <2>4. MetadataError = "InvalidTensor"
    BY <1>5, <2>1 DEF MetadataError
  <2>5. QED
    BY <2>2, <2>3, <2>4 DEF When
<1>6. rank = 0 \/ rank = 1 \/ rank >= 2
  <2> HIDE DEF rank
  <2>1. QED
    BY <1>1
<1>7. QED
  BY <1>2, <1>3, <1>4, <1>5, <1>6

(* The verdict GraphReader reaches on the description, want by want.        *)
WantError ==
  CASE call.want \in {"tensor", "default"} -> NumbersError
    [] call.want = "extents"               -> ExtentsError
    [] call.want = "text"                  -> OneStringError
    [] call.want = "metadata"              -> MetadataError
    [] call.want = "edges"                 -> IF Described.count = 0 THEN "none" ELSE EdgesError

LEMMA VerdictIs ==
  ASSUME TypeOK
  PROVE  Reader!Verdict(Described, WantOf) = WantError
<1> DEFINE safe == Reader!Refuse(~Described.secure, "InvalidGraph")
<1>1. call.want \in Wants
  BY DecoderAssumption DEF TypeOK, CallRecords
<1>2. Finds(safe, "none")
  <2>1. Finds(safe, When(~Described.secure, "InvalidGraph"))
    BY FindsRefuse DEF Errors
  <2>2. QED
    BY <2>1, DescribedFields DEF When
<1>3. ASSUME NEW checks, NEW verdict, Finds(checks, verdict)
      PROVE  Reader!FirstError(safe \o checks) = verdict
  <2>1. Finds(safe \o checks, First("none", verdict))
    BY <1>2, <1>3, FindsThen
  <2>2. QED
    BY <2>1 DEF Finds, First
<1> HIDE DEF safe
<1>4. CASE call.want \in {"tensor", "default"}
  <2>1. Reader!Verdict(Described, WantOf) = Reader!FirstError(safe \o Reader!Numbers(Described))
    BY <1>4 DEF Reader!Verdict, WantOf, safe
  <2>2. QED
    BY <1>3, <1>4, <2>1, NumbersFinds DEF WantError
<1>5. CASE call.want = "extents"
  <2>1. Reader!Verdict(Described, WantOf) = Reader!FirstError(safe \o Reader!Extents(Described))
    BY <1>5 DEF Reader!Verdict, WantOf, safe
  <2>2. QED
    BY <1>3, <1>5, <2>1, ExtentsFinds DEF WantError
<1>6. CASE call.want = "text"
  <2>1. Reader!Verdict(Described, WantOf) = Reader!FirstError(safe \o Reader!OneString(Described))
    BY <1>6 DEF Reader!Verdict, WantOf, safe
  <2>2. QED
    BY <1>3, <1>6, <2>1, OneStringFinds DEF WantError
<1>7. CASE call.want = "metadata"
  <2>1. Reader!Verdict(Described, WantOf)
          = Reader!FirstError(safe \o Reader!MetadataEntry(Described))
    BY <1>7 DEF Reader!Verdict, WantOf, safe
  <2>2. QED
    BY <1>3, <1>7, <2>1, MetadataFinds DEF WantError
<1>8. CASE call.want = "edges"
  <2>1. Reader!Verdict(Described, WantOf) = Reader!FirstError(safe \o Reader!EdgeList(Described))
    BY <1>8 DEF Reader!Verdict, WantOf, safe
  <2>2. QED
    BY <1>3, <1>8, <2>1, EdgeListFinds DEF WantError
<1>9. QED
  BY <1>1, <1>4, <1>5, <1>6, <1>7, <1>8 DEF Wants

DefaultError ==
  When(call.want = "default"
         /\ ~Admits(call.limit, call.start, CheckedAdd(DescribedCost, Described.bytes)),
       "ReadLimitExceeded")

Expected == First(WantError, DefaultError)

LEMMA OutcomeIs == TypeOK => DescribedOutcome = Expected
<1> SUFFICES ASSUME TypeOK PROVE DescribedOutcome = Expected
  OBVIOUS
<1>1. Reader!Verdict(Described, WantOf) = WantError
  BY VerdictIs
<1>2. DefaultRefused <=>
        /\ call.want = "default"
        /\ ~Admits(call.limit, call.start, CheckedAdd(DescribedCost, Described.bytes))
  BY FitsIs, DescribedFields DEF DefaultRefused
<1>3. QED
  BY <1>1, <1>2 DEF DescribedOutcome, Expected, First, DefaultError, When

LEMMA ExpectedStays ==
  ASSUME Steady, count' = count
  PROVE  Expected' = Expected /\ Described' = Described /\ WantOf' = WantOf
<1>1. ds' = ds /\ call' = call
  BY DEF Steady
<1>2. /\ VlenMinimum' = VlenMinimum /\ VlenRequest' = VlenRequest
      /\ FixedRequest' = FixedRequest
  <2>1. Rungs' = Rungs
    BY <1>1 DEF Rungs
  <2>2. Capacity' = Capacity
    BY <2>1 DEF Capacity
  <2>3. QED
    BY <1>1, <2>2 DEF VlenMinimum, VlenRequest, FixedRequest, Elements, Headers, Payload,
       VlenPayload, FixedRaw, FixedText, AllocationBytes, CheckedMul, CheckedAdd
<1>3. DescribedCost' = DescribedCost
  BY <1>1, <1>2, SizesStay, StaticStay DEF DescribedCost
<1>4. Described' = Described
  BY <1>1, <1>3, StaticStay DEF Described
<1>5. \A r : AllocationError(r)' = AllocationError(r)
  BY <1>1 DEF AllocationError, First, When, Admits, CheckedAdd
<1>6. CountError' = CountError
  BY <1>4 DEF CountError, AllocationError, First, When, Admits, CheckedAdd, Steady
<1>7. NumbersError' = NumbersError
  BY <1>1, <1>3, <1>4, <1>5, <1>6 DEF NumbersError, AllocationError, First, When, Admits, CheckedAdd
<1>8. /\ Reader!ExtentCost(Described)' = Reader!ExtentCost(Described)
      /\ Reader!EdgeCost(Described)' = Reader!EdgeCost(Described)
      /\ Reader!EdgeCount(Described)' = Reader!EdgeCount(Described)
  BY <1>4 DEF Reader!ExtentCost, Reader!EdgeCost, Reader!EdgeCount, Reader!CheckedAdd,
     Reader!CheckedMul
<1>9. ExtentsError' = ExtentsError
  BY <1>1, <1>4, <1>7, <1>8 DEF ExtentsError, First, When, Admits, CheckedAdd
<1>10. StringsError' = StringsError
  BY <1>1, <1>3, SizesStay DEF StringsError, AllocationError, First, When, Admits, CheckedAdd
<1>11. OneStringError' = OneStringError
  BY <1>4, <1>6, <1>10 DEF OneStringError, First, When
<1>12. EdgesError' = EdgesError
  BY <1>1, <1>6, <1>8, <1>10, StaticStay DEF EdgesError, First, When, Admits, CheckedAdd
<1>13. MetadataError' = MetadataError
  BY <1>1, <1>6, <1>7, <1>10, <1>11 DEF MetadataError, First
<1>14. WantError' = WantError
  BY <1>1, <1>4, <1>7, <1>9, <1>11, <1>12, <1>13 DEF WantError
<1>15. DefaultError' = DefaultError
  BY <1>1, <1>3, <1>4 DEF DefaultError, When, Admits, CheckedAdd
<1>16. QED
  BY <1>1, <1>4, <1>14, <1>15 DEF Expected, First, WantOf

-----------------------------------------------------------------------------
(***************************************************************************)
(* The invariant: what the checks passed so far say about the verdict of   *)
(* GraphReader, and that the verdict reached in the end is that one.       *)
(***************************************************************************)

PaidFor(req) == AllocationError(req) = "none"

DefaultCost == CheckedAdd(DescribedCost, Described.bytes)

PassedInv ==
  /\ pc \in {"dispatch"} \cup CountLabels => edges = call.edges
  /\ pc = "readScalar" => Admits(call.limit, call.start, ScalarSize)
  /\ pc \in NumberLabels => PaidFor(DescribedCost)
  /\ pc = "collectWords" => Admits(call.limit, call.start, Reader!ExtentCost(Described))
  /\ pc = "synthesize" => Admits(call.limit, call.start, DefaultCost)
  /\ pc \in EdgeLabels /\ call.want = "edges" =>
       Admits(call.edgeLimit, call.edges, EdgeCount)
  /\ pc \in PaidStrings /\ Readable => PaidFor(DescribedCost)
  /\ pc \in {"pairUp", "growPairs", "movePairs"} =>
       Admits(call.limit, call.start, Reader!EdgeCost(Described))

DescribedCharge == Reader!Cost(Described, WantOf)

DescribedTotal ==
  DescribedCharge + (IF call.want = "default" THEN Described.bytes ELSE 0)

ChargesMatch == DescribedCharge \in Nat /\ FullCost = DescribedTotal

Unreported == ds.class = "vlen" /\ VlenPayload \notin Usize

Panicked == outcome = "panic" /\ 2 * (EdgeCount * PairSize) > IsizeMax

VerdictInv ==
  /\ pc = "failed" => outcome = Expected \/ (outcome = "Io" /\ Unreported) \/ Panicked
  /\ pc = "done" => Expected = "none" /\ (Limited => ChargesMatch)

MatchInv == PassedInv /\ VerdictInv

-----------------------------------------------------------------------------
(* The verdict, as the counts and charges of the decoder determine it.      *)

LEMMA SettledCount ==
  ASSUME TypeOK, ~TooWideExtent, TrueCount <= UsizeMax
  PROVE  /\ Described.count = TrueCount /\ Described.count # Overflow
         /\ TrueCount \in Nat /\ CountError = "none"
<1>1. TrueCount \in Nat /\ UsizeMax \in Nat /\ Overflow \notin Nat
  BY CountFacts, UsizeAssumption, OverflowAssumption
<1>2. Described.count = TrueCount /\ Described.count # Overflow
  BY <1>1, DescribedFields
<1>3. Admits(call.limit, call.start, 0)
  <2>1. SUFFICES ASSUME call.limit # NoLimit
                 PROVE  /\ CheckedAdd(call.start, 0) # Overflow
                        /\ CheckedAdd(call.start, 0) <= call.limit
    BY DEF Admits
  <2>2. call.start \in Nat /\ call.start <= UsizeMax /\ call.start <= call.limit
    BY <1>1, <2>1, Typing, DecoderAssumption DEF Usize, TypeOK
  <2>3. call.start # Overflow /\ 0 # Overflow /\ call.start + 0 = call.start
    BY <1>1, <2>2
  <2>4. CheckedAdd(call.start, 0) = call.start
    BY <2>2, <2>3 DEF CheckedAdd
  <2>5. QED
    BY <2>2, <2>3, <2>4
<1>4. CountError = AllocationError(0) /\ 0 # Overflow
  BY <1>1, <1>2 DEF CountError
<1>5. QED
  BY <1>1, <1>2, <1>3, <1>4 DEF AllocationError, First, When

UncountedError == IF Limited THEN "ReadLimitExceeded" ELSE "InvalidTensor"

LEMMA OverflowError ==
  ASSUME TypeOK
  PROVE  AllocationError(Overflow) = UncountedError
<1>1. Admits(call.limit, call.start, Overflow) <=> ~Limited
  BY DEF Admits, CheckedAdd, Limited
<1>2. QED
  BY <1>1 DEF AllocationError, First, When, UncountedError

LEMMA UnsettledCount ==
  ASSUME TypeOK, TooWideExtent \/ TrueCount > UsizeMax
  PROVE  /\ Described.count # 0 /\ Described.count # 1 /\ Described.count = Overflow
         /\ CountError = UncountedError
<1>1. Described.count = Overflow
  BY DescribedFields
<1>2. CountError = AllocationError(Overflow)
  BY <1>1 DEF CountError
<1>3. Overflow # 0 /\ Overflow # 1
  BY OverflowAssumption
<1>4. QED
  BY <1>1, <1>2, <1>3, OverflowError

LEMMA WantKnown ==
  ASSUME TypeOK
  PROVE  call.want \in Wants
BY DecoderAssumption DEF TypeOK, CallRecords

(* A want that the element type, or a list's rank, refuses outright.        *)
LEMMA RefusedVerdict ==
  ASSUME TypeOK, Refused
  PROVE  Expected = "InvalidTensor"
<1>1. CASE ds.class \notin Numeric /\ call.want \in {"tensor", "default", "extents"}
  <2>1. NumbersError = "InvalidTensor"
    BY <1>1 DEF NumbersError, First, When
  <2>2. WantError = "InvalidTensor"
    BY <1>1, <2>1 DEF WantError, ExtentsError, First, When
  <2>3. QED
    BY <2>2 DEF Expected, First
<1>2. CASE call.want = "metadata" /\ ds.class = "opaque"
  <2>1. NumbersError = "InvalidTensor" /\ MetadataError = NumbersError
    BY <1>2 DEF NumbersError, MetadataError, First, When, Numeric, Textual
  <2>2. QED
    BY <1>2, <2>1 DEF WantError, Expected, First
<1>3. CASE call.want = "metadata" /\ ds.class \in Textual /\ Len(ds.extents) > 1
  <2> DEFINE rank == Len(ds.extents)
  <2>1. rank # 0 /\ rank # 1
    <3>1. rank \in Nat /\ rank > 1
      BY <1>3, CountFacts
    <3> HIDE DEF rank
    <3>2. QED
      BY <3>1
  <2>2. MetadataError = "InvalidTensor"
    BY <1>3, <2>1 DEF MetadataError
  <2>3. QED
    BY <1>3, <2>2 DEF WantError, Expected, First
<1>4. QED
  BY <1>1, <1>2, <1>3 DEF Refused

LEMMA UncountableVerdict ==
  ASSUME TypeOK, ~Refused, TooWideExtent \/ TrueCount > UsizeMax
  PROVE  Expected = UncountedError
<1>1. /\ Described.count # 0 /\ Described.count # 1
      /\ CountError = UncountedError /\ UncountedError # "none"
  BY UnsettledCount DEF UncountedError
<1>2. call.want \in Wants
  BY WantKnown
<1>3. ds.class \in Numeric => NumbersError = UncountedError
  BY <1>1 DEF NumbersError, First, When
<1>4. OneStringError = UncountedError
  BY <1>1 DEF OneStringError, First
<1>5. CASE call.want \in {"tensor", "default"}
  BY <1>1, <1>3, <1>5 DEF Refused, WantError, Expected, First
<1>6. CASE call.want = "extents"
  BY <1>1, <1>3, <1>6 DEF Refused, WantError, ExtentsError, Expected, First
<1>7. CASE call.want = "text"
  BY <1>1, <1>4, <1>7 DEF WantError, Expected, First
<1>8. CASE call.want = "edges"
  <2>1. EdgesError = UncountedError
    BY <1>1 DEF EdgesError, First
  <2>2. QED
    BY <1>1, <1>8, <2>1 DEF WantError, Expected, First
<1>9. CASE call.want = "metadata"
  <2>1. ds.class \in Numeric \cup Textual
    BY <1>9, Typing DEF Refused
  <2>2. CASE ds.class \in Textual
    <3> DEFINE rank == Len(ds.extents)
    <3>1. rank = 0 \/ rank = 1
      <4>1. rank \in Nat /\ ~(rank > 1)
        BY <1>9, <2>2, CountFacts DEF Refused
      <4> HIDE DEF rank
      <4>2. QED
        BY <4>1
    <3>2. First(CountError, StringsError) = UncountedError
      BY <1>1 DEF First
    <3>3. MetadataError = UncountedError
      BY <1>4, <2>2, <3>1, <3>2 DEF MetadataError
    <3>4. QED
      BY <1>1, <1>9, <3>3 DEF WantError, Expected, First
  <2>3. CASE ds.class \notin Textual
    <3>1. MetadataError = UncountedError
      BY <1>3, <2>1, <2>3 DEF MetadataError
    <3>2. QED
      BY <1>1, <1>9, <3>1 DEF WantError, Expected, First
  <2>4. QED
    BY <2>2, <2>3
<1>10. QED
  BY <1>2, <1>5, <1>6, <1>7, <1>8, <1>9 DEF Wants

Unfit == ds.class = "u64" /\ ds.values = "big"

(* A scalar number: its charge, and then whether it fits an i64.            *)
LEMMA ScalarVerdict ==
  ASSUME TypeOK, ScalarNumber
  PROVE  /\ Expected = First(When(~Admits(call.limit, call.start, ScalarSize), "ReadLimitExceeded"),
                             When(Unfit, "InvalidTensor"))
         /\ WantOf = "metadata" /\ call.want = "metadata" /\ Described.cost = ScalarSize
<1>1. /\ call.want = "metadata" /\ ds.class \in Numeric /\ ds.extents = <<>>
      /\ ds.class \notin Textual
  BY DEF ScalarNumber, Numeric, Textual
<1>2. ~TooWideExtent /\ TrueCount <= UsizeMax
  <2>1. ~TooWideExtent
    BY <1>1 DEF TooWideExtent
  <2>2. <<>> \in Seq(Nat) /\ Len(<<>>) = 0
    OBVIOUS
  <2>3. Products(<<>>)[0] = 1
    BY <2>2, ProductsUnfold
  <2>4. TrueCount = 0 \/ TrueCount = 1
    BY <1>1, <2>2, <2>3 DEF TrueCount
  <2>5. QED
    BY <2>1, <2>4, UsizeAssumption
<1>3. CountError = "none"
  BY <1>2, SettledCount
<1>4. DescribedCost = ScalarSize /\ ScalarSize # Overflow
  BY ScalarCosts, OverflowAssumption DEF DescribedCost
<1>5. Described.payload = "unfit" <=> Unfit
  BY DescribedFields DEF Unfit
<1>6. Expected = First(NumbersError, DefaultError) /\ DefaultError = "none"
  BY <1>1 DEF Expected, WantError, MetadataError, DefaultError, When
<1>7. NumbersError = First(When(~Admits(call.limit, call.start, ScalarSize), "ReadLimitExceeded"),
                           When(Unfit, "InvalidTensor"))
  BY <1>1, <1>3, <1>4, <1>5 DEF NumbersError, AllocationError, First, When
<1>8. QED
  BY <1>1, <1>4, <1>6, <1>7, DescribedFields DEF First, WantOf

(* Numbers, once they are counted.                                          *)
NumbersLeft ==
  First(AllocationError(NumericRequest), When(Described.payload = "unfit", "InvalidTensor"))

LEMMA NumbersVerdict ==
  ASSUME TypeOK, ReadsTensor, ~ScalarNumber, ~Refused, ~TooWideExtent, TrueCount <= UsizeMax
  PROVE  /\ NumbersError = NumbersLeft
         /\ Described.payload = "unfit" <=> Unfit \/ ds.null \/ ZeroHidesOverflow
         /\ DescribedCost = NumericRequest /\ Described.cost = NumericRequest
         /\ Described.bytes = TrueCount * DtypeSize
         /\ ds.class \in Numeric
         /\ call.want \in {"tensor", "metadata"} => Expected = NumbersLeft
         /\ call.want = "default" =>
              Expected = First(NumbersLeft, When(~Admits(call.limit, call.start, DefaultCost),
                                                 "ReadLimitExceeded"))
         /\ call.want = "extents" => Expected = ExtentsError
<1>1. ds.class \in Numeric /\ ds.class \notin Textual
  BY Typing DEF ReadsTensor, Refused, Numeric, Textual
<1>2. CountError = "none"
  BY SettledCount
<1>3. DescribedCost = NumericRequest
  BY <1>1 DEF DescribedCost
<1>4. NumbersError = NumbersLeft
  BY <1>1, <1>2, <1>3 DEF NumbersError, NumbersLeft, First, When
<1>5. Described.payload = "unfit" <=> Unfit \/ ds.null \/ ZeroHidesOverflow
  BY DescribedFields DEF Unfit
<1>6. call.want # "default" => DefaultError = "none"
  BY DEF DefaultError, When
<1>7. call.want \in {"tensor", "metadata"} => Expected = NumbersLeft
  BY <1>1, <1>4, <1>6 DEF Expected, WantError, MetadataError, First
<1>8. call.want = "default" =>
        Expected = First(NumbersLeft, When(~Admits(call.limit, call.start, DefaultCost),
                                           "ReadLimitExceeded"))
  BY <1>4 DEF Expected, WantError, DefaultError, DefaultCost, When
<1>9. call.want = "extents" => Expected = ExtentsError
  BY <1>6 DEF Expected, WantError, First
<1>10. QED
  BY <1>1, <1>3, <1>4, <1>5, <1>7, <1>8, <1>9, DescribedFields

(* Strings, once they are counted.                                          *)
LEMMA StringsVerdict ==
  ASSUME TypeOK, ~ReadsTensor, ~Refused, ~TooWideExtent, TrueCount <= UsizeMax
  PROVE  /\ WantsOneString => Expected = First(When(TrueCount # 1, "Io"), StringsError)
         /\ call.want = "metadata" /\ ~WantsOneString => Expected = StringsError
         /\ call.want = "edges" => Expected = IF TrueCount = 0 THEN "none" ELSE EdgesError
         /\ CountError = "none" /\ Described.count = TrueCount
         /\ call.want \in {"text", "metadata", "edges"}
         /\ call.want # "default"
<1>1. /\ Described.count = TrueCount /\ CountError = "none"
      /\ call.want \in {"text", "metadata", "edges"} /\ DefaultError = "none"
      /\ call.want = "metadata" => ds.class \in Textual
  <2>1. call.want \in {"text", "metadata", "edges"}
    BY WantKnown DEF Wants, ReadsTensor
  <2>2. call.want = "metadata" => ds.class \in Textual
    BY <2>1, Typing DEF ReadsTensor, Refused
  <2>3. QED
    BY <2>1, <2>2, SettledCount DEF DefaultError, When
<1>2. Expected = First(WantError, "none") /\ First(WantError, "none") = WantError
  BY <1>1 DEF Expected, First
<1>3. OneStringError = First(When(TrueCount # 1, "Io"), StringsError)
  BY <1>1 DEF OneStringError, First, When
<1>4. ASSUME WantsOneString
      PROVE  Expected = First(When(TrueCount # 1, "Io"), StringsError)
  <2>1. CASE call.want = "text"
    BY <1>2, <1>3, <2>1 DEF WantError
  <2>2. CASE call.want = "metadata" /\ ds.extents = <<>>
    <3>1. Len(ds.extents) = 0
      BY <2>2
    <3>2. MetadataError = OneStringError
      BY <1>1, <2>2, <3>1 DEF MetadataError
    <3>3. QED
      BY <1>2, <1>3, <2>2, <3>2 DEF WantError
  <2>3. QED
    BY <1>4, <2>1, <2>2 DEF WantsOneString
<1>5. ASSUME call.want = "metadata", ~WantsOneString
      PROVE  Expected = StringsError
  <2> DEFINE rank == Len(ds.extents)
  <2>1. ds.extents # <<>> /\ ds.extents \in Seq(Nat)
    BY <1>5, Typing DEF WantsOneString
  <2>2. rank # 0 /\ rank \in Nat /\ ~(rank > 1)
    BY <1>1, <1>5, <2>1 DEF Refused
  <2>3. rank = 1
    <3> HIDE DEF rank
    <3>1. QED
      BY <2>2
  <2>4. MetadataError = First(CountError, StringsError)
    BY <1>1, <1>5, <2>3 DEF MetadataError
  <2>5. QED
    BY <1>1, <1>2, <1>5, <2>4 DEF WantError, First
<1>6. ASSUME call.want = "edges"
      PROVE  Expected = IF TrueCount = 0 THEN "none" ELSE EdgesError
  BY <1>1, <1>2, <1>6 DEF WantError
<1>7. QED
  BY <1>1, <1>4, <1>5, <1>6

-----------------------------------------------------------------------------
(* What a step that leaves the dataset and its count alone keeps.           *)

LEMMA MatchStays ==
  ASSUME Steady, count' = count
  PROVE  /\ Expected' = Expected /\ (ChargesMatch' <=> ChargesMatch)
         /\ FullCost' = FullCost /\ (Limited' <=> Limited) /\ (Unreported' <=> Unreported)
         /\ (PaidFor(DescribedCost)' <=> PaidFor(DescribedCost))
         /\ ScalarSize' = ScalarSize /\ EdgeCount' = EdgeCount
         /\ Reader!ExtentCost(Described)' = Reader!ExtentCost(Described)
         /\ Reader!EdgeCost(Described)' = Reader!EdgeCost(Described)
         /\ DefaultCost' = DefaultCost /\ (Readable' <=> Readable)
         /\ call' = call
<1>1. /\ ds' = ds /\ call' = call
      /\ Expected' = Expected /\ Described' = Described /\ WantOf' = WantOf
  BY ExpectedStays DEF Steady
<1>2. DescribedCost' = DescribedCost
  <2>1. Described'.cost = Described.cost
    BY <1>1
  <2>2. Described'.cost = DescribedCost' /\ Described.cost = DescribedCost
    BY DEF Described
  <2>3. QED
    BY <2>1, <2>2
<1>3. /\ Reader!ExtentCost(Described)' = Reader!ExtentCost(Described)
      /\ Reader!EdgeCost(Described)' = Reader!EdgeCost(Described)
  BY <1>1 DEF Reader!ExtentCost, Reader!EdgeCost, Reader!EdgeCount, Reader!CheckedAdd,
     Reader!CheckedMul
<1>4. DescribedCharge' = DescribedCharge /\ DescribedTotal' = DescribedTotal
  BY <1>1, <1>3 DEF DescribedCharge, DescribedTotal, Reader!Cost
<1>5. PaidFor(DescribedCost)' <=> PaidFor(DescribedCost)
  BY <1>1, <1>2 DEF PaidFor, AllocationError, First, When, Admits, CheckedAdd
<1>6. DefaultCost' = DefaultCost
  BY <1>1, <1>2 DEF DefaultCost, CheckedAdd
<1>7. QED
  BY <1>1, <1>3, <1>4, <1>5, <1>6, StaticStay, SizesStay DEF Unreported, ChargesMatch

LEMMA FailMatch ==
  ASSUME Steady, count' = count, pc' = "failed",
         outcome' = Expected \/ (outcome' = "Io" /\ Unreported) \/ Panicked'
  PROVE  MatchInv'
<1>1. PassedInv'
  BY DEF PassedInv, CountLabels, NumberLabels, TensorLabels, EdgeLabels, StringLabels, PaidStrings
<1>2. VerdictInv'
  BY MatchStays DEF VerdictInv
<1>3. QED
  BY <1>1, <1>2 DEF MatchInv

LEMMA DoneMatch ==
  ASSUME Steady, count' = count, pc' = "done", Expected = "none",
         Limited => ChargesMatch
  PROVE  MatchInv'
<1>1. PassedInv'
  BY DEF PassedInv, CountLabels, NumberLabels, TensorLabels, EdgeLabels, StringLabels, PaidStrings
<1>2. VerdictInv'
  BY MatchStays DEF VerdictInv
<1>3. QED
  BY <1>1, <1>2 DEF MatchInv

(* A step on to a label that still holds every check passed.                *)
LEMMA MoveMatch ==
  ASSUME MatchInv, Steady, count' = count, pc' \notin {"done", "failed"},
         pc' \in {"dispatch"} \cup CountLabels =>
           pc \in {"dispatch"} \cup CountLabels /\ edges' = edges,
         pc' = "readScalar" => Admits(call.limit, call.start, ScalarSize),
         pc' \in NumberLabels => pc \in NumberLabels \/ PaidFor(DescribedCost),
         pc' = "collectWords" => Admits(call.limit, call.start, Reader!ExtentCost(Described)),
         pc' = "synthesize" => Admits(call.limit, call.start, DefaultCost),
         pc' \in EdgeLabels /\ call.want = "edges" =>
           pc \in EdgeLabels \/ Admits(call.edgeLimit, call.edges, EdgeCount),
         pc' \in PaidStrings /\ Readable => pc \in PaidStrings \/ PaidFor(DescribedCost),
         pc' \in {"pairUp", "growPairs", "movePairs"} =>
           Admits(call.limit, call.start, Reader!EdgeCost(Described))
  PROVE  MatchInv'
<1>1. /\ pc' \in {"dispatch"} \cup CountLabels => edges' = call'.edges
      /\ pc' \in EdgeLabels /\ call'.want = "edges" =>
           Admits(call.edgeLimit, call.edges, EdgeCount)
      /\ pc' \in NumberLabels => PaidFor(DescribedCost)
      /\ pc' \in PaidStrings /\ Readable => PaidFor(DescribedCost)
  BY DEF MatchInv, PassedInv, Steady
<1>2. /\ \A l, s, r : Admits(l, s, r)' <=> Admits(l, s, r)
  BY DEF Admits, CheckedAdd
<1>3. PassedInv'
  <2>1. /\ pc' = "readScalar" => Admits(call.limit, call.start, ScalarSize)'
        /\ pc' = "collectWords" =>
             Admits(call.limit, call.start, Reader!ExtentCost(Described))'
        /\ pc' = "synthesize" => Admits(call.limit, call.start, DefaultCost)'
        /\ pc' \in {"pairUp", "growPairs", "movePairs"} =>
             Admits(call.limit, call.start, Reader!EdgeCost(Described))'
        /\ pc' \in EdgeLabels /\ call'.want = "edges" =>
             Admits(call.edgeLimit, call.edges, EdgeCount)'
    BY <1>1, MatchStays DEF Admits, CheckedAdd
  <2>2. /\ pc' \in NumberLabels => PaidFor(DescribedCost)'
        /\ pc' \in PaidStrings /\ Readable' => PaidFor(DescribedCost)'
    BY <1>1, MatchStays
  <2>3. QED
    BY <1>1, <2>1, <2>2 DEF PassedInv, CountLabels, NumberLabels, TensorLabels, EdgeLabels,
       StringLabels, PaidStrings
<1>4. VerdictInv'
  BY DEF VerdictInv
<1>5. QED
  BY <1>3, <1>4 DEF MatchInv

-----------------------------------------------------------------------------
(* Charges. *)

(* charge_allocation from the start of the decoding: refused with the error *)
(* of that charge, or passed.                                               *)
LEMMA AllocationStep ==
  ASSUME Limited => used = call.start, NEW req, NEW next, ChargeAllocation(req, next)
  PROVE  \/ pc' = "failed" /\ outcome' = AllocationError(req) /\ ~PaidFor(req)
         \/ pc' = next /\ PaidFor(req)
<1>1. Admits(call.limit, used, req) <=> Admits(call.limit, call.start, req)
  BY DEF Admits, Limited
<1>2. CASE call.limit = NoLimit /\ req = Overflow /\ Fail("InvalidTensor")
  <2>1. Admits(call.limit, call.start, req)
    BY <1>2 DEF Admits
  <2>2. AllocationError(req) = "InvalidTensor"
    BY <1>2, <2>1 DEF AllocationError, First, When
  <2>3. QED
    BY <1>2, <2>2 DEF Fail, PaidFor
<1>3. CASE /\ call.limit # NoLimit \/ req # Overflow
           /\ ~Admits(call.limit, used, req) /\ Fail("ReadLimitExceeded")
  <2>1. AllocationError(req) = "ReadLimitExceeded"
    BY <1>1, <1>3 DEF AllocationError, First, When
  <2>2. QED
    BY <1>3, <2>1 DEF Fail, PaidFor
<1>4. CASE /\ call.limit # NoLimit \/ req # Overflow
           /\ Admits(call.limit, used, req) /\ Goto(next)
  <2>1. req # Overflow
    BY <1>4 DEF Admits, CheckedAdd
  <2>2. QED
    BY <1>1, <1>4, <2>1 DEF Goto, PaidFor, AllocationError, First, When
<1>5. QED
  BY <1>2, <1>3, <1>4 DEF ChargeAllocation, Charge

LEMMA PaidFacts ==
  ASSUME NEW req, PaidFor(req)
  PROVE  req # Overflow /\ Admits(call.limit, call.start, req)
BY DEF PaidFor, AllocationError, First, When

(* A second charge is admitted as the sum of both would have been.          *)
LEMMA SumAdmitted ==
  ASSUME TypeOK, NEW r \in Usize, NEW q \in Requests,
         Limited => used = call.start + r
  PROVE  Admits(call.limit, used, q) <=> Admits(call.limit, call.start, CheckedAdd(r, q))
<1>1. SUFFICES ASSUME Limited
      PROVE  Admits(call.limit, used, q) <=> Admits(call.limit, call.start, CheckedAdd(r, q))
  BY DEF Admits, Limited
<1>2. /\ call.start \in Nat /\ r \in Nat /\ used = call.start + r /\ UsizeMax \in Nat
      /\ used \in Nat /\ Overflow \notin Nat
      /\ (q = Overflow \/ q \in Nat)
  BY <1>1, Typing, UsizeAssumption, OverflowAssumption DEF Usize, Requests
<1>3. CASE q = Overflow
  BY <1>1, <1>3 DEF Admits, CheckedAdd, Limited
<1>4. CASE q \in Nat
  <2>1. /\ q # Overflow /\ used # Overflow /\ r # Overflow /\ call.start # Overflow
        /\ used + q = call.start + (r + q) /\ r + q # Overflow
    BY <1>2, <1>4
  <2>2. CASE used + q <= UsizeMax
    <3>1. CheckedAdd(used, q) = used + q
      BY <2>1, <2>2 DEF CheckedAdd
    <3>2. CheckedAdd(r, q) = r + q
      <4>1. r + q <= UsizeMax
        BY <1>2, <1>4, <2>2
      <4>2. QED
        BY <2>1, <4>1 DEF CheckedAdd
    <3>3. CheckedAdd(call.start, r + q) = used + q
      BY <2>1, <2>2 DEF CheckedAdd
    <3>4. QED
      BY <3>1, <3>2, <3>3 DEF Admits
  <2>3. CASE ~(used + q <= UsizeMax)
    <3>1. CheckedAdd(used, q) = Overflow
      BY <2>3 DEF CheckedAdd
    <3>2. CheckedAdd(call.start, CheckedAdd(r, q)) = Overflow
      BY <2>1, <2>3 DEF CheckedAdd
    <3>3. QED
      BY <1>1, <3>1, <3>2 DEF Admits, Limited
  <2>4. QED
    BY <2>2, <2>3
<1>5. QED
  BY <1>2, <1>3, <1>4

LEMMA SecondStep ==
  ASSUME TypeOK, NEW r \in Usize, NEW q \in Requests, NEW next,
         Limited => used = call.start + r, Charge(q, next)
  PROVE  \/ /\ pc' = "failed" /\ outcome' = "ReadLimitExceeded"
            /\ ~Admits(call.limit, call.start, CheckedAdd(r, q))
         \/ pc' = next /\ Admits(call.limit, call.start, CheckedAdd(r, q))
BY SumAdmitted DEF Charge, Fail, Goto

-----------------------------------------------------------------------------
(* Scalars and counting. *)

LEMMA DispatchMatch == IInv /\ ExactInv /\ MatchInv /\ Dispatch => MatchInv'
<1> SUFFICES ASSUME IInv, ExactInv, MatchInv, Dispatch PROVE MatchInv'
  OBVIOUS
<1>1. Steady /\ pc = "dispatch" /\ count' = count /\ edges' = edges /\ TypeOK
  BY DEF Dispatch, Steady, IInv
<1>2. CASE Refused /\ Fail("InvalidTensor")
  BY <1>1, <1>2, RefusedVerdict, FailMatch DEF Fail
<1>3. CASE ~Refused /\ Goto(IF ScalarNumber THEN "scalar" ELSE "count")
  <2>1. pc' = "scalar" \/ pc' = "count"
    BY <1>3 DEF Goto
  <2>2. QED
    BY <1>1, <2>1, MoveMatch DEF CountLabels, NumberLabels, TensorLabels, EdgeLabels,
       StringLabels, PaidStrings
<1>4. QED
  BY <1>2, <1>3 DEF Dispatch

LEMMA ChargeScalarMatch == IInv /\ ExactInv /\ MatchInv /\ ChargeScalar => MatchInv'
<1> SUFFICES ASSUME IInv, ExactInv, MatchInv, ChargeScalar PROVE MatchInv'
  OBVIOUS
<1>1. Steady /\ pc = "scalar" /\ count' = count /\ edges' = edges /\ TypeOK
      /\ Charge(ScalarSize, "readScalar")
  BY DEF ChargeScalar, Steady, IInv
<1>2. ScalarNumber /\ (Limited => used = call.start)
  BY <1>1 DEF ExactInv, PathInv, SpentInv
<1>3. Admits(call.limit, used, ScalarSize) <=> Admits(call.limit, call.start, ScalarSize)
  BY <1>2 DEF Admits, Limited
<1>4. CASE ~Admits(call.limit, call.start, ScalarSize) /\ Fail("ReadLimitExceeded")
  <2>1. Expected = "ReadLimitExceeded"
    BY <1>1, <1>2, <1>4, ScalarVerdict DEF First, When
  <2>2. QED
    BY <1>1, <1>4, <2>1, FailMatch DEF Fail
<1>5. CASE Admits(call.limit, call.start, ScalarSize) /\ pc' = "readScalar"
  BY <1>1, <1>5, MoveMatch DEF CountLabels, NumberLabels, TensorLabels, EdgeLabels, StringLabels,
     PaidStrings
<1>6. QED
  BY <1>1, <1>3, <1>4, <1>5 DEF Charge, Goto

LEMMA ReadScalarMatch == IInv /\ ExactInv /\ MatchInv /\ ReadScalar => MatchInv'
<1> SUFFICES ASSUME IInv, ExactInv, MatchInv, ReadScalar PROVE MatchInv'
  OBVIOUS
<1>1. Steady /\ pc = "readScalar" /\ count' = count /\ TypeOK
  BY DEF ReadScalar, Steady, IInv
<1>2. ScalarNumber /\ Admits(call.limit, call.start, ScalarSize)
  BY <1>1 DEF ExactInv, PathInv, MatchInv, PassedInv
<1>3. Expected = When(Unfit, "InvalidTensor")
  BY <1>1, <1>2, ScalarVerdict DEF First, When
<1>4. CASE Unfit /\ Fail("InvalidTensor")
  BY <1>1, <1>3, <1>4, FailMatch DEF Fail, When
<1>5. CASE ~Unfit /\ pc' = "done"
  <2>1. DescribedCharge = ScalarSize /\ DescribedTotal = ScalarSize + 0
    BY <1>1, <1>2, ScalarVerdict DEF DescribedCharge, DescribedTotal, Reader!Cost
  <2>2. FullCost = ScalarSize /\ ScalarSize \in Nat
    BY <1>1, <1>2, ScalarCosts
  <2>3. QED
    BY <1>1, <1>3, <1>5, <2>1, <2>2, DoneMatch DEF When, ChargesMatch
<1>6. QED
  BY <1>4, <1>5 DEF ReadScalar, Hold, Unfit

LEMMA UncountableMatch ==
  ASSUME TypeOK, Steady, count' = count, ~Refused, Uncountable,
         TooWideExtent \/ TrueCount > UsizeMax
  PROVE  MatchInv'
<1>1. pc' = "failed" /\ outcome' = UncountedError
  BY DEF Uncountable, Fail, UncountedError, Limited
<1>2. QED
  BY <1>1, UncountableVerdict, FailMatch

LEMMA CountElementsMatch == IInv /\ ExactInv /\ MatchInv /\ CountElements => MatchInv'
<1> SUFFICES ASSUME IInv, ExactInv, MatchInv, CountElements PROVE MatchInv'
  OBVIOUS
<1>1. Steady /\ pc = "count" /\ count' = count /\ edges' = edges /\ TypeOK /\ ~Refused
  BY DEF CountElements, Steady, IInv, ExactInv, ShapeInv, PathInv, CountLabels
<1>2. CASE TooWideExtent /\ Uncountable
  BY <1>1, <1>2, UncountableMatch
<1>3. CASE pc' \in {"counted", "countAxis"}
  BY <1>1, <1>3, MoveMatch DEF CountLabels, NumberLabels, TensorLabels, EdgeLabels, StringLabels,
     PaidStrings
<1>4. QED
  BY <1>2, <1>3 DEF CountElements, Goto

LEMMA CountAxisMatch == IInv /\ ExactInv /\ MatchInv /\ CountAxis => MatchInv'
<1> SUFFICES ASSUME IInv, ExactInv, MatchInv, CountAxis PROVE MatchInv'
  OBVIOUS
<1> DEFINE next == CheckedMul(product, ds.extents[axis])
           P == Products(ds.extents)
<1>1. /\ Steady /\ edges' = edges /\ pc = "countAxis" /\ count' = count
      /\ axis <= Len(ds.extents) /\ TypeOK /\ ~Refused
  BY DEF CountAxis, Steady, IInv, ExactInv, PathInv, CountLabels
<1>2. /\ ds.extents \in Seq(Nat) /\ Len(ds.extents) \in Nat
      /\ P \in [0 .. Len(ds.extents) -> Nat]
  BY NumbersAt, Typing, CountFacts
<1>3. ~ds.null /\ ~ZeroExtent /\ product = P[axis - 1]
  BY <1>1 DEF ExactInv, ShapeInv
<1>4. axis \in 1 .. Len(ds.extents) /\ (next = Overflow => P[axis] > UsizeMax)
  BY <1>1, <1>2, <1>3, NextProduct
<1> HIDE DEF next, P
<1>5. CASE next = Overflow /\ Uncountable
  <2>1. \A i \in 1 .. Len(ds.extents) : ds.extents[i] # 0
    BY <1>2, <1>3 DEF ZeroExtent
  <2>2. P[axis] <= P[Len(ds.extents)]
    BY <1>2, <1>4, <2>1, GrowingProduct DEF P
  <2>3. TrueCount > UsizeMax
    <3>1. P[axis] \in Nat /\ P[Len(ds.extents)] \in Nat /\ UsizeMax \in Nat
      BY <1>2, <1>4, UsizeAssumption
    <3>2. TrueCount = P[Len(ds.extents)]
      BY <1>3 DEF TrueCount, P
    <3>3. QED
      BY <1>4, <1>5, <2>2, <3>1, <3>2
  <2>4. QED
    BY <1>1, <1>5, <2>3, UncountableMatch
<1>6. CASE pc' = pc
  BY <1>1, <1>6, MoveMatch DEF CountLabels, NumberLabels, TensorLabels, EdgeLabels, StringLabels,
     PaidStrings
<1>7. QED
  BY <1>5, <1>6 DEF CountAxis, next

(* The step that stores the count changes what is described, but nothing is *)
(* charged yet.                                                             *)
LEMMA CountDoneMatch == IInv /\ ExactInv /\ MatchInv /\ CountDone => MatchInv'
<1> SUFFICES ASSUME IInv, ExactInv, MatchInv, CountDone PROVE MatchInv'
  OBVIOUS
<1>1. pc = "countAxis" /\ pc' = "counted" /\ edges' = edges /\ call' = call
  BY DEF CountDone, Goto
<1>2. edges = call.edges
  BY <1>1 DEF MatchInv, PassedInv, CountLabels
<1>3. QED
  BY <1>1, <1>2 DEF MatchInv, PassedInv, VerdictInv, CountLabels, NumberLabels, TensorLabels,
     EdgeLabels, StringLabels, PaidStrings

-----------------------------------------------------------------------------
(* Numbers. *)

LEMMA NumbersKnown ==
  ASSUME IInv, ExactInv, MatchInv, pc \in NumberLabels \/ (pc = "counted" /\ ReadsTensor)
  PROVE  /\ TypeOK /\ ReadsTensor /\ ~ScalarNumber /\ ~Refused
         /\ ~TooWideExtent /\ TrueCount <= UsizeMax /\ count = TrueCount
         /\ TrueCount \in Nat /\ UsizeMax \in Nat
         /\ pc \in NumberLabels => PaidFor(NumericRequest)
         /\ ds.class \in Numeric
         /\ Stands(NumericRequest, TensorCost)
         /\ pc \in NumberLabels => NumericRequest = TensorCost /\ NumericRequest \in Usize
<1>1. TypeOK /\ ReadsTensor /\ ~ScalarNumber /\ ~Refused /\ ~TooWideExtent /\ count = TrueCount
  BY DEF IInv, ExactInv, PathInv, ShapeInv, CountLabels, Counted
<1>2. TrueCount \in Nat /\ UsizeMax \in Nat /\ TrueCount <= UsizeMax
  BY <1>1, CountFacts, UsizeAssumption DEF TypeOK, Usize
<1>3. ds.class \in Numeric /\ DescribedCost = NumericRequest
  BY <1>1, <1>2, NumbersVerdict
<1>4. Stands(NumericRequest, TensorCost)
  BY <1>1, <1>3, TensorStands
<1>5. pc \in NumberLabels => PaidFor(NumericRequest)
  BY <1>3 DEF MatchInv, PassedInv
<1>6. PaidFor(NumericRequest) => NumericRequest # Overflow
  BY PaidFacts
<1>7. pc \in NumberLabels => NumericRequest = TensorCost /\ NumericRequest \in Usize
  BY <1>4, <1>5, <1>6 DEF Stands, Requests
<1>8. QED
  BY <1>1, <1>2, <1>3, <1>4, <1>5, <1>7

LEMMA NumbersMoveMatch ==
  ASSUME IInv, ExactInv, MatchInv, Steady, count' = count, pc \in NumberLabels,
         pc' \in NumberLabels \ {"collectWords", "synthesize"}
  PROVE  MatchInv'
<1>1. PaidFor(DescribedCost)
  BY DEF MatchInv, PassedInv
<1>2. QED
  BY <1>1, MoveMatch DEF CountLabels, NumberLabels, TensorLabels, EdgeLabels, StringLabels,
     PaidStrings

LEMMA ChargeNumbersMatch == IInv /\ ExactInv /\ MatchInv /\ ChargeNumbers => MatchInv'
<1> SUFFICES ASSUME IInv, ExactInv, MatchInv, ChargeNumbers PROVE MatchInv'
  OBVIOUS
<1>1. /\ Steady /\ count' = count /\ pc = "counted" /\ ReadsTensor
      /\ ChargeAllocation(NumericRequest, "readNumbers") /\ (Limited => used = call.start)
  BY DEF ChargeNumbers, Steady, ExactInv, SpentInv, CountLabels
<1>2. /\ TypeOK /\ ~ScalarNumber /\ ~Refused /\ ~TooWideExtent /\ TrueCount <= UsizeMax
  BY <1>1, NumbersKnown
<1>3. DescribedCost = NumericRequest
  BY <1>1, <1>2, NumbersVerdict
<1>4. CASE pc' = "failed" /\ outcome' = AllocationError(NumericRequest) /\ ~PaidFor(NumericRequest)
  <2>1. NumbersLeft = outcome' /\ NumbersLeft # "none"
    BY <1>4 DEF NumbersLeft, First, PaidFor
  <2>2. Expected = NumbersLeft
    BY <1>1, <1>2, <2>1, NumbersVerdict DEF ReadsTensor, ExtentsError, First
  <2>3. QED
    BY <1>1, <1>4, <2>1, <2>2, FailMatch
<1>5. CASE pc' = "readNumbers" /\ PaidFor(NumericRequest)
  BY <1>1, <1>3, <1>5, MoveMatch DEF CountLabels, NumberLabels, TensorLabels, EdgeLabels,
     StringLabels, PaidStrings
<1>6. QED
  BY <1>1, <1>4, <1>5, AllocationStep

LEMMA ReadNumbersMatch == IInv /\ ExactInv /\ MatchInv /\ ReadNumbers => MatchInv'
<1> SUFFICES ASSUME IInv, ExactInv, MatchInv, ReadNumbers PROVE MatchInv'
  OBVIOUS
<1>1. Steady /\ count' = count /\ pc = "readNumbers" /\ pc' \in {"narrow", "build"}
  BY DEF ReadNumbers, Steady, Hold
<1>2. QED
  BY <1>1, NumbersMoveMatch DEF NumberLabels, TensorLabels

(* What refuses the values refuses them whatever is made of the tensor.     *)
LEMMA UnfitMatch ==
  ASSUME IInv, ExactInv, MatchInv, Steady, count' = count, pc \in NumberLabels,
         Fail("InvalidTensor"), Unfit \/ ds.null \/ ZeroHidesOverflow
  PROVE  MatchInv'
<1>1. /\ TypeOK /\ ReadsTensor /\ ~ScalarNumber /\ ~Refused /\ ~TooWideExtent
      /\ TrueCount <= UsizeMax /\ PaidFor(NumericRequest)
  BY NumbersKnown
<1>2. NumbersLeft = "InvalidTensor"
  BY <1>1, NumbersVerdict DEF NumbersLeft, First, When, PaidFor
<1>3. Expected = "InvalidTensor"
  BY <1>1, <1>2, NumbersVerdict DEF ReadsTensor, ExtentsError, First
<1>4. QED
  BY <1>3, FailMatch DEF Fail

LEMMA NarrowU64Match == IInv /\ ExactInv /\ MatchInv /\ NarrowU64 => MatchInv'
<1> SUFFICES ASSUME IInv, ExactInv, MatchInv, NarrowU64 PROVE MatchInv'
  OBVIOUS
<1>1. Steady /\ count' = count /\ pc = "narrow" /\ ds.class = "u64" /\ pc \in NumberLabels
  BY DEF NarrowU64, Steady, IInv, NumberInv, NumberLabels
<1>2. CASE ds.values = "big" /\ Fail("InvalidTensor")
  BY <1>1, <1>2, UnfitMatch DEF Unfit
<1>3. CASE pc' = "build"
  BY <1>1, <1>3, NumbersMoveMatch DEF NumberLabels, TensorLabels
<1>4. QED
  BY <1>2, <1>3 DEF NarrowU64, Hold

LEMMA BuildTensorMatch == IInv /\ ExactInv /\ MatchInv /\ BuildTensor => MatchInv'
<1> SUFFICES ASSUME IInv, ExactInv, MatchInv, BuildTensor PROVE MatchInv'
  OBVIOUS
<1>1. Steady /\ count' = count /\ pc = "build" /\ pc' = "shapeAxis"
  BY DEF BuildTensor, Steady, Hold
<1>2. QED
  BY <1>1, NumbersMoveMatch DEF NumberLabels, TensorLabels

(* Tensor::new has no zero shortcut: an overflow it meets that the count    *)
(* did not is hidden behind a zero extent.                                  *)
LEMMA ShapeAxisMatch == IInv /\ ExactInv /\ MatchInv /\ ShapeAxis => MatchInv'
<1> SUFFICES ASSUME IInv, ExactInv, MatchInv, ShapeAxis PROVE MatchInv'
  OBVIOUS
<1> DEFINE next == CheckedMul(product, ds.extents[axis])
           P == Products(ds.extents)
<1>1. /\ Steady /\ pc = "shapeAxis" /\ count' = count /\ axis <= Len(ds.extents)
      /\ pc \in NumberLabels
  BY DEF ShapeAxis, Steady, NumberLabels, TensorLabels
<1>2. /\ TypeOK /\ ds.extents \in Seq(Nat) /\ Len(ds.extents) \in Nat
      /\ P \in [0 .. Len(ds.extents) -> Nat] /\ (ds.null => ds.extents = <<>>)
      /\ TrueCount \in Nat /\ TrueCount <= UsizeMax /\ UsizeMax \in Nat
  BY <1>1, NumbersAt, Typing, CountFacts, NumbersKnown
<1>3. product = P[axis - 1]
  BY <1>1 DEF ExactInv, ShapeInv
<1>4. axis \in 1 .. Len(ds.extents) /\ (next = Overflow => P[axis] > UsizeMax)
  BY <1>1, <1>2, <1>3, NextProduct
<1> HIDE DEF next, P
<1>5. CASE next = Overflow /\ Fail("InvalidTensor")
  <2>1. ~ds.null
    BY <1>2, <1>4
  <2>2. TrueCount = P[Len(ds.extents)]
    BY <2>1 DEF TrueCount, P
  <2>3. ~ \A i \in 1 .. Len(ds.extents) : ds.extents[i] # 0
    <3>1. SUFFICES ASSUME \A i \in 1 .. Len(ds.extents) : ds.extents[i] # 0 PROVE FALSE
      OBVIOUS
    <3>2. P[axis] <= P[Len(ds.extents)]
      BY <1>2, <1>4, <3>1, GrowingProduct DEF P
    <3>3. P[axis] \in Nat /\ P[axis] > UsizeMax
      BY <1>2, <1>4, <1>5
    <3>4. QED
      BY <1>2, <2>2, <3>2, <3>3
  <2>4. P[Len(ds.extents)] = 0
    BY <1>2, <2>3, ZeroProduct DEF P
  <2>5. ZeroHidesOverflow
    BY <1>4, <1>5, <2>2, <2>4 DEF ZeroHidesOverflow, P
  <2>6. QED
    BY <1>1, <1>5, <2>5, UnfitMatch
<1>6. CASE pc' = pc
  BY <1>1, <1>6, NumbersMoveMatch DEF NumberLabels, TensorLabels
<1>7. QED
  BY <1>5, <1>6 DEF ShapeAxis, next

(* What Tensor::new passed fits.                                            *)
LEMMA FitVerdict ==
  ASSUME IInv, ExactInv, MatchInv, pc \in NumberLabels, ~Unfit, ~ds.null, ~ZeroHidesOverflow
  PROVE  /\ NumbersError = "none" /\ NumbersLeft = "none"
         /\ call.want \in {"tensor", "metadata"} => Expected = "none"
         /\ call.want = "default" =>
              Expected = When(~Admits(call.limit, call.start, DefaultCost), "ReadLimitExceeded")
         /\ call.want = "extents" =>
              Expected = First(First(When(ds.class \notin {"int", "u64"}, "InvalidTensor"),
                                 When(~Admits(call.limit, call.start, Reader!ExtentCost(Described)),
                                      "ReadLimitExceeded")),
                               When(ds.values = "negative", "InvalidTensor"))
<1>1. /\ TypeOK /\ ReadsTensor /\ ~ScalarNumber /\ ~Refused /\ ~TooWideExtent
      /\ TrueCount <= UsizeMax /\ PaidFor(NumericRequest)
  BY NumbersKnown
<1>2. NumbersLeft = "none" /\ NumbersError = "none" /\ Described.payload # "unfit"
  BY <1>1, NumbersVerdict DEF NumbersLeft, First, When, PaidFor
<1>3. Described.payload = "negative" <=> ds.values = "negative"
  BY <1>1, <1>2, DescribedFields
<1>4. call.want = "extents" =>
        Expected = First(First(When(ds.class \notin {"int", "u64"}, "InvalidTensor"),
                           When(~Admits(call.limit, call.start, Reader!ExtentCost(Described)),
                                "ReadLimitExceeded")),
                         When(ds.values = "negative", "InvalidTensor"))
  BY <1>1, <1>2, <1>3, NumbersVerdict DEF ExtentsError, First, When
<1>5. QED
  BY <1>1, <1>2, <1>4, NumbersVerdict DEF First

LEMMA ShapeDoneMatch == IInv /\ ExactInv /\ MatchInv /\ ShapeDone => MatchInv'
<1> SUFFICES ASSUME IInv, ExactInv, MatchInv, ShapeDone PROVE MatchInv'
  OBVIOUS
<1> DEFINE P == Products(ds.extents)
<1>1. /\ Steady /\ pc = "shapeAxis" /\ count' = count /\ axis > Len(ds.extents)
      /\ pc \in NumberLabels
  BY DEF ShapeDone, Steady, NumberLabels, TensorLabels
<1>2. /\ axis <= Len(ds.extents) + 1 /\ product = P[axis - 1] /\ count = TrueCount
      /\ \A n \in 0 .. axis - 1 : P[n] <= UsizeMax
  BY <1>1 DEF ExactInv, ShapeInv, Counted
<1>3. /\ TypeOK /\ Len(ds.extents) \in Nat /\ P \in [0 .. Len(ds.extents) -> Nat]
      /\ axis \in Nat /\ UsizeMax \in Nat /\ ds.extents \in Seq(Nat)
  BY NumbersAt, Typing, CountFacts, UsizeAssumption DEF TypeOK
<1>4. axis - 1 = Len(ds.extents)
  BY <1>1, <1>2, <1>3
<1>5. ~ZeroHidesOverflow
  BY <1>2, <1>3, <1>4 DEF ZeroHidesOverflow
<1>6. product # count <=> ds.null
  <2>1. CASE ds.null
    <3>1. ds.extents = <<>> /\ count = 0
      BY <1>2, <1>3, <2>1, CountFacts DEF TrueCount
    <3>2. axis - 1 = 0
      BY <1>4, <3>1
    <3>3. P[0] = 1
      BY <1>3, ProductsUnfold
    <3>4. product = P[0]
      BY <1>2, <3>2
    <3> HIDE DEF P
    <3>5. QED
      BY <2>1, <3>1, <3>3, <3>4
  <2>2. CASE ~ds.null
    BY <1>2, <1>4, <2>2 DEF TrueCount
  <2>3. QED
    BY <2>1, <2>2
<1>7. ~Unfit
  BY <1>1 DEF ExactInv, PathInv, TensorLabels, Unfit
<1>8. CASE ds.null /\ Fail("InvalidTensor")
  BY <1>1, <1>8, UnfitMatch
<1>9. CASE ~ds.null /\ call.want = "extents" /\ ds.class \notin {"int", "u64"}
             /\ Fail("InvalidTensor")
  <2>1. Expected = "InvalidTensor"
    BY <1>1, <1>5, <1>7, <1>9, FitVerdict DEF First, When
  <2>2. QED
    BY <1>1, <1>9, <2>1, FailMatch DEF Fail
<1>10. CASE ~ds.null /\ pc' = (CASE call.want = "extents" -> "chargeWords"
                                 [] call.want = "default" -> "chargeDefault"
                                 [] OTHER                 -> "done")
  <2>1. CASE call.want \in {"extents", "default"}
    <3>1. pc' \in {"chargeWords", "chargeDefault"}
      BY <1>10, <2>1
    <3>2. QED
      BY <1>1, <3>1, NumbersMoveMatch DEF NumberLabels, TensorLabels
  <2>2. CASE call.want \notin {"extents", "default"}
    <3>1. pc' = "done" /\ call.want \in {"tensor", "metadata"}
      BY <1>1, <1>10, <2>2, NumbersKnown DEF ReadsTensor
    <3>2. Expected = "none"
      BY <1>1, <1>5, <1>7, <1>10, <3>1, FitVerdict
    <3>3. /\ TypeOK /\ ReadsTensor /\ ~ScalarNumber /\ ~Refused /\ ~TooWideExtent
          /\ TrueCount <= UsizeMax /\ ds.class \in Numeric
          /\ NumericRequest = TensorCost
      BY <1>1, NumbersKnown
    <3>4. FullCost = TensorCost + Extra /\ Extra = 0 /\ TensorCost \in Nat
      BY <2>2, <3>3, TensorCosts DEF Extra
    <3>5. DescribedCharge = NumericRequest /\ DescribedTotal = NumericRequest + 0
      BY <3>1, <3>3, NumbersVerdict DEF DescribedCharge, DescribedTotal, Reader!Cost, WantOf
    <3>6. ChargesMatch
      BY <3>3, <3>4, <3>5 DEF ChargesMatch
    <3>7. QED
      BY <1>1, <3>1, <3>2, <3>6, DoneMatch
  <2>3. QED
    BY <2>1, <2>2
<1>11. QED
  BY <1>6, <1>8, <1>9, <1>10 DEF ShapeDone, Goto

(* The second charge of to_usizes and of a synthesized default.             *)
LEMMA SecondKnown ==
  ASSUME IInv, ExactInv, MatchInv,
         pc \in {"chargeWords", "collectWords", "chargeDefault", "synthesize"}
  PROVE  /\ pc \in NumberLabels /\ ~Unfit /\ ~ds.null /\ ~ZeroHidesOverflow
         /\ pc \in {"chargeWords", "collectWords"} =>
              call.want = "extents" /\ ds.class \in {"int", "u64"}
         /\ pc \in {"chargeDefault", "synthesize"} => call.want = "default"
         /\ Limited /\ pc \in {"chargeWords", "chargeDefault"} => used = call.start + NumericRequest
         /\ TypeOK /\ count = TrueCount /\ TrueCount \in Nat /\ NumericRequest \in Usize
         /\ WordSize \in Nat /\ DtypeSize \in Nat
         /\ DescribedCost = NumericRequest /\ Described.cost = NumericRequest
         /\ Described.count = TrueCount /\ Described.bytes = TrueCount * DtypeSize
<1>1. pc \in NumberLabels
  BY DEF NumberLabels, TensorLabels
<1>2. /\ TypeOK /\ ReadsTensor /\ ~ScalarNumber /\ ~Refused /\ ~TooWideExtent
      /\ TrueCount <= UsizeMax /\ count = TrueCount /\ TrueCount \in Nat
      /\ ds.class \in Numeric /\ NumericRequest = TensorCost /\ NumericRequest \in Usize
  BY <1>1, NumbersKnown
<1>3. ~Unfit /\ ~ds.null /\ ~ZeroHidesOverflow
  BY DEF ExactInv, PathInv, ShapeInv, ShapedLabels, TensorLabels, Unfit
<1>4. /\ pc \in {"chargeWords", "collectWords"} =>
           call.want = "extents" /\ ds.class \in {"int", "u64"}
      /\ pc \in {"chargeDefault", "synthesize"} => call.want = "default"
  BY DEF ExactInv, PathInv, IInv, NumberInv
<1>5. Limited /\ pc \in {"chargeWords", "chargeDefault"} => used = call.start + NumericRequest
  BY <1>1, <1>2 DEF ExactInv, SpentInv
<1>6. WordSize \in Nat /\ DtypeSize \in Nat
  BY <1>2, SizeFacts
<1>7. QED
  BY <1>1, <1>2, <1>3, <1>4, <1>5, <1>6, NumbersVerdict, SettledCount

LEMMA WordsCost ==
  ASSUME IInv, ExactInv, MatchInv, pc \in {"chargeWords", "collectWords"}
  PROVE  /\ Reader!ExtentCost(Described) = CheckedAdd(NumericRequest, CheckedMul(count, WordSize))
         /\ CheckedMul(count, WordSize) \in Requests
<1>1. /\ Described.cost = NumericRequest /\ Described.count = count
      /\ count \in Nat /\ WordSize \in Nat
  BY SecondKnown
<1>2. QED
  BY <1>1, MulFacts DEF Reader!ExtentCost, Reader!CheckedAdd, Reader!CheckedMul, CheckedAdd,
     CheckedMul

(* A product past usize::MAX overflows the sum either way.                  *)
LEMMA DefaultCosts ==
  ASSUME IInv, ExactInv, MatchInv, pc \in {"chargeDefault", "synthesize"}
  PROVE  /\ DefaultCost = CheckedAdd(NumericRequest, CheckedMul(count, DtypeSize))
         /\ CheckedMul(count, DtypeSize) \in Requests
<1> DEFINE more == count * DtypeSize
<1>1. /\ DescribedCost = NumericRequest /\ Described.bytes = more
      /\ count \in Nat /\ DtypeSize \in Nat /\ NumericRequest \in Usize
  BY SecondKnown
<1>2. /\ more \in Nat /\ UsizeMax \in Nat /\ Overflow \notin Nat
      /\ NumericRequest \in Nat
  BY <1>1, UsizeAssumption, OverflowAssumption DEF Usize
<1>3. CheckedMul(count, DtypeSize) = IF more <= UsizeMax THEN more ELSE Overflow
  <2>1. count # Overflow /\ DtypeSize # Overflow
    BY <1>1, <1>2
  <2>2. QED
    BY <2>1 DEF CheckedMul
<1> HIDE DEF more
<1>4. CASE more <= UsizeMax
  BY <1>1, <1>2, <1>3, <1>4 DEF DefaultCost, Requests, Usize
<1>5. CASE ~(more <= UsizeMax)
  <2>1. CheckedAdd(NumericRequest, Overflow) = Overflow
    BY DEF CheckedAdd
  <2>2. ~(NumericRequest + more <= UsizeMax)
    BY <1>2, <1>5
  <2>3. CheckedAdd(NumericRequest, more) = Overflow
    BY <2>2 DEF CheckedAdd
  <2>4. QED
    BY <1>1, <1>3, <1>5, <2>1, <2>3 DEF DefaultCost, Requests
<1>6. QED
  BY <1>4, <1>5

LEMMA ChargeWordsMatch == IInv /\ ExactInv /\ MatchInv /\ ChargeWords => MatchInv'
<1> SUFFICES ASSUME IInv, ExactInv, MatchInv, ChargeWords PROVE MatchInv'
  OBVIOUS
<1>1. /\ Steady /\ pc = "chargeWords" /\ count' = count
      /\ Charge(CheckedMul(count, WordSize), "collectWords")
  BY DEF ChargeWords, Steady
<1> DEFINE cost == Reader!ExtentCost(Described)
<1>2. /\ TypeOK /\ NumericRequest \in Usize /\ (Limited => used = call.start + NumericRequest)
      /\ CheckedMul(count, WordSize) \in Requests
      /\ cost = CheckedAdd(NumericRequest, CheckedMul(count, WordSize))
  BY <1>1, SecondKnown, WordsCost
<1>3. CASE /\ pc' = "failed" /\ outcome' = "ReadLimitExceeded"
           /\ ~Admits(call.limit, call.start, cost)
  <2>1. Expected = "ReadLimitExceeded"
    BY <1>1, <1>3, SecondKnown, FitVerdict DEF First, When
  <2>2. QED
    BY <1>1, <1>3, <2>1, FailMatch
<1>4. CASE pc' = "collectWords" /\ Admits(call.limit, call.start, cost)
  BY <1>1, <1>4, SecondKnown, MoveMatch DEF CountLabels, NumberLabels, TensorLabels, EdgeLabels,
     StringLabels, PaidStrings
<1> HIDE DEF cost
<1>5. QED
  BY <1>1, <1>2, <1>3, <1>4, SecondStep

LEMMA CollectWordsMatch == IInv /\ ExactInv /\ MatchInv /\ CollectWords => MatchInv'
<1> SUFFICES ASSUME IInv, ExactInv, MatchInv, CollectWords PROVE MatchInv'
  OBVIOUS
<1> DEFINE cost == Reader!ExtentCost(Described)
<1>1. Steady /\ pc = "collectWords" /\ count' = count
  BY DEF CollectWords, Steady
<1>2. Admits(call.limit, call.start, cost)
  BY <1>1 DEF MatchInv, PassedInv
<1>3. Expected = When(ds.values = "negative", "InvalidTensor")
  BY <1>1, <1>2, SecondKnown, FitVerdict DEF First, When
<1>4. CASE ds.values = "negative" /\ Fail("InvalidTensor")
  BY <1>1, <1>3, <1>4, FailMatch DEF Fail, When
<1>5. CASE ds.values # "negative" /\ pc' = "done"
  <2>1. Limited => ChargesMatch
    <3>1. SUFFICES ASSUME Limited PROVE ChargesMatch
      OBVIOUS
    <3> DEFINE words == CheckedMul(count, WordSize)
    <3>2. cost # Overflow
      BY <1>2, <3>1 DEF Admits, CheckedAdd, Limited
    <3>3. cost = NumericRequest + words /\ words # Overflow
      <4>1. cost = CheckedAdd(NumericRequest, words)
        BY <1>1, WordsCost
      <4> HIDE DEF words, cost
      <4>2. QED
        BY <3>2, <4>1 DEF CheckedAdd
    <3>4. words = TrueCount * WordSize
      BY <1>1, <3>3, SecondKnown, MulFacts
    <3>5. /\ TypeOK /\ ds.class \in Numeric /\ ReadsTensor /\ ~ScalarNumber
          /\ NumericRequest = TensorCost /\ call.want = "extents"
      BY <1>1, SecondKnown, NumbersKnown
    <3>6. FullCost = TensorCost + Extra /\ Extra = TrueCount * WordSize
      BY <3>5, TensorCosts DEF Extra
    <3>7. DescribedCharge = cost /\ DescribedTotal = cost + 0
      BY <3>5 DEF DescribedCharge, DescribedTotal, Reader!Cost, WantOf
    <3>8. cost \in Nat
      <4>1. TensorCost \in Nat /\ Extra \in Nat
        BY <3>5, TensorCosts
      <4> HIDE DEF cost, words
      <4>2. QED
        BY <3>3, <3>4, <3>5, <3>6, <4>1
    <3> HIDE DEF cost, words
    <3>9. QED
      BY <3>3, <3>4, <3>5, <3>6, <3>7, <3>8 DEF ChargesMatch
  <2>2. QED
    BY <1>1, <1>3, <1>5, <2>1, DoneMatch DEF When
<1>6. QED
  BY <1>4, <1>5 DEF CollectWords, Hold

LEMMA ChargeDefaultMatch == IInv /\ ExactInv /\ MatchInv /\ ChargeDefault => MatchInv'
<1> SUFFICES ASSUME IInv, ExactInv, MatchInv, ChargeDefault PROVE MatchInv'
  OBVIOUS
<1>1. /\ Steady /\ pc = "chargeDefault" /\ count' = count
      /\ Charge(CheckedMul(count, DtypeSize), "synthesize")
  BY DEF ChargeDefault, Steady
<1>2. /\ TypeOK /\ NumericRequest \in Usize /\ (Limited => used = call.start + NumericRequest)
      /\ CheckedMul(count, DtypeSize) \in Requests
      /\ DefaultCost = CheckedAdd(NumericRequest, CheckedMul(count, DtypeSize))
  BY <1>1, SecondKnown, DefaultCosts
<1>3. CASE /\ pc' = "failed" /\ outcome' = "ReadLimitExceeded"
           /\ ~Admits(call.limit, call.start, DefaultCost)
  <2>1. Expected = "ReadLimitExceeded"
    BY <1>1, <1>3, SecondKnown, FitVerdict DEF When
  <2>2. QED
    BY <1>1, <1>3, <2>1, FailMatch
<1>4. CASE pc' = "synthesize" /\ Admits(call.limit, call.start, DefaultCost)
  BY <1>1, <1>4, SecondKnown, MoveMatch DEF CountLabels, NumberLabels, TensorLabels, EdgeLabels,
     StringLabels, PaidStrings
<1>5. QED
  BY <1>1, <1>2, <1>3, <1>4, SecondStep

LEMMA SynthesizeMatch == IInv /\ ExactInv /\ MatchInv /\ Synthesize => MatchInv'
<1> SUFFICES ASSUME IInv, ExactInv, MatchInv, Synthesize PROVE MatchInv'
  OBVIOUS
<1>1. Steady /\ pc = "synthesize" /\ count' = count /\ pc' = "done"
  BY DEF Synthesize, Steady, Hold
<1>2. Admits(call.limit, call.start, DefaultCost)
  BY <1>1 DEF MatchInv, PassedInv
<1>3. Expected = "none"
  BY <1>1, <1>2, SecondKnown, FitVerdict DEF When
<1>4. ChargesMatch
  <2>1. /\ TypeOK /\ ds.class \in Numeric /\ ReadsTensor /\ ~ScalarNumber
        /\ NumericRequest = TensorCost /\ call.want = "default"
        /\ Described.cost = NumericRequest /\ Described.bytes = TrueCount * DtypeSize
    BY <1>1, SecondKnown, NumbersKnown
  <2>2. FullCost = TensorCost + Extra /\ Extra = TrueCount * DtypeSize /\ TensorCost \in Nat
    BY <2>1, TensorCosts DEF Extra
  <2>3. /\ DescribedCharge = Described.cost
        /\ DescribedTotal = Described.cost + Described.bytes
    BY <2>1 DEF DescribedCharge, DescribedTotal, Reader!Cost, WantOf
  <2>4. QED
    BY <2>1, <2>2, <2>3 DEF ChargesMatch
<1>5. QED
  BY <1>1, <1>3, <1>4, DoneMatch

-----------------------------------------------------------------------------
(* Strings. *)

LEMMA CountedStrings ==
  ASSUME IInv, ExactInv, MatchInv, pc = "counted" \/ pc \in EdgeLabels, ~ReadsTensor
  PROVE  /\ TypeOK /\ ~ScalarNumber /\ ~Refused /\ ~TooWideExtent /\ TrueCount <= UsizeMax
         /\ count = TrueCount /\ TrueCount \in Nat
<1>1. TypeOK /\ ~ScalarNumber /\ ~Refused /\ ~TooWideExtent /\ count = TrueCount
  BY DEF IInv, ExactInv, PathInv, ShapeInv, CountLabels, Counted
<1>2. QED
  BY <1>1, CountFacts, UsizeAssumption DEF TypeOK, Usize

LEMMA OneStringMatch == IInv /\ ExactInv /\ MatchInv /\ OneString => MatchInv'
<1> SUFFICES ASSUME IInv, ExactInv, MatchInv, OneString PROVE MatchInv'
  OBVIOUS
<1>1. Steady /\ count' = count /\ pc = "counted" /\ WantsOneString /\ ~ReadsTensor
  BY DEF OneString, Steady
<1>2. /\ TypeOK /\ ~Refused /\ ~TooWideExtent /\ TrueCount <= UsizeMax /\ count = TrueCount
  BY <1>1, CountedStrings
<1>3. CASE count # 1 /\ Fail("Io")
  <2>1. Expected = "Io"
    BY <1>1, <1>2, <1>3, StringsVerdict DEF First, When
  <2>2. QED
    BY <1>1, <1>3, <2>1, FailMatch DEF Fail
<1>4. CASE pc' = "chargeStrings"
  <2>1. call.want # "edges"
    BY <1>1 DEF WantsOneString
  <2>2. QED
    BY <1>1, <1>4, <2>1, MoveMatch DEF CountLabels, NumberLabels, TensorLabels, EdgeLabels,
       StringLabels, PaidStrings
<1>5. QED
  BY <1>3, <1>4 DEF OneString, Goto

LEMMA StringListMatch == IInv /\ ExactInv /\ MatchInv /\ StringList => MatchInv'
<1> SUFFICES ASSUME IInv, ExactInv, MatchInv, StringList PROVE MatchInv'
  OBVIOUS
<1>1. Steady /\ count' = count /\ pc = "counted" /\ pc' = "chargeStrings" /\ call.want # "edges"
  BY DEF StringList, Steady, Goto
<1>2. QED
  BY <1>1, MoveMatch DEF CountLabels, NumberLabels, TensorLabels, EdgeLabels, StringLabels,
     PaidStrings

(* The edges of a counted dataset: half its elements.                       *)
LEMMA EdgesCounted ==
  ASSUME IInv, ExactInv, MatchInv, EdgeShape, count # 0,
         pc = "counted" \/ (pc \in EdgeLabels /\ call.want = "edges"), ~ReadsTensor
  PROVE  /\ EdgeCount \in Nat /\ count = EdgeCount * 2 /\ PairSize \in Nat
         /\ Reader!EdgeCount(Described) = EdgeCount
         /\ Reader!EdgeCost(Described)
              = CheckedAdd(DescribedCost, CheckedMul(EdgeCount, PairSize))
<1>1. TypeOK /\ ~TooWideExtent /\ TrueCount <= UsizeMax /\ count = TrueCount
  BY CountedStrings
<1>2. ds.extents \in Seq(Nat) /\ Len(ds.extents) = 2 /\ ds.extents[2] = 2
  BY <1>1, Typing DEF EdgeShape
<1>3. EdgeCount \in Nat
  BY <1>2 DEF EdgeCount
<1>4. count = EdgeCount * 2
  BY <1>2 DEF IInv, CountInv, EdgeCount
<1>5. Described.count = count /\ Described.count # Overflow
  BY <1>1, SettledCount
<1>6. Reader!EdgeCount(Described) = EdgeCount
  <2>1. Reader!EdgeCount(Described) = count \div 2
    BY <1>5 DEF Reader!EdgeCount
  <2>2. QED
    BY <1>3, <1>4, <2>1
<1>7. Reader!EdgeCost(Described) = CheckedAdd(DescribedCost, CheckedMul(EdgeCount, PairSize))
  <2>1. Described.count # 0 /\ Described.cost = DescribedCost
    BY <1>1, <1>5, DescribedFields
  <2>2. QED
    BY <1>6, <2>1 DEF Reader!EdgeCost, Reader!CheckedAdd, Reader!CheckedMul, CheckedAdd,
       CheckedMul
<1>8. QED
  BY <1>3, <1>4, <1>6, <1>7, MachineFacts

LEMMA ChargeEdgesMatch == IInv /\ ExactInv /\ MatchInv /\ ChargeEdges => MatchInv'
<1> SUFFICES ASSUME IInv, ExactInv, MatchInv, ChargeEdges PROVE MatchInv'
  OBVIOUS
<1>1. Steady /\ count' = count /\ pc = "counted" /\ call.want = "edges" /\ edges = call.edges
  BY DEF ChargeEdges, Steady, MatchInv, PassedInv, CountLabels
<1>2. ~ReadsTensor
  BY <1>1 DEF ReadsTensor
<1>3. /\ TypeOK /\ ~Refused /\ ~ScalarNumber /\ ~TooWideExtent /\ TrueCount <= UsizeMax
      /\ count = TrueCount
  BY <1>1, <1>2, CountedStrings
<1>4. /\ Expected = IF count = 0 THEN "none" ELSE EdgesError
      /\ CountError = "none" /\ Described.count = count
  BY <1>1, <1>2, <1>3, StringsVerdict
<1>5. CASE count = 0 /\ pc' = "done"
  <2>1. PairSize \in Nat
    BY MachineFacts
  <2>2. DocumentedCost = 0
    BY <1>1, <1>2, <1>3, <1>5 DEF DocumentedCost
  <2>3. FullCost = 0
    BY <1>1, <1>3, <1>5, <2>1, <2>2 DEF FullCost
  <2>4. Reader!EdgeCost(Described) = 0
    BY <1>4, <1>5 DEF Reader!EdgeCost
  <2>5. DescribedCharge = 0 /\ DescribedTotal = 0 + 0
    BY <1>1, <2>4 DEF DescribedCharge, DescribedTotal, WantOf, Reader!Cost
  <2>6. QED
    BY <1>1, <1>4, <1>5, <2>3, <2>5, DoneMatch DEF ChargesMatch
<1>6. CASE count # 0 /\ ~EdgeShape /\ Fail("InvalidGraph")
  <2>1. EdgesError = "InvalidGraph"
    BY <1>4, <1>6 DEF EdgesError, First, When
  <2>2. QED
    BY <1>1, <1>4, <1>6, <2>1, FailMatch DEF Fail
<1>7. CASE /\ count # 0 /\ EdgeShape /\ ~Admits(call.edgeLimit, edges, EdgeCount)
           /\ Fail("ReadCountLimitExceeded")
  <2>1. Reader!EdgeCount(Described) = EdgeCount
    BY <1>1, <1>2, <1>7, EdgesCounted
  <2>2. EdgesError = "ReadCountLimitExceeded"
    BY <1>1, <1>4, <1>7, <2>1 DEF EdgesError, First, When
  <2>3. QED
    BY <1>1, <1>4, <1>7, <2>2, FailMatch DEF Fail
<1>8. CASE /\ count # 0 /\ EdgeShape /\ Admits(call.edgeLimit, edges, EdgeCount)
           /\ pc' = "chargeStrings"
  BY <1>1, <1>8, MoveMatch DEF CountLabels, NumberLabels, TensorLabels, EdgeLabels, StringLabels,
     PaidStrings
<1>9. QED
  BY <1>5, <1>6, <1>7, <1>8 DEF ChargeEdges, Goto

(* Once the strings are being read only they, and the pairs, can refuse.    *)
LEMMA StringsLeft ==
  ASSUME IInv, ExactInv, MatchInv, pc \in EdgeLabels
  PROVE  /\ TypeOK /\ ~ReadsTensor /\ ~ScalarNumber /\ count = TrueCount
         /\ call.want \in {"text", "metadata", "edges"} /\ call.want # "default"
         /\ StringsError # "none" => Expected = StringsError
         /\ StringsError = "none" =>
              Expected = When(call.want = "edges"
                               /\ ~Admits(call.limit, call.start, Reader!EdgeCost(Described)),
                              "ReadLimitExceeded")
         /\ call.want = "edges" => count # 0 /\ EdgeShape
         /\ Limited /\ pc = "chargeStrings" => used = call.start
         /\ Limited /\ pc \in PaidStrings \ {"pairUp", "growPairs", "movePairs"} => used = call.start + StringCost
         /\ FullCost = StringCost + PairCost /\ StringCost \in Nat /\ PairCost \in Nat
<1>1. /\ ~ReadsTensor /\ ~ScalarNumber /\ count = TrueCount
      /\ call.want = "edges" => count # 0 /\ EdgeShape
      /\ WantsOneString => count = 1
      /\ Limited /\ pc = "chargeStrings" => used = call.start
      /\ Limited /\ pc \in PaidStrings \ {"pairUp", "growPairs", "movePairs"} => used = call.start + StringCost
      /\ FullCost = StringCost + PairCost /\ StringCost \in Nat /\ PairCost \in Nat
  BY StringsAt
<1>2. TypeOK /\ ~Refused /\ ~TooWideExtent /\ TrueCount <= UsizeMax
  BY <1>1, CountedStrings
<1>3. /\ WantsOneString => Expected = First(When(TrueCount # 1, "Io"), StringsError)
      /\ call.want = "metadata" /\ ~WantsOneString => Expected = StringsError
      /\ call.want = "edges" => Expected = IF TrueCount = 0 THEN "none" ELSE EdgesError
      /\ CountError = "none"
      /\ call.want \in {"text", "metadata", "edges"} /\ call.want # "default"
  BY <1>1, <1>2, StringsVerdict
<1>4. CASE call.want = "edges"
  <2>1. Admits(call.edgeLimit, call.edges, EdgeCount)
    BY <1>4 DEF MatchInv, PassedInv
  <2>2. Reader!EdgeCount(Described) = EdgeCount
    BY <1>1, <1>4, EdgesCounted
  <2>3. EdgesError = First(StringsError,
                           When(~Admits(call.limit, call.start, Reader!EdgeCost(Described)),
                                "ReadLimitExceeded"))
    BY <1>1, <1>3, <1>4, <2>1, <2>2 DEF EdgesError, First, When
  <2>4. Expected = EdgesError
    BY <1>1, <1>3, <1>4
  <2>5. QED
    BY <1>1, <1>2, <1>3, <1>4, <2>3, <2>4 DEF First, When
<1>5. CASE call.want # "edges"
  <2>1. Expected = StringsError
    BY <1>1, <1>3, <1>5 DEF First, When, WantsOneString
  <2>2. QED
    BY <1>1, <1>2, <1>3, <1>5, <2>1 DEF When
<1>6. QED
  BY <1>4, <1>5

LEMMA ChargeFixedMatch == IInv /\ ExactInv /\ MatchInv /\ ChargeFixed => MatchInv'
<1> SUFFICES ASSUME IInv, ExactInv, MatchInv, ChargeFixed PROVE MatchInv'
  OBVIOUS
<1>1. /\ Steady /\ count' = count /\ pc = "chargeStrings" /\ ds.class = "fixed" /\ ~Wide
      /\ ChargeAllocation(FixedRequest, "readStrings") /\ pc \in EdgeLabels
  BY DEF ChargeFixed, Steady, EdgeLabels
<1>2. /\ ~ScalarNumber /\ (Limited => used = call.start)
      /\ StringsError # "none" => Expected = StringsError
  BY <1>1, StringsLeft
<1>3. Readable /\ DescribedCost = FixedRequest
  BY <1>1, <1>2 DEF Readable, Textual, Numeric, DescribedCost
<1>4. StringsError = AllocationError(FixedRequest)
  BY <1>3 DEF StringsError
<1>5. CASE pc' = "failed" /\ outcome' = AllocationError(FixedRequest) /\ ~PaidFor(FixedRequest)
  BY <1>1, <1>2, <1>4, <1>5, FailMatch DEF PaidFor
<1>6. CASE pc' = "readStrings" /\ PaidFor(FixedRequest)
  BY <1>1, <1>3, <1>6, MoveMatch DEF CountLabels, NumberLabels, TensorLabels, EdgeLabels,
     StringLabels, PaidStrings
<1>7. QED
  BY <1>1, <1>2, <1>5, <1>6, AllocationStep

LEMMA ChargeNothingMatch == IInv /\ ExactInv /\ MatchInv /\ ChargeNothing => MatchInv'
<1> SUFFICES ASSUME IInv, ExactInv, MatchInv, ChargeNothing PROVE MatchInv'
  OBVIOUS
<1>1. /\ Steady /\ count' = count /\ pc = "chargeStrings" /\ pc' = "readStrings"
      /\ ds.class # "vlen" /\ (ds.class = "fixed" => Wide)
  BY DEF ChargeNothing, Steady, Goto
<1>2. ~Readable
  BY <1>1 DEF Readable, Textual
<1>3. QED
  BY <1>1, <1>2, MoveMatch DEF CountLabels, NumberLabels, TensorLabels, EdgeLabels, StringLabels,
     PaidStrings

(* The dry run asks for no more than the whole.                             *)
LEMMA DryRun ==
  ASSUME TypeOK, ds.class = "vlen", Admits(call.limit, call.start, VlenRequest)
  PROVE  Admits(call.limit, call.start, VlenMinimum)
<1> DEFINE e == Elements("vlen")
           h == Headers
           p == Payload
<1>1. SUFFICES ASSUME Limited PROVE Admits(call.limit, call.start, VlenMinimum)
  BY DEF Admits, Limited
<1>2. e \in Requests /\ h \in Requests /\ p \in Requests
  BY ElementsFacts, HeadersFacts, PayloadFacts
<1>3. VlenMinimum = CheckedAdd(e, h)
  BY DEF VlenMinimum
<1>4. VlenRequest = CheckedAdd(CheckedAdd(CheckedAdd(e, p), h), p)
  BY DEF VlenRequest
<1>5. /\ CheckedAdd(call.start, VlenRequest) # Overflow
      /\ CheckedAdd(call.start, VlenRequest) <= call.limit
  BY <1>1 DEF Admits, Limited
<1> HIDE DEF e, h, p
<1> DEFINE one == CheckedAdd(e, p)
           two == CheckedAdd(one, h)
<1>6. /\ one \in Requests
      /\ (one # Overflow => e # Overflow /\ p # Overflow /\ one = e + p)
  BY <1>2, AddFacts
<1>7. /\ two \in Requests
      /\ (two # Overflow => one # Overflow /\ h # Overflow /\ two = one + h)
  <2> HIDE DEF one
  <2>1. QED
    BY <1>2, <1>6, AddFacts
<1>8. /\ VlenRequest \in Requests
      /\ (VlenRequest # Overflow => two # Overflow /\ p # Overflow /\ VlenRequest = two + p)
  <2> HIDE DEF two
  <2>1. QED
    BY <1>2, <1>4, <1>7, AddFacts DEF two
<1> HIDE DEF one, two
<1>9. /\ VlenRequest # Overflow /\ call.start + VlenRequest <= UsizeMax
      /\ CheckedAdd(call.start, VlenRequest) = call.start + VlenRequest
  BY <1>5 DEF CheckedAdd
<1>10. /\ e # Overflow /\ h # Overflow /\ p # Overflow
       /\ VlenRequest = ((e + p) + h) + p
  BY <1>6, <1>7, <1>8, <1>9
<1>11. /\ e \in Nat /\ h \in Nat /\ p \in Nat /\ call.start \in Nat /\ UsizeMax \in Nat
       /\ call.limit \in Nat
  BY <1>1, <1>2, <1>10, Typing, UsizeAssumption DEF Requests, Usize, Limits, Limited
<1>12. /\ e + h <= UsizeMax /\ call.start + (e + h) <= UsizeMax
       /\ call.start + (e + h) <= call.start + VlenRequest
       /\ call.start + (e + h) \in Nat /\ call.start + VlenRequest \in Nat
       /\ e + h \in Nat
  BY <1>9, <1>10, <1>11
<1>13. VlenMinimum = e + h
  BY <1>3, <1>10, <1>12 DEF CheckedAdd
<1>14. CheckedAdd(call.start, VlenMinimum) = call.start + (e + h)
       /\ call.start + (e + h) # Overflow
  BY <1>11, <1>12, <1>13, OverflowAssumption DEF CheckedAdd
<1>15. call.start + (e + h) <= call.limit
  BY <1>5, <1>9, <1>11, <1>12
<1>16. QED
  BY <1>14, <1>15 DEF Admits

LEMMA ChargeVlenMatch == IInv /\ ExactInv /\ MatchInv /\ ChargeVlen => MatchInv'
<1> SUFFICES ASSUME IInv, ExactInv, MatchInv, ChargeVlen PROVE MatchInv'
  OBVIOUS
<1>1. /\ Steady /\ count' = count /\ pc = "chargeStrings" /\ ds.class = "vlen"
      /\ pc \in EdgeLabels
  BY DEF ChargeVlen, Steady, EdgeLabels
<1>2. /\ TypeOK /\ ~ScalarNumber /\ (Limited => used = call.start)
      /\ StringsError # "none" => Expected = StringsError
  BY <1>1, StringsLeft
<1>3. /\ Readable
      /\ DescribedCost = (IF call.limit = NoLimit THEN VlenMinimum ELSE VlenRequest)
  BY <1>1, <1>2 DEF Readable, Textual, Numeric, DescribedCost
<1>4. StringsError = AllocationError(DescribedCost)
  BY <1>3 DEF StringsError
<1>5. CASE ~Admits(call.limit, used, VlenMinimum) /\ Fail("ReadLimitExceeded")
  <2>1. call.limit # NoLimit /\ used = call.start
    BY <1>2, <1>5 DEF Admits, Limited
  <2>2. ~Admits(call.limit, call.start, VlenRequest)
    BY <1>1, <1>2, <1>5, <2>1, DryRun
  <2>3. StringsError = "ReadLimitExceeded"
    BY <1>3, <1>4, <2>1, <2>2 DEF AllocationError, First, When
  <2>4. QED
    BY <1>1, <1>2, <1>5, <2>3, FailMatch DEF Fail
<1>6. CASE call.limit = NoLimit /\ VlenMinimum = Overflow /\ Fail("InvalidTensor")
  <2>1. Admits(call.limit, call.start, VlenMinimum)
    BY <1>6 DEF Admits
  <2>2. StringsError = "InvalidTensor"
    BY <1>3, <1>4, <1>6, <2>1 DEF AllocationError, First, When
  <2>3. QED
    BY <1>1, <1>2, <1>6, <2>2, FailMatch DEF Fail
<1>7. CASE call.limit = NoLimit /\ VlenMinimum # Overflow /\ Goto("readStrings")
  <2>1. Admits(call.limit, call.start, VlenMinimum)
    BY <1>7 DEF Admits
  <2>2. PaidFor(DescribedCost)
    BY <1>3, <1>7, <2>1 DEF PaidFor, AllocationError, First, When
  <2>3. pc' = "readStrings"
    BY <1>7 DEF Goto
  <2>4. QED
    BY <1>1, <2>2, <2>3, MoveMatch DEF CountLabels, NumberLabels, TensorLabels, EdgeLabels,
       StringLabels, PaidStrings
<1>8. CASE VlenPayload \notin Usize /\ Fail("Io")
  BY <1>1, <1>8, FailMatch DEF Fail, Unreported
<1>9. CASE call.limit # NoLimit /\ ChargeAllocation(VlenRequest, "readStrings")
  <2>1. DescribedCost = VlenRequest
    BY <1>3, <1>9
  <2>2. CASE pc' = "failed" /\ outcome' = AllocationError(VlenRequest) /\ ~PaidFor(VlenRequest)
    BY <1>1, <1>2, <1>4, <2>1, <2>2, FailMatch DEF PaidFor
  <2>3. CASE pc' = "readStrings" /\ PaidFor(VlenRequest)
    BY <1>1, <2>1, <2>3, MoveMatch DEF CountLabels, NumberLabels, TensorLabels, EdgeLabels,
       StringLabels, PaidStrings
  <2>4. QED
    BY <1>2, <1>9, <2>2, <2>3, AllocationStep
<1>10. QED
  BY <1>5, <1>6, <1>7, <1>8, <1>9 DEF ChargeVlen

LEMMA ReadStringsMatch == IInv /\ ExactInv /\ MatchInv /\ ReadStrings => MatchInv'
<1> SUFFICES ASSUME IInv, ExactInv, MatchInv, ReadStrings PROVE MatchInv'
  OBVIOUS
<1>1. Steady /\ count' = count /\ pc = "readStrings" /\ pc \in EdgeLabels /\ pc \in PaidStrings
  BY DEF ReadStrings, Steady, EdgeLabels, PaidStrings
<1>2. CASE (ds.class \notin Textual \/ (ds.class = "fixed" /\ Wide)) /\ Fail("Io")
  <2>1. StringsError = "Io"
    BY <1>2 DEF StringsError, Readable
  <2>2. QED
    BY <1>1, <1>2, <2>1, StringsLeft, FailMatch DEF Fail
<1>3. CASE pc' = "copyStrings"
  BY <1>1, <1>3, MoveMatch DEF CountLabels, NumberLabels, TensorLabels, EdgeLabels, StringLabels,
     PaidStrings
<1>4. QED
  BY <1>2, <1>3 DEF ReadStrings, Hold

LEMMA CopyStringsMatch == IInv /\ ExactInv /\ MatchInv /\ CopyStrings => MatchInv'
<1> SUFFICES ASSUME IInv, ExactInv, MatchInv, CopyStrings PROVE MatchInv'
  OBVIOUS
<1>1. Steady /\ count' = count /\ pc = "copyStrings" /\ pc' = "strings"
  BY DEF CopyStrings, Steady, Hold
<1>2. QED
  BY <1>1, MoveMatch DEF CountLabels, NumberLabels, TensorLabels, EdgeLabels, StringLabels,
     PaidStrings

(* What was charged for strings that could be read, under a limit.          *)
LEMMA StringsCharged ==
  ASSUME IInv, ExactInv, MatchInv, pc \in StringLabels
  PROVE  /\ StringsError = "none" /\ DescribedCost # Overflow /\ Readable
         /\ Limited => DescribedCost = StringCost /\ DescribedCost \in Usize
<1>1. Readable /\ PaidFor(DescribedCost) /\ pc \in EdgeLabels
  BY DEF IInv, StringInv, MatchInv, PassedInv, PaidStrings, EdgeLabels
<1>2. StringsError = "none" /\ DescribedCost # Overflow
  BY <1>1, PaidFacts DEF StringsError, PaidFor
<1>3. TypeOK /\ ~ReadsTensor /\ ~ScalarNumber /\ count = TrueCount
  BY <1>1, StringsLeft
<1>4. ASSUME Limited PROVE Stands(DescribedCost, StringCost)
  <2>1. CASE ds.class = "vlen"
    <3>1. DescribedCost = VlenRequest
      BY <1>3, <1>4, <2>1 DEF DescribedCost, Limited, Numeric
    <3>2. QED
      BY <1>3, <2>1, <3>1, VlenStands
  <2>2. CASE ds.class = "fixed" /\ ~Wide
    <3>1. DescribedCost = FixedRequest
      BY <1>3, <2>2 DEF DescribedCost, Numeric
    <3>2. QED
      BY <1>3, <2>2, <3>1, FixedStands
  <2>3. QED
    BY <1>1, <2>1, <2>2 DEF Readable, Textual
<1>5. QED
  BY <1>1, <1>2, <1>4 DEF Stands, Requests

LEMMA ReturnStringsMatch == IInv /\ ExactInv /\ MatchInv /\ ReturnStrings => MatchInv'
<1> SUFFICES ASSUME IInv, ExactInv, MatchInv, ReturnStrings PROVE MatchInv'
  OBVIOUS
<1>1. /\ Steady /\ count' = count /\ pc = "strings" /\ pc \in EdgeLabels /\ pc \in StringLabels
      /\ pc' = (IF call.want = "edges" THEN "chargePairs" ELSE "done")
  BY DEF ReturnStrings, Steady, Hold, EdgeLabels, StringLabels
<1>2. CASE call.want = "edges"
  BY <1>1, <1>2, MoveMatch DEF CountLabels, NumberLabels, TensorLabels, EdgeLabels, StringLabels,
     PaidStrings
<1>3. CASE call.want # "edges"
  <2>1. Expected = "none"
    BY <1>1, <1>3, StringsLeft, StringsCharged DEF When
  <2>2. /\ TypeOK /\ call.want \in {"text", "metadata"}
        /\ FullCost = StringCost + PairCost /\ StringCost \in Nat
    BY <1>1, <1>3, StringsLeft
  <2>3. PairCost = 0
    BY <1>3 DEF PairCost
  <2>4. DescribedCharge = DescribedCost /\ DescribedTotal = DescribedCost + 0
    BY <2>2, DescribedFields DEF DescribedCharge, DescribedTotal, WantOf, Reader!Cost
  <2>5. Limited => ChargesMatch
    BY <1>1, <2>2, <2>3, <2>4, StringsCharged DEF ChargesMatch
  <2>6. QED
    BY <1>1, <1>3, <2>1, <2>5, DoneMatch
<1>4. QED
  BY <1>2, <1>3

LEMMA ChargePairsMatch == IInv /\ ExactInv /\ MatchInv /\ ChargePairs => MatchInv'
<1> SUFFICES ASSUME IInv, ExactInv, MatchInv, ChargePairs PROVE MatchInv'
  OBVIOUS
<1> DEFINE cost == Reader!EdgeCost(Described)
           pairs == CheckedMul(EdgeCount, PairSize)
<1>1. /\ Steady /\ count' = count /\ pc = "chargePairs" /\ Charge(pairs, "pairUp")
      /\ pc \in EdgeLabels /\ pc \in StringLabels /\ call.want = "edges"
  BY DEF ChargePairs, Steady, EdgeLabels, StringLabels, IInv, CountInv
<1>2. /\ TypeOK /\ ~ReadsTensor /\ count # 0 /\ EdgeShape
      /\ (Limited => used = call.start + StringCost)
      /\ StringsError = "none"
      /\ Expected = When(~Admits(call.limit, call.start, cost), "ReadLimitExceeded")
  BY <1>1, StringsLeft, StringsCharged DEF PaidStrings
<1>3. pairs \in Requests /\ cost = CheckedAdd(DescribedCost, pairs)
  <2>1. EdgeCount \in Nat /\ PairSize \in Nat
    BY <1>1, <1>2, EdgesCounted
  <2>2. QED
    BY <1>1, <1>2, <2>1, EdgesCounted, MulFacts
<1> HIDE DEF cost, pairs
<1>4. CASE /\ pc' = "failed" /\ outcome' = "ReadLimitExceeded"
           /\ ~Admits(call.limit, call.start, cost)
  BY <1>1, <1>2, <1>4, FailMatch DEF When
<1>5. CASE pc' = "pairUp" /\ Admits(call.limit, call.start, cost)
  <2>1. Admits(call.limit, call.start, Reader!EdgeCost(Described))
    BY <1>5 DEF cost
  <2>2. QED
    BY <1>1, <1>5, <2>1, MoveMatch DEF CountLabels, NumberLabels, TensorLabels, EdgeLabels,
       StringLabels, PaidStrings
<1>6. CASE ~Limited
  <2>1. Admits(call.limit, used, pairs) /\ Admits(call.limit, call.start, cost)
    BY <1>6 DEF Admits, Limited
  <2>2. QED
    BY <1>1, <1>5, <2>1 DEF Charge, Goto
<1>7. CASE Limited
  <2>1. DescribedCost \in Usize /\ used = call.start + DescribedCost
    BY <1>1, <1>2, <1>7, StringsCharged
  <2>2. QED
    BY <1>1, <1>2, <1>3, <1>4, <1>5, <2>1, SecondStep
<1>8. QED
  BY <1>6, <1>7

(* The vector of pairs grows and moves without a check of its own, ...      *)
LEMMA PairsMoveMatch ==
  ASSUME MatchInv, Steady, count' = count,
         pc \in {"pairUp", "growPairs", "movePairs"}, pc' \in {"growPairs", "movePairs"}
  PROVE  MatchInv'
<1>1. Admits(call.limit, call.start, Reader!EdgeCost(Described))
  BY DEF MatchInv, PassedInv
<1>2. QED
  BY <1>1, MoveMatch DEF CountLabels, NumberLabels, TensorLabels, EdgeLabels, StringLabels,
     PaidStrings

LEMMA PairUpMatch == IInv /\ ExactInv /\ MatchInv /\ PairUp => MatchInv'
BY PairsMoveMatch DEF PairUp, Steady, Hold

LEMMA MovePairsMatch == IInv /\ ExactInv /\ MatchInv /\ MovePairs => MatchInv'
BY PairsMoveMatch DEF MovePairs, Steady, Hold

(* ... until it holds them all, or would pass the largest object.           *)
LEMMA PairsDoneMatch ==
  ASSUME IInv, ExactInv, MatchInv, GrowPairs, pc' = "done"
  PROVE  MatchInv'
<1> DEFINE cost == Reader!EdgeCost(Described)
           pairs == CheckedMul(EdgeCount, PairSize)
<1>1. /\ Steady /\ count' = count /\ pc = "growPairs" /\ pc' = "done"
      /\ pc \in EdgeLabels /\ pc \in StringLabels /\ call.want = "edges"
      /\ Admits(call.limit, call.start, cost)
  BY DEF GrowPairs, Steady, EdgeLabels, StringLabels, IInv, CountInv, MatchInv, PassedInv
<1>2. Expected = "none"
  BY <1>1, StringsLeft, StringsCharged DEF When
<1>3. Limited => ChargesMatch
  <2>1. SUFFICES ASSUME Limited PROVE ChargesMatch
    OBVIOUS
  <2>2. /\ ~ReadsTensor /\ count # 0 /\ EdgeShape /\ FullCost = StringCost + PairCost
        /\ StringCost \in Nat /\ PairCost \in Nat
    BY <1>1, StringsLeft
  <2>3. /\ PairCost = EdgeCount * PairSize /\ EdgeCount \in Nat /\ PairSize \in Nat
    BY <1>1, PairCosts
  <2>4. cost = CheckedAdd(DescribedCost, pairs) /\ DescribedCost = StringCost
    BY <1>1, <2>1, <2>2, EdgesCounted, StringsCharged
  <2>5. pairs # Overflow => pairs = PairCost
    BY <2>3, MulFacts
  <2>6. cost # Overflow
    BY <1>1, <2>1 DEF Admits, CheckedAdd, Limited
  <2> HIDE DEF cost, pairs
  <2>7. cost = DescribedCost + pairs /\ pairs # Overflow
    BY <2>4, <2>6 DEF CheckedAdd
  <2>8. DescribedCharge = cost /\ DescribedTotal = cost + 0
    BY <1>1 DEF DescribedCharge, DescribedTotal, WantOf, Reader!Cost, cost
  <2>9. QED
    BY <2>2, <2>4, <2>5, <2>7, <2>8 DEF ChargesMatch
<1>4. QED
  BY <1>1, <1>2, <1>3, DoneMatch

LEMMA GrowPairsMatch == IInv /\ ExactInv /\ MatchInv /\ GrowPairs => MatchInv'
<1> SUFFICES ASSUME IInv, ExactInv, MatchInv, GrowPairs PROVE MatchInv'
  OBVIOUS
<1>1. Steady /\ count' = count /\ pc = "growPairs"
  BY DEF GrowPairs, Steady
<1>2. CASE Fail("panic") /\ buffers["values"] < EdgeCount * PairSize
           /\ 2 * buffers["values"] > IsizeMax
  <2>1. EdgeCount * PairSize \in Nat /\ buffers["values"] \in Nat /\ IsizeMax \in Nat
    <3>1. EdgeCount \in Nat /\ PairSize \in Nat /\ buffers \in [Kinds -> Nat]
      BY <1>1, PairsKnown DEF IInv, TypeOK
    <3>2. QED
      BY <3>1, MachineFacts DEF Kinds
  <2>2. 2 * (EdgeCount * PairSize) > IsizeMax
    BY <1>2, <2>1
  <2>3. Panicked'
    BY <1>1, <1>2, <2>2, SizesStay DEF Panicked, Fail
  <2>4. QED
    BY <1>1, <1>2, <2>3, FailMatch DEF Fail
<1>3. CASE pc' \in {"growPairs", "movePairs"}
  BY <1>1, <1>3, PairsMoveMatch
<1>4. CASE pc' = "done"
  BY <1>4, PairsDoneMatch
<1>5. QED
  BY <1>2, <1>3, <1>4 DEF GrowPairs, Hold, Goto

-----------------------------------------------------------------------------

LEMMA InitMatch == Init => MatchInv
BY DEF Init, MatchInv, PassedInv, VerdictInv, CountLabels, NumberLabels, TensorLabels, EdgeLabels,
   StringLabels, PaidStrings

LEMMA StutterMatch == MatchInv /\ UNCHANGED vars => MatchInv'
<1> SUFFICES ASSUME MatchInv, UNCHANGED vars PROVE MatchInv'
  OBVIOUS
<1>1. Steady /\ pc' = pc /\ count' = count /\ edges' = edges /\ outcome' = outcome
  BY DEF vars, Steady
<1>2. CASE pc = "failed"
  BY <1>1, <1>2, FailMatch, MatchStays DEF MatchInv, VerdictInv, Panicked
<1>3. CASE pc = "done"
  BY <1>1, <1>3, DoneMatch DEF MatchInv, VerdictInv
<1>4. CASE pc \notin {"done", "failed"}
  BY <1>1, <1>4, MoveMatch DEF MatchInv, PassedInv
<1>5. QED
  BY <1>2, <1>3, <1>4

LEMMA StepMatch == IInv /\ ExactInv /\ MatchInv /\ [Next]_vars => MatchInv'
<1> SUFFICES ASSUME IInv, ExactInv, MatchInv, [Next]_vars PROVE MatchInv'
  OBVIOUS
<1>1. CASE Dispatch \/ ChargeScalar \/ ReadScalar \/ CountElements \/ CountAxis \/ CountDone
  BY <1>1, DispatchMatch, ChargeScalarMatch, ReadScalarMatch, CountElementsMatch,
     CountAxisMatch, CountDoneMatch
<1>2. CASE ChargeNumbers \/ ReadNumbers \/ NarrowU64 \/ BuildTensor \/ ShapeAxis \/ ShapeDone
  BY <1>2, ChargeNumbersMatch, ReadNumbersMatch, NarrowU64Match, BuildTensorMatch,
     ShapeAxisMatch, ShapeDoneMatch
<1>3. CASE ChargeWords \/ CollectWords \/ ChargeDefault \/ Synthesize
  BY <1>3, ChargeWordsMatch, CollectWordsMatch, ChargeDefaultMatch, SynthesizeMatch
<1>4. CASE OneString \/ StringList \/ ChargeEdges
  BY <1>4, OneStringMatch, StringListMatch, ChargeEdgesMatch
<1>5. CASE \/ ChargeFixed \/ ChargeNothing \/ ChargeVlen \/ ReadStrings \/ CopyStrings
           \/ ReturnStrings
  BY <1>5, ChargeFixedMatch, ChargeNothingMatch, ChargeVlenMatch, ReadStringsMatch,
     CopyStringsMatch, ReturnStringsMatch
<1>6. CASE ChargePairs \/ PairUp \/ GrowPairs \/ MovePairs
  BY <1>6, ChargePairsMatch, PairUpMatch, GrowPairsMatch, MovePairsMatch
<1>7. CASE UNCHANGED vars
  BY <1>7, StutterMatch
<1>8. QED
  BY <1>1, <1>2, <1>3, <1>4, <1>5, <1>6, <1>7 DEF Next

(* Two models of the same code agree, for every dataset, call and machine:  *)
(* the decoder, step by step, ends in the error GraphReader's one step      *)
(* gives for the description of the dataset, and a limited success has      *)
(* charged what that step charges.                                          *)
THEOREM DecodesInOneStep == Spec => []DecodesAsDescribed
<1>1. Init => MatchInv
  BY InitMatch
<1>2. IInv /\ ExactInv /\ MatchInv /\ [Next]_vars => MatchInv'
  BY StepMatch
<1>3. IInv /\ ExactInv /\ MatchInv => DecodesAsDescribed
  <2> SUFFICES ASSUME IInv, ExactInv, MatchInv PROVE DecodesAsDescribed
    OBVIOUS
  <2>1. DescribedOutcome = Expected
    BY OutcomeIs DEF IInv
  <2>2. pc = "done" => outcome = "none"
    BY DEF ExactInv, PathInv
  <2>3. Finished =>
          \/ outcome = DescribedOutcome
          \/ outcome = "Io" /\ ds.class = "vlen" /\ VlenPayload \notin Usize
          \/ outcome = "panic" /\ 2 * (EdgeCount * PairSize) > IsizeMax
    BY <2>1, <2>2 DEF MatchInv, VerdictInv, Finished, Unreported, Panicked
  <2>4. ASSUME pc = "done", call.limit # NoLimit
        PROVE  used = call.start + Reader!Cost(Described, WantOf)
                       + (IF call.want = "default" THEN Described.bytes ELSE 0)
    <3>1. used = call.start + DescribedTotal /\ DescribedCharge \in Nat
      BY <2>4 DEF ExactInv, ChargesExactly, MatchInv, VerdictInv, Limited, ChargesMatch
    <3>2. call.start \in Nat /\ (call.want = "default" => Described.bytes \in Nat)
      <4>1. TypeOK /\ call.start \in Nat /\ TrueCount \in Nat
        BY NumbersAt
      <4>2. ds.class \in Numeric => TrueCount * DtypeSize \in Nat
        BY <4>1, SizeFacts
      <4>3. QED
        BY <4>1, <4>2, DescribedFields
    <3>3. QED
      BY <3>1, <3>2 DEF DescribedTotal, DescribedCharge
  <2>5. QED
    BY <2>3, <2>4 DEF DecodesAsDescribed
<1>4. QED
  BY <1>1, <1>2, <1>3, InductiveExact, PTL DEF Spec

=============================================================================
