-------------------------- MODULE MCDatasetDecoder --------------------------
(***************************************************************************)
(* Datasets of up to three axes on a small machine: usize::MAX is 127 and  *)
(* isize::MAX 63, so that products, sums and single buffers pass their     *)
(* bounds one by one.  A vector of pairs starts with room for four, as in  *)
(* the library, doubles for five, and panics for nine.                     *)
(***************************************************************************)
EXTENDS DatasetContract, SequencesExt

MCElementSize ==
  [f32 |-> 1, f64 |-> 2, int |-> 2, u64 |-> 2, bool |-> 1, vlen |-> 1]

MCCaps == {2, 4}

(* 32 squared passes usize, 32 headers pass isize, 128 fits no usize.       *)
MCExtents == {0, 1, 2, 5, 9, 32, 128}

Shapes == BoundedSeq({0, 2, 32, 128}, 3) \cup BoundedSeq(MCExtents, 2)

Dataset(shape, class, width, heap, values) ==
  [null |-> FALSE, extents |-> shape, class |-> class, width |-> width, heap |-> heap,
   values |-> values]

NullSpace(class) == [Dataset(<<>>, class, 2, 0, "fine") EXCEPT !.null = TRUE]

NumberDatasets ==
  {Dataset(s, c, 0, 0, "fine") : s \in Shapes, c \in Numeric \cup {"opaque"}}
    \cup {Dataset(s, c, 0, 0, v) : s \in {<<>>, <<2>>, <<9>>}, c \in {"int"}, v \in {"negative"}}
    \cup {Dataset(s, "u64", 0, 0, "big") : s \in {<<>>, <<2>>, <<5>>}}
    \cup {NullSpace(c) : c \in Numeric}

(* The file itself is three bytes long; no elements have no heap.           *)
StringDatasets ==
  {Dataset(s, "fixed", w, 0, "fine") : s \in Shapes, w \in {1, 3, 5}}
    \cup {Dataset(s, "vlen", 0, 0, "fine") : s \in Shapes \ {<<>>}}
    \cup {Dataset(s, "vlen", 0, h, "fine") :
            s \in {t \in Shapes \ {<<>>} : 0 \notin Range(t)}, h \in {10, 70, 130}}
    \cup {Dataset(<<>>, "vlen", 0, 2, "fine")}
    \cup {NullSpace(c) : c \in Textual}

MCDatasets == NumberDatasets \cup StringDatasets

Call(want, limit, start, edgeLimit, counted) ==
  [want |-> want, limit |-> limit, start |-> start, edgeLimit |-> edgeLimit, edges |-> counted]

MCCalls ==
  {Call(w, l, 0, NoLimit, 0) : w \in Wants, l \in {NoLimit, 48, 127}}
    \cup {Call(w, 127, 37, NoLimit, 0) : w \in Wants}
    \cup {Call("edges", l, 0, e, 1) : l \in {NoLimit, 127}, e \in {1, 3, 6}}

=============================================================================
