----------------------------- MODULE TensorLayout -----------------------------
(***************************************************************************)
(* Tensors as the kernels see them: a buffer, an offset in it, a shape and *)
(* strides, all counted in elements.  The operators follow src/tensor.cc   *)
(* and the index helper that the CPU and CUDA kernels share; `Cell' is the *)
(* reference they are judged by, the element an index means.               *)
(***************************************************************************)
EXTENDS Integers, Sequences, FiniteSets, SequencesExt

\* A dense tensor and one with explicit strides.  `base' is the data pointer.
Strided(buffer, dtype, shape, strides) ==
    [buffer |-> buffer, base |-> 0, dtype |-> dtype,
     shape |-> shape, strides |-> strides]

NDim(t) == Len(t.shape)

\* Negative positions count from the end (GetEffectiveIndex).
Size(t, i) == t.shape[IF i < 0 THEN NDim(t) + i + 1 ELSE i + 1]
Stride(t, i) == t.strides[IF i < 0 THEN NDim(t) + i + 1 ELSE i + 1]

Product(sizes) == FoldLeft(LAMBDA a, b : a * b, 1, sizes)

Numel(t) == Product(t.shape)

\* Row-major strides.
DefaultStrides(shape) ==
    [i \in DOMAIN shape |-> Product(SubSeq(shape, i + 1, Len(shape)))]

Dense(buffer, dtype, shape) ==
    Strided(buffer, dtype, shape, DefaultStrides(shape))

-------------------------------------------------------------------------------
\* Whether stepping through the dimensions in row-major order is stepping
\* through memory with the last stride.
IsMergeable(t) ==
    \A i \in 1..(NDim(t) - 1) :
        /\ ~(t.shape[i] = 1 /\ t.strides[i] = 0)
        /\ t.strides[i] = t.shape[i + 1] * t.strides[i + 1]

IsContiguous(t) == NDim(t) = 0 \/ (IsMergeable(t) /\ Stride(t, -1) = 1)

\* The predicate of the any_of shares one counter `i' over the dimensions and
\* advances it only when shape_[i] differs from 1: `at[n]' is the counter
\* before the n-th call.
HasBroadcastDim(t) ==
    LET at[n \in 1..NDim(t)] ==
            IF n = 1 THEN 1
            ELSE IF t.shape[at[n - 1]] = 1 THEN at[n - 1] ELSE at[n - 1] + 1
    IN  \E n \in 1..NDim(t) : t.shape[at[n]] # 1 /\ t.strides[at[n]] = 0

\* The offset of the element with row-major position `flat', peeling one
\* dimension at a time from the last.
IndexToOffset(flat, shape, strides) ==
    FoldRight(LAMBDA i, s : [rest   |-> s.rest \div shape[i],
                             offset |-> s.offset
                                        + (s.rest % shape[i]) * strides[i]],
              [i \in DOMAIN shape |-> i],
              [rest |-> flat, offset |-> 0]).offset

-------------------------------------------------------------------------------
\* Reference: the element of t at index ix (one entry per dimension, from 0).
At(t, offset) == <<t.buffer, t.base + offset>>

Cell(t, ix) ==
    At(t, FoldLeft(LAMBDA s, d : s + ix[d] * t.strides[d], 0,
                   [d \in DOMAIN t.shape |-> d]))

\* The indices of a shape; d ranges over at most four dimensions.
Indices(shape) ==
    {ix \in [DOMAIN shape -> 0..(Product(shape) - 1)] :
        \A d \in DOMAIN shape : ix[d] < shape[d]}

Cells(t) == {Cell(t, ix) : ix \in Indices(t.shape)}

\* ix with the entry of dimension d (negative from the end) replaced by j.
With(ix, d, j) == [ix EXCEPT ![Len(ix) + d + 1] = j]

-------------------------------------------------------------------------------
(* What the kernels take for granted of their operands.                    *)

\* As many strides as sizes, and none of the sizes is zero.
WellFormed(t) ==
    /\ t.shape \in Seq(Nat \ {0}) /\ t.strides \in Seq(Int)
    /\ Len(t.strides) = Len(t.shape) /\ t.base \in Int

\* No two indices mean the same element.
DistinctElements(t) ==
    \A x, y \in Indices(t.shape) : Cell(t, x) = Cell(t, y) => x = y

\* Operands of one shape; inputs may be broadcast, by strides of zero.
SameShapes(ins, out) ==
    /\ WellFormed(out)
    /\ \A t \in ins : WellFormed(t) /\ t.shape = out.shape

\* A tensor of rows: two or three dimensions, of which the last is dense.
RowTensor(t, shape) ==
    /\ WellFormed(t) /\ t.shape = shape
    /\ NDim(t) \in {2, 3} /\ Stride(t, -1) = 1

\* A dense vector of n elements.
VectorTensor(t, n) == WellFormed(t) /\ t.shape = <<n>> /\ t.strides[1] = 1

\* A dense tensor that starts at the beginning of its buffer.
DenseTensor(t) == IsContiguous(t) /\ t.base = 0
===============================================================================
