----------------------------- MODULE BaseOperators -----------------------------
(***************************************************************************)
(* The constructors of src/base: which operands each operator accepts (its *)
(* asserts, which debug builds check) and the attributes it derives from   *)
(* them for the kernels.  An operator keeps them from its construction on; *)
(* what reuses one is in OperatorCache.                                    *)
(*                                                                         *)
(* A launch is a record: op names the operator, the other fields are its   *)
(* operands.  An optional operand is a sequence of length 0 or 1.          *)
(***************************************************************************)
EXTENDS KernelProgram

FloatTypes == {"float16", "bfloat16", "float32", "float64"}

-------------------------------------------------------------------------------
AddAccepts(l) ==
    /\ ~HasBroadcastDim(l.out)
    /\ l.input.dtype = l.other.dtype /\ l.other.dtype = l.out.dtype

MulAccepts(l) ==
    /\ ~HasBroadcastDim(l.out)
    /\ l.input.dtype = l.other.dtype /\ l.other.dtype = l.out.dtype

SwigluAccepts(l) == l.input.dtype = l.other.dtype /\ l.other.dtype = l.out.dtype

CastAccepts(l) == Numel(l.input) = Numel(l.out)

CatDim(l) == IF l.dim < 0 THEN l.dim + NDim(l.out) ELSE l.dim

CatAccepts(l) ==
    LET d     == CatDim(l)
        first == l.inputs[1]
    IN  /\ Len(l.inputs) >= 2
        /\ d >= 0 /\ d < NDim(l.out)
        /\ \A n \in DOMAIN l.inputs :
              /\ NDim(l.inputs[n]) = NDim(l.out)
              /\ l.inputs[n].dtype = l.out.dtype
              /\ \A i \in 0..(NDim(l.out) - 1) \ {d} :
                    Size(l.inputs[n], i) = Size(first, i)
        /\ l.out.shape = [first.shape EXCEPT ![d + 1] =
              FoldLeft(LAMBDA s, t : s + Size(t, d), 0, l.inputs)]

-------------------------------------------------------------------------------
SoftmaxBatch(l) == IF NDim(l.out) = 2 THEN 1 ELSE Size(l.out, -3)
SeqLen(l) == Size(l.out, -2)
TotalSeqLen(l) == Size(l.out, -1)

CausalSoftmaxAccepts(l) ==
    /\ l.input.shape = l.out.shape
    /\ l.input.dtype = l.out.dtype
    /\ NDim(l.out) \in {2, 3}
    /\ SeqLen(l) <= TotalSeqLen(l)

ScaledSoftmaxAccepts(l) ==
    /\ NDim(l.input) = 2
    /\ l.input.shape = l.out.shape
    /\ l.input.dtype = l.out.dtype
    /\ l.input.dtype \in FloatTypes

\* RmsNorm and AddRmsNorm normalise the rows [batch, head] of t over the last
\* dimension.
NormDim(t) == Size(t, -1)
NormBatch(t) == IF NDim(t) = 2 THEN Size(t, -2) ELSE Size(t, -3)
NormHeads(t) == IF NDim(t) = 2 THEN 1 ELSE Size(t, -2)

RmsNormAccepts(l) == l.input.dtype = l.out.dtype

AddRmsNormAccepts(l) ==
    /\ l.input.dtype = l.residual.dtype
    /\ l.input.dtype = l.out.dtype
    /\ l.input.dtype = l.residual_out.dtype

-------------------------------------------------------------------------------
\* Rows of the first factor, columns of the second, the inner dimension, and
\* the leading dimension handed to BLAS.
GemmM(l) == Size(l.c, -2)
GemmN(l) == Size(l.c, -1)
GemmK(l) == IF l.trans_a THEN Size(l.a, -2) ELSE Size(l.a, -1)
LeadingDim(t) == IF Stride(t, -2) > Stride(t, -1) THEN Stride(t, -2)
                                                  ELSE Stride(t, -1)
GemmBatch(l) == IF NDim(l.c) > 2 THEN Size(l.c, -3) ELSE 1
BatchStride(t) == IF NDim(t) > 2 THEN Stride(t, -3) ELSE 0

LinearAccepts(l) ==
    LET a_rows == Size(l.a, IF l.trans_a THEN -1 ELSE -2)
        a_cols == Size(l.a, IF l.trans_a THEN -2 ELSE -1)
        b_rows == Size(l.b, IF l.trans_b THEN -1 ELSE -2)
        b_cols == Size(l.b, IF l.trans_b THEN -2 ELSE -1)
    IN  /\ l.a.dtype = l.b.dtype /\ l.a.dtype = l.out.dtype
        /\ a_cols = b_rows
        /\ Size(l.out, -2) = a_rows /\ Size(l.out, -1) = b_cols
        /\ \A n \in DOMAIN l.bias :
              /\ l.bias[n].dtype = l.out.dtype
              /\ l.bias[n].shape = <<Size(l.out, -1)>>

\* One value for all rows, or one per row.
PerRow(t, batch) == NDim(t) = 1 /\ Size(t, 0) \in {1, batch}

SamplerAccepts(l) ==
    /\ NDim(l.logits) = 2
    /\ l.logits.dtype \in FloatTypes
    /\ l.out.shape = <<Size(l.logits, 0)>>
    /\ l.out.dtype = "int32"
    /\ \A n \in DOMAIN l.k : /\ PerRow(l.k[n], Size(l.logits, 0))
                             /\ l.k[n].dtype \in {"int32", "int64"}
    /\ \A n \in DOMAIN l.p : /\ PerRow(l.p[n], Size(l.logits, 0))
                             /\ l.p[n].dtype \in FloatTypes

Accepts(l) ==
    CASE l.op = "add"            -> AddAccepts(l)
      [] l.op = "mul"            -> MulAccepts(l)
      [] l.op = "swiglu"         -> SwigluAccepts(l)
      [] l.op = "cast"           -> CastAccepts(l)
      [] l.op = "cat"            -> CatAccepts(l)
      [] l.op = "causal_softmax" -> CausalSoftmaxAccepts(l)
      [] l.op = "scaled_softmax" -> ScaledSoftmaxAccepts(l)
      [] l.op = "rms_norm"       -> RmsNormAccepts(l)
      [] l.op = "add_rms_norm"   -> AddRmsNormAccepts(l)
      [] l.op = "linear"         -> LinearAccepts(l)
      [] l.op = "sampler"        -> SamplerAccepts(l)
      [] OTHER                   -> TRUE   \* Gemm asserts nothing.
===============================================================================
