------------------------------ MODULE CpuKernels ------------------------------
(***************************************************************************)
(* The kernels of src/native/cpu: each operator's Compute as the work      *)
(* items of one launch.  Loops under `omp parallel for' give unordered     *)
(* items, all others a serial chain.  A local variable of an iteration is  *)
(* a cell of its own.                                                      *)
(***************************************************************************)
EXTENDS OperatorResults

-------------------------------------------------------------------------------
(* Elementwise: add, mul, swiglu, cast.                                    *)

\* The element iteration i reads or writes (the kernels' get_idx).
Element(t, i) ==
    At(t, IF IsContiguous(t) THEN i ELSE IndexToOffset(i, t.shape, t.strides))

ElementwiseWork(ins, out) ==
    [i \in 0..(Numel(out) - 1) |->
        Step({Element(t, i) : t \in ins}, {Element(out, i)}, {})]

ElementwiseProgram(ins, out, work) ==
    Program(ins, {out}, {}, work, ElementwiseFrom(ins, out))

CpuBinary(l) ==
    ElementwiseProgram({l.input, l.other}, l.out,
                       ElementwiseWork({l.input, l.other}, l.out))

CpuAdd(l) == CpuBinary(l)
CpuMul(l) == CpuBinary(l)
CpuSwiglu(l) == CpuBinary(l)

CpuCast(l) ==
    ElementwiseProgram({l.input}, l.out, ElementwiseWork({l.input}, l.out))

-------------------------------------------------------------------------------
(* Cat: for every outer index, one memcpy per input, in elements of dense  *)
(* tensors.                                                                *)

CpuCat(l) ==
    LET d      == CatDim(l)
        outer  == Product(SubSeq(l.out.shape, 1, d))
        inner  == Product(SubSeq(l.out.shape, d + 2, NDim(l.out)))
        width  == Size(l.out, d)
        InDim(n)  == Size(l.inputs[n], d)
        Before(n) == FoldLeft(LAMBDA s, t : s + Size(t, d), 0,
                              SubSeq(l.inputs, 1, n - 1))
        Slice(o, n) ==
            Copy(l.out, (o * width + Before(n)) * inner,
                 l.inputs[n], o * InDim(n) * inner, InDim(n) * inner)
    IN  Program(Range(l.inputs), {l.out}, {},
                Serial(Loop(outer, LAMBDA o :
                       Loop(Len(l.inputs), LAMBDA n : <<Item(Slice(o, n + 1), {})>>))),
                CatFrom(l))

-------------------------------------------------------------------------------
(* Row reductions: causal_softmax, scaled_softmax, rms_norm.               *)

Local(name, r) == <<name, r>>

\* max, then exp and sum, then divide, from the cells in[j] to out[j].
SoftmaxSteps(r, n, in, out) ==
    <<Then(Range(in), {Local("max", r)})>>
    \o Loop(n, LAMBDA j :
           <<Then({in[j], Local("max", r), Local("sum", r)}, {Local("sum", r)}),
             Then({in[j], Local("max", r)}, {out[j]})>>)
    \o Loop(n, LAMBDA j : <<Then({out[j], Local("sum", r)}, {out[j]})>>)

\* Row i of a sequence of which the last seq positions are queries.
ValidLen(l, i) == TotalSeqLen(l) - SeqLen(l) + i + 1

\* Position j of row [b, i], as the softmax kernels address it.
RowElement(t, b, i, j) ==
    At(t, b * BatchStride(t) + i * Stride(t, -2) + j * Stride(t, -1))

CpuCausalSoftmax(l) ==
    LET Row(b, i) ==
            LET r     == <<b, i>>
                valid == ValidLen(l, i)
            IN  Loop(TotalSeqLen(l) - valid, LAMBDA j :
                     <<Then({}, {RowElement(l.out, b, i, valid + j)})>>)
                \o SoftmaxSteps(r, valid,
                                [j \in 0..(valid - 1) |-> RowElement(l.input, b, i, j)],
                                [j \in 0..(valid - 1) |-> RowElement(l.out, b, i, j)])
        rows == (0..(SoftmaxBatch(l) - 1)) \X (0..(SeqLen(l) - 1))
    IN  Program({l.input}, {l.out}, {"max", "sum"} \X rows,
                Serial(Loop(SoftmaxBatch(l), LAMBDA b :
                       Loop(SeqLen(l), LAMBDA i : Row(b, i)))),
                CausalSoftmaxFrom(l))

CpuScaledSoftmax(l) ==
    LET batch == Size(l.input, 0)
        vocab == Size(l.input, 1)
        Row(t, i) ==
            [j \in 0..(vocab - 1) |-> At(t, i * Stride(t, 0) + j * Stride(t, 1))]
    IN  Program({l.input}, {l.out}, {"max", "sum"} \X (0..(batch - 1)),
                Serial(Loop(batch, LAMBDA i :
                    SoftmaxSteps(i, vocab, Row(l.input, i), Row(l.out, i)))),
                ScaledSoftmaxFrom(l))

\* Element k of row [b, h]; the last dimension is taken to be dense.
NormElement(t, b, h, k) ==
    At(t, b * (IF NDim(t) > 1 THEN Stride(t, 0) ELSE 0)
          + h * Stride(t, IF NDim(t) > 1 THEN 1 ELSE 0) + k)

CpuRmsNorm(l) ==
    LET Row(b, h) ==
            <<Then({NormElement(l.input, b, h, k) : k \in 0..(NormDim(l.out) - 1)},
                   {Local("rms", <<b, h>>)})>>
            \o Loop(NormDim(l.out), LAMBDA k :
                   <<Then({NormElement(l.input, b, h, k), At(l.weight, k),
                           Local("rms", <<b, h>>)},
                          {NormElement(l.out, b, h, k)})>>)
        rows == (0..(NormBatch(l.out) - 1)) \X (0..(NormHeads(l.out) - 1))
    IN  Program({l.input, l.weight}, {l.out}, {"rms"} \X rows,
                Serial(Loop(NormBatch(l.out), LAMBDA b :
                       Loop(NormHeads(l.out), LAMBDA h : Row(b, h)))),
                RmsNormFrom(l))

-------------------------------------------------------------------------------
(* Matrix products: gemm, linear.                                          *)

\* The element in row i, column j of batch n, by the last three strides,
\* swapped under a transpose flag.
FactorElement(t, trans, n, i, j) ==
    At(t, n * BatchStride(t)
          + i * Stride(t, IF trans THEN -1 ELSE -2)
          + j * Stride(t, IF trans THEN -2 ELSE -1))

\* Serial loops over batches, rows and columns; addends[j] is read besides the
\* factors for column j, and so is the output if it is accumulated.
ProductSteps(l, out, batches, m, n, k, addends, accumulates) ==
    Serial(Loop(batches, LAMBDA b : Loop(m, LAMBDA i : Loop(n, LAMBDA j :
        <<Then((UNION {{FactorElement(l.a, l.trans_a, b, i, x),
                        FactorElement(l.b, l.trans_b, b, x, j)} : x \in 0..(k - 1)})
               \cup addends[j]
               \cup (IF accumulates THEN {FactorElement(out, FALSE, b, i, j)} ELSE {}),
               {FactorElement(out, FALSE, b, i, j)})>>))))

GemmInputs(l) == {l.a, l.b} \cup (IF l.beta = 0 THEN {} ELSE {l.c})

CpuGemm(l) ==
    Program(GemmInputs(l), {l.c}, {},
            ProductSteps(l, l.c, GemmBatch(l), GemmM(l), GemmN(l), GemmK(l),
                         [j \in 0..(GemmN(l) - 1) |-> {}], l.beta # 0),
            GemmFrom(l))

\* The batch dimensions are flattened and stepped with the last batch stride.
CpuLinear(l) ==
    LET batches == Product(SubSeq(l.out.shape, 1, NDim(l.out) - 2))
    IN  Program({l.a, l.b} \cup Range(l.bias), {l.out}, {},
                ProductSteps(l, l.out, batches, Size(l.out, -2), Size(l.out, -1),
                             Size(l.a, IF l.trans_a THEN -2 ELSE -1),
                             [j \in 0..(Size(l.out, -1) - 1) |->
                                 {At(t, j * Stride(t, -1)) : t \in Range(l.bias)}],
                             FALSE),
                LinearFrom(l))

-------------------------------------------------------------------------------
(* TopKTopPSampler.  weight[row][token] stands for exp(logit): the order   *)
(* and the ratios of probabilities are all the code uses.  top_k[row] is   *)
(* the value read from k; top_p[row] = <<n, d>> is the fraction n/d read   *)
(* from p.  An absent k keeps all tokens, an absent p has the value 1.     *)

\* The parameter row reads: one value for all rows, or its own.
ParameterCell(t, row) ==
    At(t, (IF Size(t, 0) = 1 THEN 0 ELSE row) * Stride(t, 0))

\* An out-of-range k keeps the whole vocabulary.
NormalizeTopK(k, vocab) == IF k <= 0 \/ k > vocab THEN vocab ELSE k

\* The shortest prefix of the kept tokens, by falling weight, whose share of
\* their mass reaches p.
ApplyTopP(weights, p) ==
    LET mass(n) == FoldLeft(LAMBDA s, w : s + w, 0, SubSeq(weights, 1, n))
        enough  == {n \in DOMAIN weights :
                       mass(n) * p[2] >= p[1] * mass(Len(weights))}
    IN  IF enough = {} THEN Len(weights) ELSE Min(enough)

\* The tokens SampleRow may draw.  std::sort leaves ties in any order.
SampleRow(weight, k, p) ==
    LET vocab == Len(weight)
        Draws(order) ==
            LET top  == NormalizeTopK(k, vocab)
                keep == IF 0 < p[1] /\ p[1] < p[2]
                        THEN ApplyTopP([n \in 1..top |-> weight[order[n]]], p)
                        ELSE top
            IN  {order[n] : n \in 1..keep}
        orders == {o \in [1..vocab -> 1..vocab] :
                      /\ IsInjective(o)
                      /\ \A n \in 1..(vocab - 1) : weight[o[n]] >= weight[o[n + 1]]}
    IN  UNION {Draws(o) : o \in orders}

CpuSampler(l) ==
    LET batch  == Size(l.logits, 0)
        vocab  == Size(l.logits, 1)
        params == Range(l.k) \cup Range(l.p)
        Sample(r) ==
            [Then({At(l.logits, r * Stride(l.logits, 0) + j * Stride(l.logits, 1))
                      : j \in 0..(vocab - 1)}
                  \cup {ParameterCell(t, r) : t \in params},
                  {At(l.out, r * Stride(l.out, 0))})
             EXCEPT !.yields = {{Token(t)} :
                 t \in SampleRow(l.weight[r + 1], l.top_k[r + 1], l.top_p[r + 1])}]
    IN  [Program({l.logits} \cup params, {l.out}, {},
                 Serial(Loop(batch, LAMBDA r : <<Sample(r)>>)), SampleFrom(l))
         EXCEPT !.allowed = SampleAllowed(l)]

-------------------------------------------------------------------------------
(* The launches the proofs about these kernels speak of.                   *)

\* An output may be an input itself, but not another view of its memory.
InPlaceOrApart(t, out) ==
    t.buffer = out.buffer => t.base = out.base /\ t.strides = out.strides

\* The names of the local variables, which no buffer has.
LocalMemory == {"max", "sum", "rms"}

\* Two or three dimensions, of any strides.
RowsOf(t, shape) == WellFormed(t) /\ t.shape = shape /\ NDim(t) \in {2, 3}

CpuElementwiseLaunch(ins, out) ==
    /\ SameShapes(ins, out) /\ DistinctElements(out)
    /\ \A t \in ins : InPlaceOrApart(t, out)

CpuNormLaunch(l) ==
    /\ RowTensor(l.input, l.out.shape) /\ RowTensor(l.out, l.out.shape)
    /\ DistinctElements(l.out) /\ InPlaceOrApart(l.input, l.out)
    /\ VectorTensor(l.weight, NormDim(l.out)) /\ l.weight.buffer # l.out.buffer
    /\ {l.input.buffer, l.weight.buffer, l.out.buffer} \cap LocalMemory = {}

CpuSoftmaxLaunch(l) ==
    /\ RowsOf(l.input, l.out.shape) /\ RowsOf(l.out, l.out.shape)
    /\ DistinctElements(l.out) /\ InPlaceOrApart(l.input, l.out)
    /\ {l.input.buffer, l.out.buffer} \cap LocalMemory = {}

\* No row of the input repeats an element.
CpuCausalLaunch(l) ==
    CpuSoftmaxLaunch(l) /\ SeqLen(l) <= TotalSeqLen(l) /\ Stride(l.input, -1) # 0

CpuScaledLaunch(l) == CpuSoftmaxLaunch(l) /\ NDim(l.out) = 2
===============================================================================
