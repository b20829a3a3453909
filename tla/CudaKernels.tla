------------------------------ MODULE CudaKernels ------------------------------
(***************************************************************************)
(* The kernels of src/native/cuda, which the NVIDIA, Iluvatar, MetaX and   *)
(* Moore backends share.  A work item is what one thread does between two  *)
(* barriers, identified by its block, a phase and the thread or column.    *)
(* __syncthreads makes the items of a phase wait for all items of the      *)
(* phases before it in their block; blocks are not ordered.                *)
(*                                                                         *)
(* cub::BlockReduce and the BLAS library are external: the first combines  *)
(* the values of all threads of a block for thread 0, the second computes  *)
(* C = op(A) op(B) + beta C on column-major matrices.                      *)
(***************************************************************************)
EXTENDS CpuKernels

CONSTANT UIntRange      \* unsigned int arithmetic is modulo this, 2^32 in the code

ASSUME UIntRangeAssumption == UIntRange \in Nat \ {0}

CeilDiv(x, y) == (x + y - 1) \div y

-------------------------------------------------------------------------------
(* Elementwise: add, swiglu.  The constructor packs shapes, then strides,  *)
(* into one device buffer, from which the kernel reads them back.          *)

Metadata(l) ==
    LET entry(s) == SubSeq(s, 1, NDim(l.out))
    IN  entry(l.input.shape) \o entry(l.other.shape) \o entry(l.out.shape)
        \o entry(l.input.strides) \o entry(l.other.strides) \o entry(l.out.strides)

\* The n-th array in the buffer.
MetadataEntry(l, n) ==
    SubSeq(Metadata(l), n * NDim(l.out) + 1, (n + 1) * NDim(l.out))

\* Threads per block and blocks for n elements.
BlockDim(n, block) == IF block < n THEN block ELSE n

\* Mutant of GridDim: no block for the elements that fill none.
GridDimTruncated(n, block) == n \div BlockDim(n, block)

GridDim(n, block) == CeilDiv(n, BlockDim(n, block))

\* The element a thread takes.
ThreadIndex(b, t, blockDim) == (b * blockDim + t) % UIntRange

CudaElement(l, t, n, i) ==
    At(t, IF IsContiguous(t) THEN i
          ELSE IndexToOffset(i, MetadataEntry(l, n), MetadataEntry(l, n + 3)))

CudaElementwise(l) ==
    LET n   == Numel(l.out)
        dim == BlockDim(n, l.block)
        Thread(b, t) ==
            LET i == ThreadIndex(b, t, dim)
            IN  IF i < n THEN Step({CudaElement(l, l.input, 0, i),
                                    CudaElement(l, l.other, 1, i)},
                                   {CudaElement(l, l.out, 2, i)}, {})
                         ELSE Step({}, {}, {})
    IN  ElementwiseProgram({l.input, l.other}, l.out,
            [bt \in (0..(GridDim(n, l.block) - 1)) \X (0..(dim - 1)) |->
                Thread(bt[1], bt[2])])

CudaAdd(l) == CudaElementwise(l)
CudaSwiglu(l) == CudaElementwise(l)

-------------------------------------------------------------------------------
(* Row reductions, one block per row.                                      *)

\* The columns thread t of a block visits.
ThreadColumns(t, n, block) == {c \in 0..(n - 1) : c % block = t}

\* Mutant of Phases: no barriers, a thread only follows its own items.
PhasesUnsynced(r, block, phases) ==
    LET Own(p, t) == {<<r, p, k>> : k \in {m \in DOMAIN phases[p] : m % block = t}}
    IN  [id \in UNION {{<<r, p, k>> : k \in DOMAIN phases[p]} : p \in DOMAIN phases} |->
            [phases[id[2]][id[3]] EXCEPT !.after =
                {<<r, id[2], k>> : k \in {id[3] - block} \cap DOMAIN phases[id[2]]}
                \cup (IF id[2] = 1 THEN {} ELSE Own(id[2] - 1, id[3] % block))]]

\* Items of block r: <<r, phase, k>>.  A phase gives its items' steps; a
\* barrier stands between the phases.  Within a phase, items with the same
\* k modulo the block size belong to one thread and follow each other.
Phases(r, block, phases) ==
    LET Ids(p) == {<<r, p, k>> : k \in DOMAIN phases[p]}
        all    == UNION {Ids(p) : p \in DOMAIN phases}
    IN  [id \in all |->
            [phases[id[2]][id[3]] EXCEPT !.after =
                (IF id[2] = 1 THEN {} ELSE Ids(id[2] - 1))
                \cup {<<r, id[2], k>> : k \in {id[3] - block} \cap DOMAIN phases[id[2]]}]]

\* BlockMax, BlockSum and SumSquared: each thread reduces its columns of the
\* n cells row[c], then thread 0 combines the partial results into a shared
\* variable.
PartialResults(r, n, block, name, row, more) ==
    [t \in 0..(block - 1) |->
        Then({row[c] : c \in ThreadColumns(t, n, block)} \cup more,
             {<<name, <<r, t>>>>})]

Combine(r, block, name, result) ==
    [t \in {0} |-> Then({<<name, <<r, u>>>> : u \in 0..(block - 1)},
                        {Local(result, r)})]

Partials(names, rows, block) == names \X (rows \X (0..(block - 1)))

\* All blocks of a launch: the items of block r are those of work[r].
Blocks(work) == [id \in UNION {DOMAIN work[r] : r \in DOMAIN work} |-> work[id[1]][id]]

\* Rows of the softmax kernel are addressed with a dense last dimension.
CudaRowElement(t, b, i, j) == At(t, b * BatchStride(t) + i * Stride(t, -2) + j)

\* The row of tensor t that block r = <<row, batch>> works on.
SoftmaxRow(l, t, r) ==
    [j \in 0..(TotalSeqLen(l) - 1) |-> CudaRowElement(t, r[2], r[1], j)]

\* Maximum of the valid columns, exponentials and zeros, their sum, division.
SoftmaxPhases(l, r) ==
    LET total == TotalSeqLen(l)
        valid == ValidLen(l, r[1])
        in    == SoftmaxRow(l, l.input, r)
        out   == SoftmaxRow(l, l.out, r)
    IN  <<PartialResults(r, valid, l.block, "pmax", in, {in[0]}),
          Combine(r, l.block, "pmax", "max"),
          [j \in 0..(total - 1) |->
              IF j < valid THEN Then({in[j], Local("max", r)}, {out[j]})
                           ELSE Then({}, {out[j]})],
          PartialResults(r, total, l.block, "psum", out, {}),
          Combine(r, l.block, "psum", "sum"),
          [j \in 0..(total - 1) |-> Then({out[j], Local("sum", r)}, {out[j]})]>>

SoftmaxGrid(l) == (0..(SeqLen(l) - 1)) \X (0..(SoftmaxBatch(l) - 1))

\* Masked elements are 0 / sum: zero, though computed from the sum.
SoftmaxAllowed(l) == Elementwise(l.out, LAMBDA ix : CausalView(l, ix))

CudaCausalSoftmax(l) ==
    LET grid == SoftmaxGrid(l)
    IN  [Program({l.input}, {l.out},
                 ({"max", "sum"} \X grid) \cup Partials({"pmax", "psum"}, grid, l.block),
                 Blocks([r \in grid |-> Phases(r, l.block, SoftmaxPhases(l, r))]),
                 CausalSoftmaxFrom(l))
         EXCEPT !.allowed = SoftmaxAllowed(l)]

NormGrid(l) == 0..(NormBatch(l.out) * NormHeads(l.out) - 1)

\* Block r normalises row <<r \div nhead, r % nhead>>.
NormRow(l, t, r) ==
    LET heads == NormHeads(l.out)
    IN  [k \in 0..(NormDim(l.out) - 1) |-> NormElement(t, r \div heads, r % heads, k)]

RmsNormPhases(l, r) ==
    LET dim == NormDim(l.out)
        x   == NormRow(l, l.input, r)
    IN  <<PartialResults(r, dim, l.block, "pss", x, {}),
          Combine(r, l.block, "pss", "rms"),
          [k \in 0..(dim - 1) |->
              Then({x[k], At(l.weight, k), Local("rms", r)}, {NormRow(l, l.out, r)[k]})]>>

CudaRmsNorm(l) ==
    Program({l.input, l.weight}, {l.out},
            ({"rms"} \X NormGrid(l)) \cup Partials({"pss"}, NormGrid(l), l.block),
            Blocks([r \in NormGrid(l) |-> Phases(r, l.block, RmsNormPhases(l, r))]),
            RmsNormFrom(l))

-------------------------------------------------------------------------------
(* Gemm through BLAS, which sees column-major matrices.                    *)

\* op(X)[row, col] of a column-major matrix with leading dimension ld.
BlasElement(t, transposed, ld, batchStride, n, row, col) ==
    At(t, n * batchStride + (IF transposed THEN col + row * ld ELSE row + col * ld))

IsColMajor(t) == Stride(t, -1) = 1

SwapAAndB(l) == IsColMajor(l.c)

\* Whether BLAS transposes its first and its second operand.
OpA(l) == IF SwapAAndB(l) THEN IsColMajor(l.b) = l.trans_b
                          ELSE IsColMajor(l.a) # l.trans_a
OpB(l) == IF SwapAAndB(l) THEN IsColMajor(l.a) = l.trans_a
                          ELSE IsColMajor(l.b) # l.trans_b

\* A row-major result is computed as its transpose, from swapped operands.
BlasGemm(l) ==
    LET swap   == SwapAAndB(l)
        first  == IF swap THEN l.b ELSE l.a
        second == IF swap THEN l.a ELSE l.b
        m      == IF swap THEN GemmN(l) ELSE GemmM(l)
        n      == IF swap THEN GemmM(l) ELSE GemmN(l)
        Out(b, i, j) == BlasElement(l.c, FALSE, LeadingDim(l.c), BatchStride(l.c), b, i, j)
        Entry(b, i, j) ==
            Step((UNION {{BlasElement(first, OpA(l), LeadingDim(first),
                                      BatchStride(first), b, i, x),
                          BlasElement(second, OpB(l), LeadingDim(second),
                                      BatchStride(second), b, x, j)}
                         : x \in 0..(GemmK(l) - 1)})
                 \cup (IF l.beta = 0 THEN {} ELSE {Out(b, i, j)}),
                 {Out(b, i, j)}, {})
    IN  Program(GemmInputs(l), {l.c}, {},
                [id \in (0..(GemmBatch(l) - 1)) \X (0..(m - 1)) \X (0..(n - 1)) |->
                    Entry(id[1], id[2], id[3])],
                GemmFrom(l))

-------------------------------------------------------------------------------
(* What the launchers pass: outputs that are no inputs (__restrict__) and  *)
(* whose elements do not overlap, tensors that are not in shared memory,   *)
(* and, of the unsigned indices of the threads, none that wraps around.    *)
SharedMemory == {"pmax", "max", "psum", "sum", "pss", "rms"}

CudaElementwiseLaunch(l) ==
    LET n == Numel(l.out)
    IN  /\ l.op \in {"add", "swiglu"}
        /\ l.block \in Nat \ {0} /\ GridDim(n, l.block) * BlockDim(n, l.block) <= UIntRange
        /\ SameShapes({l.input, l.other}, l.out) /\ DistinctElements(l.out)
        /\ l.out.buffer \notin {l.input.buffer, l.other.buffer}

CudaRowLaunch(l) ==
    /\ l.block \in Nat \ {0}
    /\ RowTensor(l.input, l.out.shape) /\ RowTensor(l.out, l.out.shape)
    /\ DistinctElements(l.out)
    /\ l.out.buffer # l.input.buffer
    /\ {l.input.buffer, l.out.buffer} \cap SharedMemory = {}

CudaNormLaunch(l) ==
    /\ l.op = "rms_norm" /\ CudaRowLaunch(l)
    /\ VectorTensor(l.weight, NormDim(l.out))
    /\ l.weight.buffer \notin SharedMemory \cup {l.out.buffer}

\* The queries are the last of the keys.
CudaSoftmaxLaunch(l) ==
    l.op = "causal_softmax" /\ CudaRowLaunch(l) /\ SeqLen(l) <= TotalSeqLen(l)
===============================================================================
