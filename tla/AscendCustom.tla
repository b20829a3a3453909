----------------------------- MODULE AscendCustom -----------------------------
(***************************************************************************)
(* The custom AscendC kernels RmsNorm and AddRmsNorm                       *)
(* (src/native/ascend/custom) with their two launchers: the torch          *)
(* extension (op_host) and the operators of the library (kernel_custom.h). *)
(*                                                                         *)
(* Global memory is counted in units of two bytes, the width of half and   *)
(* bfloat16; a float takes two.  On a core, the copies in, the vector unit *)
(* and the copies out run asynchronously.  What orders them is external:   *)
(* DeQue waits for the EnQue of its row, AllocTensor for the FreeTensor of *)
(* the row that had the same buffer of a queue with kBufferNum buffers,    *)
(* and each of the three units is in order.                                *)
(***************************************************************************)
EXTENDS OperatorResults, RowTiling

CONSTANT BlockBytes     \* bytes of a DMA block, 32 in the code

ASSUME BlockBytesAssumption == BlockBytes \in Nat \ {0}

CONSTANT UBBytes        \* bytes of a core's unified buffer

ASSUME UBBytesAssumption == UBBytes \in Nat

kBufferNum == 2

\* enum DataType, as far as the kernels use it, and the sizes in bytes.
DataTypeCode == [float16 |-> 8, bfloat16 |-> 9, float32 |-> 10]
DataTypeSize == [float16 |-> 2, bfloat16 |-> 2, float32 |-> 4]

\* The type the entry points instantiate a kernel for.
KernelType(code) ==
    CASE code = 8 -> "float16"
      [] code = 9 -> "bfloat16"
      [] OTHER    -> "float32"

Width(dtype) == DataTypeSize[dtype] \div 2

\* The units of elements first .. first + n - 1 of a buffer, read as dtype.
Units(buffer, dtype, e) ==
    {<<buffer, e * Width(dtype) + u>> : u \in 0..(Width(dtype) - 1)}

-------------------------------------------------------------------------------
(* One core.  k is what the launch passes: the type, the rows, the padded  *)
(* dimension and the cores.  Slots are the buffers of a queue, reused      *)
(* every kBufferNum rows; elements of a slot are cells of the core's UB.   *)

Slot(queue, c, row, e) == <<queue, <<c, row % kBufferNum, e>>>>
WeightCell(c, e) == <<"weight_buf", <<c, e>>>>

CoreRows(k, c) == 0..(BlockRows(k.rows, k.cores, c) - 1)

\* The position in global memory of element e of the core's row.
RowPosition(k, c, row, e) == (RowOffset(k.rows, k.cores, c) + row) * k.align + e

\* DataCopyPad of a row between a tensor and the slots of a queue, or back.
CopyInFlow(k, c, row, tensor, queue) ==
    [s \in {Slot(queue, c, row, e) : e \in 0..(k.align - 1)} |->
        Units(tensor, k.type, RowPosition(k, c, row, s[2][3]))]

CopyOutFlow(k, c, row, queue, tensor) ==
    LET offset(g) == g[2] \div Width(k.type) - RowPosition(k, c, row, 0)
    IN  [g \in UNION {Units(tensor, k.type, RowPosition(k, c, row, e)) :
                        e \in 0..(k.align - 1)} |->
            {Slot(queue, c, row, offset(g))}]

\* The weight is read as float by every instantiation.
LoadWeightFlow(k, c) ==
    [w \in {WeightCell(c, e) : e \in 0..(k.align - 1)} |->
        Units(k.weight, "float32", w[2][2])]

\* Mutant of Earlier: the first rows wait for rows before them.
EarlierUnbounded(k, c, stage, row) == {<<c, stage, row>>}

\* What each stage of a row waits for.
Earlier(k, c, stage, row) == {<<c, stage, r>> : r \in {row} \cap CoreRows(k, c)}

CopyInAfter(k, c, row) ==
    {<<c, "load", 0>>} \cup Earlier(k, c, "in", row - 1)
    \cup Earlier(k, c, "compute", row - kBufferNum)

\* Mutant of ComputeAfter: the result is put in a buffer still being copied out.
ComputeAfterUnbuffered(k, c, row) ==
    {<<c, "in", row>>} \cup Earlier(k, c, "compute", row - 1)

ComputeAfter(k, c, row) ==
    {<<c, "in", row>>} \cup Earlier(k, c, "compute", row - 1)
    \cup Earlier(k, c, "out", row - kBufferNum)

CopyOutAfter(k, c, row) ==
    {<<c, "compute", row>>} \cup Earlier(k, c, "out", row - 1)

\* KernelRmsNorm: the mean of the squares of the row scales it; then the weight.
RmsNormCompute(k, c, row) ==
    LET elements == 0..(k.align - 1)
    IN  [o \in {Slot("out_queue_out", c, row, e) : e \in elements} |->
            {Slot("in_queue_input", c, row, e) : e \in elements}
            \cup {WeightCell(c, o[2][3])}]

RmsNormStage(k, c, stage, row) ==
    CASE stage = "load" -> Item(LoadWeightFlow(k, c), {})
      [] stage = "in" ->
            Item(CopyInFlow(k, c, row, k.input, "in_queue_input"),
                 CopyInAfter(k, c, row))
      [] stage = "compute" -> Item(RmsNormCompute(k, c, row), ComputeAfter(k, c, row))
      [] stage = "out" ->
            Item(CopyOutFlow(k, c, row, "out_queue_out", k.out),
                 CopyOutAfter(k, c, row))

\* KernelAddRmsNorm: the sum of the two inputs, and its normalisation.
AddRmsNormCompute(k, c, row) ==
    LET elements == 0..(k.align - 1)
        pair(e)  == {Slot("in_queue_input", c, row, e),
                     Slot("in_queue_residual", c, row, e)}
    IN  Both(
         [o \in {Slot("out_queue_out", c, row, e) : e \in elements} |->
            (UNION {pair(e) : e \in elements}) \cup {WeightCell(c, o[2][3])}],
         [o \in {Slot("out_queue_residual_out", c, row, e) : e \in elements} |->
            pair(o[2][3])])

AddRmsNormStage(k, c, stage, row) ==
    CASE stage = "load" -> Item(LoadWeightFlow(k, c), {})
      [] stage = "in" ->
            Item(Both(CopyInFlow(k, c, row, k.input, "in_queue_input"),
                      CopyInFlow(k, c, row, k.residual, "in_queue_residual")),
                 CopyInAfter(k, c, row))
      [] stage = "compute" ->
            Item(AddRmsNormCompute(k, c, row), ComputeAfter(k, c, row))
      [] stage = "out" ->
            Item(Both(CopyOutFlow(k, c, row, "out_queue_out", k.out),
                      CopyOutFlow(k, c, row, "out_queue_residual_out", k.residual_out)),
                 CopyOutAfter(k, c, row))

\* What all cores of a launch do: <<core, stage, row>>.
CoresStages(k) ==
    UNION {{<<c, "load", 0>>}
           \cup {<<c, s, r>> : s \in {"in", "compute", "out"}, r \in CoreRows(k, c)}
           : c \in 0..(UsedCores(k.rows, k.cores) - 1)}

-------------------------------------------------------------------------------
(* The launchers.  l.launcher is "torch" or "infini", l.cores the most     *)
(* cores they use: what the platform reports, or kMaxBlockDim.  Operands   *)
(* are contiguous: torch makes them so, the library takes it for granted.  *)

Rows(l) == Numel(l.input) \div NormDim(l.input)
Align(l) == DimAlign(NormDim(l.input), BlockBytes \div DataTypeSize[l.input.dtype])

\* Mutant of TypeCode: every launcher passes the size of an element.
TypeCodeBySize(l) == DataTypeSize[l.input.dtype]

\* The code passed for the type: the library casts the DataType, the torch
\* launchers pass the size of an element.
TypeCode(l) ==
    IF l.launcher = "infini" THEN DataTypeCode[l.input.dtype]
    ELSE DataTypeSize[l.input.dtype]

TensorUnits(t) == UNION {Units(t.buffer, t.dtype, e) : e \in 0..(Numel(t) - 1)}

\* The kernel's own copy of a tensor, its rows padded (torch).  Rows that need
\* no padding are not copied by the code; a copy of them holds the same.
KernelBuffer(l, t) == IF l.launcher = "torch" THEN "kernel_" \o t.buffer ELSE t.buffer

KernelUnits(l, t) ==
    UNION {Units(KernelBuffer(l, t), t.dtype, e) : e \in 0..(Rows(l) * Align(l) - 1)}

\* Rows to rows of another length, both in units: the source of unit g.
RowUnit(g, length, source, buffer) ==
    IF g % length < source THEN {<<buffer, (g \div length) * source + (g % length)>>}
                           ELSE {}

PadFlow(l, tensors) ==
    LET W == Width(l.input.dtype)
        Pad(t) == [u \in KernelUnits(l, t) |->
            RowUnit(u[2], W * Align(l), W * NormDim(t), t.buffer)]
    IN  FoldSet(LAMBDA t, f : f @@ Pad(t), <<>>, tensors)

NarrowFlow(l, tensors) ==
    LET W == Width(l.input.dtype)
        Narrow(t) == [u \in TensorUnits(t) |->
            RowUnit(u[2], W * NormDim(t), W * Align(l), KernelBuffer(l, t))]
    IN  FoldSet(LAMBDA t, f : f @@ Narrow(t), <<>>, tensors)

\* The weight as float, zero beyond the dimension; float weights of the library
\* are passed as they are.
WeightIsCopied(l) == l.launcher = "torch" \/ l.input.dtype # "float32"

WeightBuffer(l) == IF WeightIsCopied(l) THEN "weight_fp32" ELSE l.weight.buffer

WeightFlow(l) ==
    [u \in UNION {Units("weight_fp32", "float32", e) : e \in 0..(Align(l) - 1)} |->
        IF u[2] \div 2 < NormDim(l.input)
        THEN Units(l.weight.buffer, l.weight.dtype, u[2] \div 2) ELSE {}]

RmsNormArguments(l) ==
    [type |-> KernelType(TypeCode(l)), rows |-> Rows(l), align |-> Align(l),
     cores |-> l.cores, weight |-> WeightBuffer(l),
     input |-> KernelBuffer(l, l.input), out |-> KernelBuffer(l, l.out)]

AddRmsNormArguments(l) ==
    [type |-> KernelType(TypeCode(l)), rows |-> Rows(l), align |-> Align(l),
     cores |-> l.cores, weight |-> WeightBuffer(l),
     input |-> KernelBuffer(l, l.input), residual |-> KernelBuffer(l, l.residual),
     out |-> KernelBuffer(l, l.out), residual_out |-> KernelBuffer(l, l.residual_out)]

\* What a launcher puts on the stream: its copies, the kernel, the copies back.
LauncherProgram(l, ins, outs, queues, cores, from) ==
    LET before == {<<-1, s, 0>> : s \in (IF l.launcher = "torch" THEN {"pad"} ELSE {})
                                     \cup (IF WeightIsCopied(l) THEN {"weight"} ELSE {})}
        after  == {<<-1, s, 0>> : s \in IF l.launcher = "torch" THEN {"narrow"} ELSE {}}
        work == [i \in before \cup DOMAIN cores \cup after |->
            CASE i[2] = "pad"    -> Item(PadFlow(l, ins), {})
              [] i[2] = "weight" -> Item(WeightFlow(l), {})
              [] i[2] = "narrow" -> Item(NarrowFlow(l, outs), DOMAIN cores)
              [] OTHER           -> [cores[i] EXCEPT !.after = @ \cup before]]
        ub == {Slot(q, c, r, e) : q \in queues, c \in 0..(l.cores - 1),
                                  r \in 0..(kBufferNum - 1), e \in 0..(Align(l) - 1)}
              \cup {WeightCell(c, e) : c \in 0..(l.cores - 1), e \in 0..(Align(l) - 1)}
        unitsOf(S) == UNION {Units(x[1], l.input.dtype, x[2]) : x \in S}
        required == [u \in unitsOf(DOMAIN from) |->
            unitsOf(from[<<u[1], u[2] \div Width(l.input.dtype)>>])]
    IN  [alloc    |-> (UNION {TensorUnits(t) \cup KernelUnits(l, t) : t \in ins \cup outs})
                      \cup TensorUnits(l.weight) \cup DOMAIN WeightFlow(l) \cup ub,
         inputs   |-> UNION {TensorUnits(t) : t \in ins \cup {l.weight}},
         work     |-> work,
         required |-> required,
         allowed  |-> required]

AscendRmsNorm(l) ==
    LET k == RmsNormArguments(l)
        work == [id \in CoresStages(k) |-> RmsNormStage(k, id[1], id[2], id[3])]
    IN  LauncherProgram(l, {l.input}, {l.out}, {"in_queue_input", "out_queue_out"},
                        work, RmsNormFrom(l))

AscendAddRmsNorm(l) ==
    LET k == AddRmsNormArguments(l)
        work == [id \in CoresStages(k) |-> AddRmsNormStage(k, id[1], id[2], id[3])]
    IN  LauncherProgram(l, {l.input, l.residual}, {l.out, l.residual_out},
                        {"in_queue_input", "in_queue_residual", "out_queue_out",
                         "out_queue_residual_out"},
                        work, AddRmsNormFrom(l))

-------------------------------------------------------------------------------
\* What the launchers reject.  Only the torch ones know how large the UB is.
TorchAccepts(l) ==
    /\ Numel(l.input) > 0
    /\ l.input.dtype \in {"float16", "float32"}
    /\ l.weight.shape = <<NormDim(l.input)>>
    /\ l.op = "add_rms_norm" => /\ l.residual.dtype = l.input.dtype
                                /\ l.residual.shape = l.input.shape
    /\ IF l.op = "rms_norm" THEN RmsNormFits(Align(l), UBBytes)
       ELSE AddRmsNormFits(Align(l), DataTypeSize[l.input.dtype], UBBytes)

InfiniAccepts(l) ==
    /\ l.input.dtype \in DOMAIN DataTypeCode
    /\ NormDim(l.input) = Align(l)
    /\ Accepts(l)

LauncherAccepts(l) == IF l.launcher = "torch" THEN TorchAccepts(l) ELSE InfiniAccepts(l)

-------------------------------------------------------------------------------
(* What the operators of kernel_custom.h are launched with: tensors of one *)
(* type that are not on the chip, outputs that are not the weight, a       *)
(* weight as long as a row.  A row needs no padding, or InfiniAccepts      *)
(* refuses it; there is at least one row.                                  *)
OnChip == {"in_queue_input", "in_queue_residual", "out_queue_out",
           "out_queue_residual_out", "weight_buf", "weight_fp32"}

LibraryLaunch(l, ins, outs) ==
    /\ l.launcher = "infini" /\ l.input.dtype \in DOMAIN DataTypeCode
    /\ Rows(l) \in Nat \ {0} /\ Align(l) \in Nat /\ l.cores \in Nat \ {0}
    /\ \A t \in ins \cup outs \cup {l.weight} :
          t.dtype = l.input.dtype /\ t.buffer \notin OnChip
    /\ \A t \in outs : t.buffer # l.weight.buffer
    /\ Align(l) = NormDim(l.input) /\ Numel(l.weight) = NormDim(l.input)

CustomNormLaunch(l) ==
    \/ l.op = "rms_norm" /\ LibraryLaunch(l, {l.input}, {l.out})
    \/ /\ l.op = "add_rms_norm"
       /\ LibraryLaunch(l, {l.input, l.residual}, {l.out, l.residual_out})

CustomNorm(l) == IF l.op = "rms_norm" THEN AscendRmsNorm(l) ELSE AscendAddRmsNorm(l)

(* Their operands: dense rows of one shape, and a weight of such a row.    *)
DenseRowOperands(l, tensors) ==
    /\ \A t \in tensors : RowTensor(t, l.out.shape) /\ DenseTensor(t)
    /\ VectorTensor(l.weight, NormDim(l.out)) /\ l.weight.base = 0

CustomNormOperands(l) ==
    IF l.op = "rms_norm" THEN DenseRowOperands(l, {l.input, l.out})
    ELSE /\ DenseRowOperands(l, {l.input, l.residual, l.out, l.residual_out})
         /\ l.out.buffer # l.residual_out.buffer
===============================================================================
