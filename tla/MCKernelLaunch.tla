---------------------------- MODULE MCKernelLaunch ----------------------------
(***************************************************************************)
(* Launches for TLC: small shapes and layouts that make every case of the  *)
(* kernels happen.  Candidates the operators' constructors reject are      *)
(* filtered out, as their asserts do.                                      *)
(***************************************************************************)
EXTENDS KernelLaunch, CudaKernels, AscendCustom, TLC

F(buffer, shape) == Dense(buffer, "float32", shape)
S(buffer, shape, strides) == Strided(buffer, "float32", shape, strides)

\* 2 x 2 and 2 x 3 tensors: dense, transposed, with padded rows, one row
\* broadcast, and a slice of size one with a foreign stride.
Layouts22(b) == {F(b, <<2, 2>>), S(b, <<2, 2>>, <<1, 2>>), S(b, <<2, 2>>, <<3, 1>>)}
Layouts12(b) == {F(b, <<1, 2>>), S(b, <<1, 2>>, <<5, 1>>), S(b, <<1, 2>>, <<0, 1>>)}
Broadcast22(b) == S(b, <<2, 2>>, <<0, 1>>)

Binary(op, in, other, out) ==
    [op |-> op, input |-> in, other |-> other, out |-> out]

ElementwiseLaunches(ops) ==
    {Binary(op, x, y, z) : op \in ops, x \in Layouts22("x") \cup {Broadcast22("x")},
                           y \in Layouts22("y"), z \in Layouts22("z")}
    \cup {Binary(op, x, F("y", <<1, 2>>), z) : op \in ops,
                           x \in Layouts12("x"), z \in Layouts12("z")}
    \cup {Binary(op, F("z", <<2, 2>>), y, F("z", <<2, 2>>)) : op \in ops,
                           y \in Layouts22("y")}
    \cup {Binary(op, F("x", <<2, 1, 2>>), S("y", <<2, 1, 2>>, <<1, 0, 2>>),
                 S("z", <<2, 1, 2>>, <<2, 9, 1>>)) : op \in ops}

CastLaunches ==
    {[op |-> "cast", input |-> x, out |-> [z EXCEPT !.dtype = "float16"]] :
        x \in Layouts22("x"), z \in Layouts22("z")}

CatLaunches ==
    {[op |-> "cat", dim |-> d, out |-> F("z", <<2, 3>>),
      inputs |-> <<F("x", <<2, 1>>), F("y", <<2, 2>>)>>] : d \in {-1, 1}}
    \cup {[op |-> "cat", dim |-> d, out |-> F("z", <<3, 2>>),
           inputs |-> <<F("x", <<1, 2>>), F("y", <<2, 2>>)>>] : d \in {0, -2}}
    \cup {[op |-> "cat", dim |-> 1, out |-> F("z", <<2, 3, 2>>),
           inputs |-> <<F("x", <<2, 1, 2>>), F("y", <<2, 1, 2>>), F("w", <<2, 1, 2>>)>>]}

\* Queries are the last rows of the sequence; outputs may alias the input.
SoftmaxLaunches ==
    {[op |-> "causal_softmax", input |-> x, out |-> z] :
        x \in {F("x", <<2, 3>>), S("x", <<2, 3>>, <<1, 2>>)},
        z \in {F("z", <<2, 3>>), S("z", <<2, 3>>, <<4, 1>>)}}
    \cup {[op |-> op, input |-> x, out |-> x] : op \in {"causal_softmax", "scaled_softmax"},
        x \in {F("x", <<2, 3>>), S("x", <<2, 3>>, <<1, 2>>)}}
    \cup {[op |-> "causal_softmax", input |-> F("x", <<n, s, t>>),
           out |-> S("z", <<n, s, t>>, <<t, n * t, 1>>)] :
             n \in 1..2, s \in 1..3, t \in 1..3}
    \cup {[op |-> "scaled_softmax", input |-> x, out |-> z] :
        x \in {F("x", <<2, 3>>), S("x", <<2, 3>>, <<1, 2>>)},
        z \in {F("z", <<2, 3>>), S("z", <<2, 3>>, <<4, 1>>)}}

NormLaunches ==
    {[op |-> "rms_norm", input |-> x, weight |-> F("w", <<2>>), out |-> z] :
        x \in {F("x", <<2, 2>>), S("x", <<2, 2>>, <<3, 1>>)},
        z \in {F("z", <<2, 2>>), S("z", <<2, 2>>, <<3, 1>>)}}
    \cup {[op |-> "rms_norm", input |-> x, weight |-> F("w", <<2>>), out |-> x] :
        x \in {F("x", <<2, 2>>), S("x", <<2, 2>>, <<3, 1>>)}}
    \cup {[op |-> "rms_norm", input |-> F("x", <<2, 2, 2>>), weight |-> F("w", <<2>>),
           out |-> S("z", <<2, 2, 2>>, <<2, 4, 1>>)]}

-------------------------------------------------------------------------------
\* The sizes m, n, k differ.  A factor may be stored transposed, as its flag
\* says, and with its rows or its columns adjacent.
Factor(b, rows, cols, trans) ==
    LET shape == IF trans THEN <<cols, rows>> ELSE <<rows, cols>>
    IN  {F(b, shape), S(b, shape, <<1, shape[1]>>)}

GemmLaunches ==
    {[op |-> "gemm", a |-> a, b |-> b, c |-> c, trans_a |-> ta, trans_b |-> tb,
      beta |-> beta] :
        ta \in BOOLEAN, tb \in BOOLEAN, beta \in {0, 1},
        a \in Factor("a", 2, 4, FALSE) \cup Factor("a", 2, 4, TRUE),
        b \in Factor("b", 4, 3, FALSE) \cup Factor("b", 4, 3, TRUE),
        c \in Factor("c", 2, 3, FALSE)}
    \cup {[op |-> "gemm", a |-> F("a", <<2, 2, 2>>), b |-> b, c |-> F("c", <<2, 2, 2>>),
           trans_a |-> ta, trans_b |-> FALSE, beta |-> 0] :
             ta \in BOOLEAN, b \in {F("b", <<2, 2>>), F("b", <<2, 2, 2>>)}}

\* Shapes that multiply; Gemm checks nothing itself.
Multiplies(l) ==
    /\ Size(l.a, IF l.trans_a THEN -1 ELSE -2) = Size(l.c, -2)
    /\ Size(l.b, IF l.trans_b THEN -2 ELSE -1) = Size(l.c, -1)
    /\ Size(l.a, IF l.trans_a THEN -2 ELSE -1) = Size(l.b, IF l.trans_b THEN -1 ELSE -2)

LinearLaunches ==
    {[op |-> "linear", a |-> F("a", <<2, 3>>), b |-> b, bias |-> bias, trans_a |-> FALSE,
      trans_b |-> tb, out |-> F("z", <<2, 2>>)] :
        tb \in BOOLEAN, b \in {F("b", <<2, 3>>), F("b", <<3, 2>>)},
        bias \in {<<>>, <<F("v", <<2>>)>>, <<S("v", <<2>>, <<2>>)>>}}
    \cup {[op |-> "linear", a |-> F("a", s \o <<1, 2>>), b |-> F("b", <<2, 2>>),
           bias |-> <<F("v", <<2>>)>>, trans_a |-> FALSE, trans_b |-> TRUE,
           out |-> F("z", s \o <<1, 2>>)] : s \in {<<2>>, <<2, 2>>}}

SamplerLaunches ==
    {[op |-> "sampler", logits |-> F("x", <<2, 3>>), k |-> k, p |-> p,
      out |-> [F("z", <<2>>) EXCEPT !.dtype = "int32"],
      weight |-> <<<<1, 2, 1>>, <<3, 1, 2>>>>, top_k |-> <<tk, tk>>,
      top_p |-> <<tp, tp>>] :
        k \in {<<[F("k", <<1>>) EXCEPT !.dtype = "int32"]>>},
        p \in {<<F("p", <<2>>)>>},
        tk \in 0..4, tp \in {<<0, 1>>, <<1, 2>>, <<2, 3>>, <<1, 1>>}}

-------------------------------------------------------------------------------
On(device, launches) == {[device |-> device] @@ l : l \in launches}

CpuLaunches ==
    ElementwiseLaunches({"add", "mul", "swiglu"}) \cup CastLaunches \cup CatLaunches
    \cup SoftmaxLaunches \cup NormLaunches
    \cup {l \in GemmLaunches : Multiplies(l)} \cup LinearLaunches \cup SamplerLaunches

\* Blocks of two threads.  Outputs never alias inputs (__restrict__), and rows
\* are dense.
CudaLaunches ==
    {[block |-> 2] @@ l : l \in
        {e \in ElementwiseLaunches({"add", "swiglu"}) : e.input.buffer # "z"}
        \cup {s \in SoftmaxLaunches \cup NormLaunches :
                 /\ s.op \in {"causal_softmax", "rms_norm"}
                 /\ Stride(s.input, -1) = 1 /\ s.input.buffer # s.out.buffer
                 /\ s.op = "causal_softmax" => SoftmaxBatch(s) * SeqLen(s) <= 2}
        \cup {g \in GemmLaunches : Multiplies(g)}}
    \cup {Binary("add", F("x", <<5>>), F("y", <<5>>), F("z", <<5>>)) @@ [block |-> b] :
             b \in {2, 8}}

\* Rows split over the cores evenly or not, more cores than rows, rows that
\* need padding, outputs that are the inputs.
T(buffer, dtype, shape) == Dense(buffer, dtype, shape)

CustomNorms(launcher, dtype, rows, dim, cores) ==
    {[op |-> "rms_norm", launcher |-> launcher, cores |-> cores,
      input |-> T("x", dtype, <<rows, dim>>), weight |-> T("w", dtype, <<dim>>),
      out |-> T(b, dtype, <<rows, dim>>)] : b \in {"x", "z"}}

CustomAddNorms(launcher, dtype, rows, dim, cores) ==
    {[op |-> "add_rms_norm", launcher |-> launcher, cores |-> cores,
      input |-> T("x", dtype, <<rows, dim>>), residual |-> T("r", dtype, <<rows, dim>>),
      weight |-> T("w", dtype, <<dim>>), out |-> T(b[1], dtype, <<rows, dim>>),
      residual_out |-> T(b[2], dtype, <<rows, dim>>)] :
        b \in {<<"z", "y">>, <<"x", "r">>}}

CustomLaunches ==
    UNION {CustomNorms("infini", dtype, rows, dim, cores) :
              dtype \in {"float16", "float32"}, rows \in {1, 3, 4}, dim \in {2, 3, 4},
              cores \in {2, 3}}
    \cup UNION {CustomAddNorms("infini", dtype, rows, 4, 2) :
              dtype \in {"bfloat16", "float32"}, rows \in {1, 5}}
    \cup {l \in UNION {CustomNorms("torch", "float32", rows, dim, 2) \cup
                        CustomAddNorms("torch", "float32", rows, dim, 2) :
                        rows \in {1, 3}, dim \in {2, 3}} : l.out.buffer = "z"}

Candidates == On("cpu", CpuLaunches) \cup On("cuda", CudaLaunches)

MCLaunches == {l \in Candidates : Accepts(l)}
              \cup On("ascend", {l \in CustomLaunches : LauncherAccepts(l)})

CpuProgram(l) ==
    CASE l.op = "add" -> CpuAdd(l)
      [] l.op = "mul" -> CpuMul(l)
      [] l.op = "swiglu" -> CpuSwiglu(l)
      [] l.op = "cast" -> CpuCast(l)
      [] l.op = "cat" -> CpuCat(l)
      [] l.op = "causal_softmax" -> CpuCausalSoftmax(l)
      [] l.op = "scaled_softmax" -> CpuScaledSoftmax(l)
      [] l.op = "rms_norm" -> CpuRmsNorm(l)
      [] l.op = "gemm" -> CpuGemm(l)
      [] l.op = "linear" -> CpuLinear(l)
      [] l.op = "sampler" -> CpuSampler(l)

CudaProgram(l) ==
    CASE l.op = "add" -> CudaAdd(l)
      [] l.op = "swiglu" -> CudaSwiglu(l)
      [] l.op = "causal_softmax" -> CudaCausalSoftmax(l)
      [] l.op = "rms_norm" -> CudaRmsNorm(l)
      [] l.op = "gemm" -> BlasGemm(l)

MCProgramOf(l) ==
    CASE l.device = "cpu"    -> CpuProgram(l)
      [] l.device = "cuda"   -> CudaProgram(l)
      [] l.device = "ascend" -> CustomNorm(l)

\* The library's launches of this instance are those the proofs speak of.
ASSUME LibraryLaunchesCovered ==
    \A l \in MCLaunches :
        l.device = "ascend" /\ l.launcher = "infini" => CustomNormLaunch(l) /\ CustomNormOperands(l)

\* The CUDA launches, but for gemm, are those the proofs speak of.
ASSUME CudaLaunchesCovered ==
    \A l \in MCLaunches :
        l.device = "cuda" =>
            CASE l.op \in {"add", "swiglu"} -> CudaElementwiseLaunch(l)
              [] l.op = "rms_norm"          -> CudaNormLaunch(l)
              [] l.op = "causal_softmax"    -> CudaSoftmaxLaunch(l)
              [] OTHER                      -> TRUE

\* And so are the CPU launches, but for gemm, linear, cat and the sampler.
ASSUME CpuLaunchesCovered ==
    \A l \in MCLaunches :
        l.device = "cpu" =>
            CASE l.op \in {"add", "mul", "swiglu"} ->
                        CpuElementwiseLaunch({l.input, l.other}, l.out)
              [] l.op = "cast"           -> CpuElementwiseLaunch({l.input}, l.out)
              [] l.op = "rms_norm"       -> CpuNormLaunch(l)
              [] l.op = "causal_softmax" -> CpuCausalLaunch(l)
              [] l.op = "scaled_softmax" -> CpuScaledLaunch(l)
              [] OTHER                   -> TRUE

-------------------------------------------------------------------------------
\* Launches of the torch extension on half precision.
MCHalfLaunches ==
    On("ascend", {l \in CustomNorms("torch", "float16", 2, 4, 2) : l.out.buffer = "z"})

(* The kernel computes with the type of the tensors: "`dtype_code` is      *)
(* `static_cast<int64_t>(infini::ops::DataType)` forwarded by the host     *)
(* launcher", say the entry points of op_kernel.                           *)
KernelUsesTensorDtype ==
    launch.device = "ascend" => KernelType(TypeCode(launch)) = launch.input.dtype

-------------------------------------------------------------------------------
\* One serial schedule of p: the items before each, and what each wrote.
InTurn(p) ==
    LET start(c) == {c} \cap p.inputs
        Flow(item, held, drawn) ==
            [c \in Writes(item) |-> drawn \cup UNION {held[r] : r \in item.flow[c]}]
        Turn(s, n) ==
            LET i     == CHOOSE j \in DOMAIN p.work \ s.done : p.work[j].after \subseteq s.done
                item  == p.work[i]
                least == Flow(item, s.low, {})
                most  == Flow(item, s.high, UNION item.yields)
            IN  [done   |-> s.done \cup {i},
                 before |-> (i :> item.after \cup UNION {s.before[k] : k \in item.after})
                            @@ s.before,
                 least  |-> (i :> least) @@ s.least,
                 most   |-> (i :> most) @@ s.most,
                 low    |-> least @@ s.low,
                 high   |-> most @@ s.high]
    IN  FoldLeft(Turn, [done |-> {}, before |-> <<>>, least |-> <<>>, most |-> <<>>,
                        low  |-> [c \in p.alloc |-> start(c)],
                        high |-> [c \in p.alloc |-> start(c)]],
                 [n \in 1..Cardinality(DOMAIN p.work) |-> n])

(* Whatever runs at the same time, in this launch or in a longer one, the  *)
(* barriers, queues and loops of the kernel order every two items that     *)
(* touch one cell, and a serial run computes the right results: what       *)
(* KernelLaunchProofs concludes every schedule's results from.             *)
ScheduleIndependent ==
    Finished => LET s == InTurn(program)
                IN  /\ OrderedBy(program, s.before)
                    /\ Computes(program, s.before, s.least, s.most)
===============================================================================
