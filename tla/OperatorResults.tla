--------------------------- MODULE OperatorResults ---------------------------
(***************************************************************************)
(* What each operator promises, whatever kernel computes it: for every     *)
(* output element, the input elements its value is a function of.  The     *)
(* definitions follow the operators' mathematics over indices and never    *)
(* the kernels' address arithmetic.                                        *)
(***************************************************************************)
EXTENDS BaseOperators

ElementwiseFrom(ins, out) ==
    Elementwise(out, LAMBDA ix : {Cell(t, ix) : t \in ins})

\* Element ix of the output is an element of the input whose share of
\* dimension d the index falls in.
CatFrom(l) ==
    LET d         == CatDim(l)
        Before(n) == FoldLeft(LAMBDA s, t : s + Size(t, d), 0,
                              SubSeq(l.inputs, 1, n - 1))
        Source(ix) ==
            LET n == CHOOSE k \in DOMAIN l.inputs :
                        Before(k) <= ix[d + 1] /\ ix[d + 1] < Before(k + 1)
            IN  Cell(l.inputs[n], [ix EXCEPT ![d + 1] = @ - Before(n)])
    IN  Elementwise(l.out, LAMBDA ix : {Source(ix)})

-------------------------------------------------------------------------------
ScaledSoftmaxFrom(l) ==
    Elementwise(l.out, LAMBDA ix :
        {Cell(l.input, With(ix, -1, j)) : j \in 0..(Size(l.input, 1) - 1)})

\* The entries row ix of a causal softmax may see: no query sees a later key.
CausalView(l, ix) ==
    {Cell(l.input, With(ix, -1, j)) :
        j \in {k \in 0..(TotalSeqLen(l) - 1) :
                  k - ix[Len(ix) - 1] <= TotalSeqLen(l) - SeqLen(l)}}

\* Masked positions are zero, whatever the input.
CausalSoftmaxFrom(l) ==
    Elementwise(l.out, LAMBDA ix :
        IF Cell(l.input, ix) \in CausalView(l, ix) THEN CausalView(l, ix) ELSE {})

\* Each element depends on its row and on its weight.
RmsNormFrom(l) ==
    Elementwise(l.out, LAMBDA ix :
        {Cell(l.input, With(ix, -1, k)) : k \in 0..(NormDim(l.out) - 1)}
        \cup {Cell(l.weight, <<ix[Len(ix)]>>)})

\* Two results together.
Both(f, g) == [x \in DOMAIN f \cup DOMAIN g |-> IF x \in DOMAIN f THEN f[x] ELSE g[x]]

\* The sum of input and residual, and the norm of that sum.
AddRmsNormFrom(l) ==
    Both(Elementwise(l.out, LAMBDA ix :
            {Cell(t, With(ix, -1, k)) : t \in {l.input, l.residual},
                                        k \in 0..(NormDim(l.out) - 1)}
            \cup {Cell(l.weight, <<ix[Len(ix)]>>)}),
         ElementwiseFrom({l.input, l.residual}, l.residual_out))

-------------------------------------------------------------------------------
\* The batch indices of ix that t has: operands of two dimensions are shared
\* by all batches.
MatrixCell(t, ix, row, col) ==
    Cell(t, (IF NDim(t) > 2 THEN SubSeq(ix, 1, Len(ix) - 2) ELSE <<>>)
            \o <<row, col>>)

\* Row i of the first factor times column j of the second, each transposed
\* when its flag says so.
ProductFrom(a, b, trans_a, trans_b, ix) ==
    LET i == ix[Len(ix) - 1]
        j == ix[Len(ix)]
    IN  UNION {{IF trans_a THEN MatrixCell(a, ix, k, i) ELSE MatrixCell(a, ix, i, k),
                IF trans_b THEN MatrixCell(b, ix, j, k) ELSE MatrixCell(b, ix, k, j)}
               : k \in 0..(Size(a, IF trans_a THEN -2 ELSE -1) - 1)}

\* beta = 0 does not read c, which need not be initialised then.
GemmFrom(l) ==
    Elementwise(l.c, LAMBDA ix :
        ProductFrom(l.a, l.b, l.trans_a, l.trans_b, ix)
        \cup (IF l.beta = 0 THEN {} ELSE {Cell(l.c, ix)}))

LinearFrom(l) ==
    Elementwise(l.out, LAMBDA ix :
        ProductFrom(l.a, l.b, l.trans_a, l.trans_b, ix)
        \cup {Cell(t, <<ix[Len(ix)]>>) : t \in Range(l.bias)})

-------------------------------------------------------------------------------
\* Reference: fewer than k tokens are likelier than t, and, of the k likeliest,
\* those likelier than t have less than the share p.
InNucleus(weight, k, p, t) ==
    LET likelier == {u \in DOMAIN weight : weight[u] > weight[t]}
        Mass(S)  == FoldSet(LAMBDA u, s : s + weight[u], 0, S)
        kept     == IF k \in DOMAIN weight THEN k ELSE Len(weight)
        top      == CHOOSE S \in SUBSET DOMAIN weight :
                       /\ Cardinality(S) = kept
                       /\ \A u \in S, v \in DOMAIN weight \ S : weight[u] >= weight[v]
    IN  /\ Cardinality(likelier) < kept
        /\ (0 < p[1] /\ p[1] < p[2]) => Mass(likelier) * p[2] < p[1] * Mass(top)

Token(t) == <<"token", t>>

\* A draw depends on all logits of its row and on the row's parameters.
SampleFrom(l) ==
    Elementwise(l.out, LAMBDA ix :
        {Cell(l.logits, <<ix[1], j>>) : j \in 0..(Size(l.logits, 1) - 1)}
        \cup {Cell(t, <<IF t.shape = <<1>> THEN 0 ELSE ix[1]>>) :
                 t \in Range(l.k) \cup Range(l.p)})

\* It is a token of the nucleus.
SampleAllowed(l) ==
    LET from == SampleFrom(l)
        nucleus == Elementwise(l.out, LAMBDA ix :
            {Token(t) : t \in {u \in 1..Size(l.logits, 1) :
                InNucleus(l.weight[ix[1] + 1], l.top_k[ix[1] + 1],
                          l.top_p[ix[1] + 1], u)}})
    IN  [c \in DOMAIN from |-> from[c] \cup nucleus[c]]
===============================================================================
