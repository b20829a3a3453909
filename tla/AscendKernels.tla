---------------------------- MODULE AscendKernels ---------------------------
(***************************************************************************)
(* What the Ascend operators (src/native/ascend/ops) launch in one call    *)
(* and where each launch takes its addresses from.                         *)
(*                                                                         *)
(* A kernel is a sequence of launches.  Each names its operands: a tensor  *)
(* the caller passed, an arena of the workspace pool, or a device buffer   *)
(* the operator object owns.  A launch through a Repeatable executor keeps *)
(* that executor from the first call on, and later calls refresh only the  *)
(* inputs setIn and outputs setOut with aclSet{Input,Output}TensorAddr.    *)
(* All descriptors are refreshed by AclTensorCache::get in every call.     *)
(*                                                                         *)
(* Attributes the constructor fixes (a bias, contiguity, scale = 1, paged  *)
(* or not) select between launches: they are separate kernels here.        *)
(***************************************************************************)
EXTENDS Naturals, Sequences

Pooled == {"temp", "staging", "workspace", "sample_top_k", "sample_top_p",
           "sample_idx", "sample_logits"}
Owned == {"rstd", "weight_fp32", "cos_table", "sin_table", "cos", "sin",
          "mask", "slot32", "seqlen"}

-----------------------------------------------------------------------------
(* Kinds of launches.  list: inputs that are entries of a tensor list.     *)
(* inplace: outputs the runtime knows only as inputs.  memo: the caller's  *)
(* tensor whose address must have changed for the launch to take place.    *)

PerCall(ins, outs) ==
  [ins |-> ins, outs |-> outs, reuse |-> FALSE, list |-> FALSE,
   inplace |-> {}, setIn |-> {}, setOut |-> {}, memo |-> {}]

Repeatable(ins, outs, setIn, setOut) ==
  [PerCall(ins, outs) EXCEPT !.reuse = TRUE, !.setIn = setIn, !.setOut = setOut]

OfList(ins, outs, setOut) ==
  [Repeatable(ins, outs, {}, setOut) EXCEPT !.list = TRUE]

(* The first n inputs are also the outputs. *)
InPlace(ins, n, setIn) ==
  [Repeatable(ins, SubSeq(ins, 1, n), setIn, {}) EXCEPT !.inplace = 1 .. n]

-----------------------------------------------------------------------------
(* Elementwise operators, lookups and matrix products.                     *)

Add == <<Repeatable(<<"input", "other">>, <<"out">>, {1, 2}, {1})>>
Mul == <<Repeatable(<<"input", "other">>, <<"out">>, {1, 2}, {1})>>
Cast == <<Repeatable(<<"input">>, <<"out">>, {1}, {1})>>
Cat == <<OfList(<<"first_input", "rest_inputs">>, <<"out">>, {1})>>
Embedding == <<Repeatable(<<"weight", "input_ids">>, <<"out">>, {1, 2}, {1})>>
Matmul == <<Repeatable(<<"a", "b">>, <<"c">>, {1, 2}, {1})>>
Gemm == <<Repeatable(<<"c", "a", "b">>, <<"c">>, {1, 2, 3}, {1})>>

LinearPlain == <<Repeatable(<<"a", "b">>, <<"out">>, {1, 2}, {1})>>
(* Mutant of LinearBias: aclnnAddmm's indices taken for those of a matmul. *)
LinearBiasUnset == <<Repeatable(<<"bias", "a", "b">>, <<"out">>, {1, 2}, {1})>>
LinearBias == <<Repeatable(<<"bias", "a", "b">>, <<"out">>, {1, 2, 3}, {1})>>
LinearFlat == <<Repeatable(<<"a", "b">>, <<"out">>, {1, 2}, {1}),
                Repeatable(<<"out", "bias">>, <<"out">>, {1, 2}, {1})>>

-----------------------------------------------------------------------------
(* Softmax and gated activations.                                          *)

CausalSoftmax == <<InPlace(<<"temp", "input">>, 1, {1, 2}),
                   InPlace(<<"temp", "mask">>, 1, {}),
                   Repeatable(<<"temp">>, <<"out">>, {}, {1})>>

ScaledSoftmax == <<Repeatable(<<"input">>, <<"temp">>, {1}, {1}),
                   Repeatable(<<"temp">>, <<"out">>, {1}, {1})>>
PlainSoftmax == <<Repeatable(<<"input">>, <<"out">>, {1}, {1})>>

SiluAndMul == <<Repeatable(<<"input">>, <<"out">>, {1}, {1})>>
SiluAndMulStrided == <<Repeatable(<<"input">>, <<"staging">>, {1}, {1}),
                       InPlace(<<"out", "staging">>, 1, {1, 2})>>

Swiglu == <<Repeatable(<<"gate">>, <<"temp">>, {1}, {1}),
            Repeatable(<<"input", "temp">>, <<"out">>, {1, 2}, {1})>>
SwigluFused == <<OfList(<<"gate", "input">>, <<"temp">>, {1}),
                 Repeatable(<<"temp">>, <<"out">>, {1}, {1})>>
SwigluFusedStrided == <<OfList(<<"gate", "input">>, <<"temp">>, {1}),
                        Repeatable(<<"temp">>, <<"staging">>, {1}, {1}),
                        InPlace(<<"out", "staging">>, 1, {1, 2})>>

-----------------------------------------------------------------------------
(* Normalization.                                                          *)

RmsNorm ==
  <<Repeatable(<<"input", "weight">>, <<"out", "temp">>, {1, 2}, {1, 2})>>

(* The custom kernels convert half-precision weights to fp32 first:        *)
(* RmsNorm in every call, AddRmsNorm when the weight's address changed.    *)
CastWeight == Repeatable(<<"weight">>, <<"weight_fp32">>, {1}, {1})

RmsNormCustom == <<CastWeight, PerCall(<<"input", "weight_fp32">>, <<"out">>)>>

AddRmsNorm ==
  <<Repeatable(<<"input", "residual">>, <<"residual_out">>, {1, 2}, {1}),
    Repeatable(<<"residual_out", "weight">>, <<"out", "temp">>, {1, 2}, {1, 2})>>

AddRmsNormFused ==
  <<Repeatable(<<"input", "residual", "weight">>, <<"out", "rstd", "residual_out">>,
               {1, 2, 3}, {1, 3})>>

AddRmsNormCustom ==
  <<[CastWeight EXCEPT !.memo = {"weight"}],
    PerCall(<<"input", "residual", "weight_fp32">>, <<"out", "residual_out">>)>>

-----------------------------------------------------------------------------
(* Rotary embedding.  Gathering rows of the tables refreshes only the      *)
(* positions; query and key are copied to the outputs, rotated in place.   *)

GatherCosSin ==
  <<Repeatable(<<"cos_table", "positions">>, <<"cos">>, {2}, {}),
    Repeatable(<<"sin_table", "positions">>, <<"sin">>, {2}, {})>>
CopyQueryKey == <<PerCall(<<"query">>, <<"query_out">>), PerCall(<<"key">>, <<"key_out">>)>>
Rotate(cos, sin) ==
  <<InPlace(<<"query_out", "key_out", cos, sin>>, 2, {1, 2, 3, 4})>>

Rotary == GatherCosSin \o CopyQueryKey \o Rotate("cos", "sin")
RotaryPreGathered == CopyQueryKey \o Rotate("cos_sin_cache", "cos_sin_cache")
RotaryAtb ==
  GatherCosSin \o CopyQueryKey
    \o <<PerCall(<<"query_out", "key_out", "cos", "sin", "seqlen">>,
                 <<"query_out", "key_out">>)>>
RotarySinCos ==
  <<PerCall(<<"positions", "query", "key", "cos_sin_cache">>, <<"query_out", "key_out">>)>>

-----------------------------------------------------------------------------
(* Paged caches, attention and sampling.                                   *)

ReshapeAndCache == <<PerCall(<<"kv_cache_out", "slot_mapping", "key">>, <<"kv_cache_out">>),
                     PerCall(<<"kv_cache_out", "slot_mapping", "value">>, <<"kv_cache_out">>)>>
ReshapeAndCacheV2 ==
  <<PerCall(<<"key", "kv_cache_out", "slot_mapping", "value">>, <<"kv_cache_out">>)>>
ReshapeAndCacheAtb ==
  <<Repeatable(<<"slot_mapping">>, <<"slot32">>, {1}, {1}),
    PerCall(<<"key", "value", "kv_cache_out", "slot32">>, <<"kv_cache_out">>)>>

FlashPrefill == <<PerCall(<<"query", "key", "value", "mask">>, <<"output">>)>>
FlashDecode == <<PerCall(<<"query", "key", "value", "block_table">>, <<"output">>)>>
MhaVarlen == <<PerCall(<<"q", "k", "v", "mask", "block_table">>, <<"out">>)>>
MhaKvcache == <<PerCall(<<"q", "kcache", "vcache", "block_table">>, <<"out">>)>>
PagedAttention ==
  <<PerCall(<<"query", "key_cache", "value_cache", "block_table", "seq_lens">>, <<"output">>)>>

TopKTopPSampler ==
  <<Repeatable(<<"logits", "sample_top_k", "sample_top_p">>,
               <<"sample_idx", "sample_logits">>, {1, 2, 3}, {1, 2}),
    Repeatable(<<"sample_idx">>, <<"out">>, {1}, {1})>>

(* The three auxiliary tensors are parts of one arena. *)
FillAux == InPlace(<<"workspace">>, 1, {1})
TopkToppSampling ==
  <<FillAux, FillAux, FillAux, PerCall(<<"probs", "workspace">>, <<"out", "workspace">>)>>

-----------------------------------------------------------------------------
KernelTable ==
  [add |-> Add, mul |-> Mul, cast |-> Cast, cat |-> Cat, embedding |-> Embedding,
   matmul |-> Matmul, gemm |-> Gemm, linear |-> LinearPlain, linear_bias |-> LinearBias,
   linear_flat |-> LinearFlat, causal_softmax |-> CausalSoftmax,
   scaled_softmax |-> ScaledSoftmax, plain_softmax |-> PlainSoftmax,
   silu_and_mul |-> SiluAndMul, silu_and_mul_strided |-> SiluAndMulStrided,
   swiglu |-> Swiglu, swiglu_fused |-> SwigluFused,
   swiglu_fused_strided |-> SwigluFusedStrided, rms_norm |-> RmsNorm,
   rms_norm_custom |-> RmsNormCustom, add_rms_norm |-> AddRmsNorm,
   add_rms_norm_fused |-> AddRmsNormFused, add_rms_norm_custom |-> AddRmsNormCustom,
   rotary |-> Rotary, rotary_pre_gathered |-> RotaryPreGathered, rotary_atb |-> RotaryAtb,
   rotary_sin_cos |-> RotarySinCos, reshape_and_cache |-> ReshapeAndCache,
   reshape_and_cache_v2 |-> ReshapeAndCacheV2, reshape_and_cache_atb |-> ReshapeAndCacheAtb,
   flash_prefill |-> FlashPrefill, flash_decode |-> FlashDecode, mha_varlen |-> MhaVarlen,
   mha_kvcache |-> MhaKvcache, paged_attention |-> PagedAttention,
   top_k_top_p_sampler |-> TopKTopPSampler, topk_topp_sampling |-> TopkToppSampling]

(* The caller's tensors among the operands of kernel k. *)
Operands(k) ==
  LET launches == KernelTable[k]
  IN UNION {{launches[i].ins[j] : j \in DOMAIN launches[i].ins}
             \cup {launches[i].outs[j] : j \in DOMAIN launches[i].outs} : i \in DOMAIN launches}
Arguments(k) == Operands(k) \ (Pooled \cup Owned)
Arenas(k) == Operands(k) \cap Pooled
=============================================================================
