------------------------ MODULE CachedExecutorsProofs -----------------------
(***************************************************************************)
(* Proofs about CachedExecutors, for any streams, addresses and moves of   *)
(* arenas, and any of the kernels that AscendKernels lists: each launch is *)
(* looked at, whether later calls refresh every operand of its executor    *)
(* (Covers), and a refreshed executor has the addresses of its call.       *)
(***************************************************************************)
EXTENDS CachedExecutors, SequenceTheorems, TLAPS

(* The executors' buffers that the object owns are bound right, which is   *)
(* what later calls cannot be relied on to repair.                         *)
OwnedBound(l, b) ==
  /\ \A j \in DOMAIN l.ins : l.ins[j] \in Owned => b.ins[j] = <<l.ins[j]>>
  /\ \A j \in DOMAIN l.outs : l.outs[j] \in Owned => b.outs[j] = <<l.outs[j]>>

BoundOnce ==
  /\ kernel \in Kernels
  /\ DOMAIN bound = DOMAIN Launches
  /\ launched \subseteq DOMAIN Launches
  /\ \A i \in DOMAIN Launches : bound[i] = None \/ OwnedBound(Launches[i], bound[i])

IInv == BoundOnce /\ BindingsCurrent

(* A launch that can be used again refreshes every operand it reads, and   *)
(* every one it writes but those in place, unless the object owns it.      *)
Covers(l) ==
  l.reuse =>
    /\ \A j \in DOMAIN l.ins : l.ins[j] \in Owned \/ InputFollows(l, j)
    /\ \A j \in DOMAIN l.outs \ l.inplace : l.outs[j] \in Owned \/ OutputFollows(l, j)
Covered(launches) == \A i \in DOMAIN launches : Covers(launches[i])

(* BindingsCurrent for one launch. *)
Current(l, b, f) ==
  /\ b.ins = f.ins
  /\ \A j \in DOMAIN l.outs \ l.inplace : b.outs[j] = f.outs[j]

-----------------------------------------------------------------------------
(* The operators' launches, one by one: which indices they refresh.        *)

LEMMA PerCallCovers == \A ins, outs : Covers(PerCall(ins, outs))
BY DEF Covers, PerCall

LEMMA CoveredParts ==
  /\ \A l : Covers(l) => Covered(<<l>>)
  /\ \A l, m : Covers(l) /\ Covers(m) => Covered(<<l, m>>)
  /\ \A l, m, n : Covers(l) /\ Covers(m) /\ Covers(n) => Covered(<<l, m, n>>)
  /\ \A l, m, n, o : Covers(l) /\ Covers(m) /\ Covers(n) /\ Covers(o)
                      => Covered(<<l, m, n, o>>)
<1>1. \A l : Covers(l) => Covered(<<l>>)
  BY DEF Covered
<1>2. \A l, m : Covers(l) /\ Covers(m) => Covered(<<l, m>>)
  BY DEF Covered
<1>3. \A l, m, n : Covers(l) /\ Covers(m) /\ Covers(n) => Covered(<<l, m, n>>)
  BY DEF Covered
<1>4. \A l, m, n, o : Covers(l) /\ Covers(m) /\ Covers(n) /\ Covers(o)
                      => Covered(<<l, m, n, o>>)
  BY DEF Covered
<1> QED BY <1>1, <1>2, <1>3, <1>4

\* A sequence of launches.
Sequence(q) == \E S : q \in Seq(S)

LEMMA CoveredConcat ==
  ASSUME NEW p, NEW q, Sequence(p), Sequence(q), Covered(p), Covered(q)
  PROVE  Covered(p \o q)
<1> PICK S : p \in Seq(S)
  BY DEF Sequence
<1> PICK T : q \in Seq(T)
  BY DEF Sequence
<1>1. /\ Len(p) \in Nat /\ Len(q) \in Nat
      /\ DOMAIN p = 1 .. Len(p) /\ DOMAIN q = 1 .. Len(q)
      /\ DOMAIN (p \o q) = 1 .. Len(p) + Len(q)
      /\ \A i \in 1 .. Len(p) + Len(q) :
           (p \o q)[i] = IF i <= Len(p) THEN p[i] ELSE q[i - Len(p)]
  OBVIOUS
<1>2. ASSUME NEW i \in 1 .. Len(p) + Len(q) PROVE Covers((p \o q)[i])
  <2>1. CASE i <= Len(p)
    BY <1>1, <2>1 DEF Covered
  <2>2. CASE i > Len(p)
    <3>1. i - Len(p) \in 1 .. Len(q) /\ (p \o q)[i] = q[i - Len(p)]
      BY <1>1, <2>2
    <3> QED BY <1>1, <3>1 DEF Covered
  <2> QED BY <1>1, <2>1, <2>2
<1> QED BY <1>1, <1>2 DEF Covered

\* The one launch that rotates in the ATB kernel.
AtbRotate ==
  <<PerCall(<<"query_out", "key_out", "cos", "sin", "seqlen">>, <<"query_out", "key_out">>)>>

LEMMA RotarySeqs ==
  /\ Sequence(GatherCosSin) /\ Sequence(CopyQueryKey)
  /\ Sequence(GatherCosSin \o CopyQueryKey)
  /\ \A c, s : Sequence(Rotate(c, s))
  /\ Sequence(AtbRotate)
<1>1. ASSUME NEW l, NEW m PROVE Sequence(<<l>>) /\ Sequence(<<l, m>>)
  <2>1. <<l>> \in Seq({l, m}) /\ <<l, m>> \in Seq({l, m})
    OBVIOUS
  <2> QED BY <2>1 DEF Sequence
<1>2. Sequence(GatherCosSin) /\ Sequence(CopyQueryKey)
  BY <1>1 DEF GatherCosSin, CopyQueryKey
<1>3. Sequence(GatherCosSin \o CopyQueryKey)
  <2> PICK S : GatherCosSin \in Seq(S)
    BY <1>2 DEF Sequence
  <2> PICK T : CopyQueryKey \in Seq(T)
    BY <1>2 DEF Sequence
  <2>1. GatherCosSin \in Seq(S \cup T) /\ CopyQueryKey \in Seq(S \cup T)
    OBVIOUS
  <2>2. GatherCosSin \o CopyQueryKey \in Seq(S \cup T)
    BY <2>1
  <2> QED BY <2>2 DEF Sequence
<1>4. \A c, s : Sequence(Rotate(c, s))
  BY <1>1 DEF Rotate
<1>5. Sequence(AtbRotate)
  BY <1>1 DEF AtbRotate
<1> QED BY <1>2, <1>3, <1>4, <1>5

(* Every operator but causal_softmax refreshes, in each of its executors,  *)
(* what it reads and, unless in place, what it writes.                     *)
LEMMA TableCovers == \A k \in DOMAIN KernelTable \ LeftToRuntime : Covered(KernelTable[k])
<1> USE DEF Covers, InputFollows, OutputFollows, PerCall, Repeatable, OfList, InPlace, Owned
<1>1. Covers(Repeatable(<<"cos_table", "positions">>, <<"cos">>, {2}, {}))
  OBVIOUS
<1>2. Covers(Repeatable(<<"sin_table", "positions">>, <<"sin">>, {2}, {}))
  OBVIOUS
<1>3. Covers(InPlace(<<"query_out", "key_out", "cos", "sin">>, 2, {1, 2, 3, 4}))
  OBVIOUS
<1>4. Covers(InPlace(<<"query_out", "key_out", "cos_sin_cache", "cos_sin_cache">>,
             2, {1, 2, 3, 4}))
  OBVIOUS
<1>5. Covers(Repeatable(<<"input", "other">>, <<"out">>, {1, 2}, {1}))
  OBVIOUS
<1>6. Covers(Repeatable(<<"input">>, <<"out">>, {1}, {1}))
  OBVIOUS
<1>7. Covers(OfList(<<"first_input", "rest_inputs">>, <<"out">>, {1}))
  OBVIOUS
<1>8. Covers(Repeatable(<<"weight", "input_ids">>, <<"out">>, {1, 2}, {1}))
  OBVIOUS
<1>9. Covers(Repeatable(<<"a", "b">>, <<"c">>, {1, 2}, {1}))
  OBVIOUS
<1>10. Covers(Repeatable(<<"c", "a", "b">>, <<"c">>, {1, 2, 3}, {1}))
  OBVIOUS
<1>11. Covers(Repeatable(<<"a", "b">>, <<"out">>, {1, 2}, {1}))
  OBVIOUS
<1>12. Covers(Repeatable(<<"bias", "a", "b">>, <<"out">>, {1, 2, 3}, {1}))
  OBVIOUS
<1>13. Covers(Repeatable(<<"out", "bias">>, <<"out">>, {1, 2}, {1}))
  OBVIOUS
<1>14. Covers(Repeatable(<<"input">>, <<"temp">>, {1}, {1}))
  OBVIOUS
<1>15. Covers(Repeatable(<<"temp">>, <<"out">>, {1}, {1}))
  OBVIOUS
<1>16. Covers(Repeatable(<<"input">>, <<"staging">>, {1}, {1}))
  OBVIOUS
<1>17. Covers(InPlace(<<"out", "staging">>, 1, {1, 2}))
  OBVIOUS
<1>18. Covers(Repeatable(<<"gate">>, <<"temp">>, {1}, {1}))
  OBVIOUS
<1>19. Covers(Repeatable(<<"input", "temp">>, <<"out">>, {1, 2}, {1}))
  OBVIOUS
<1>20. Covers(OfList(<<"gate", "input">>, <<"temp">>, {1}))
  OBVIOUS
<1>21. Covers(Repeatable(<<"temp">>, <<"staging">>, {1}, {1}))
  OBVIOUS
<1>22. Covers(Repeatable(<<"input", "weight">>, <<"out", "temp">>, {1, 2}, {1, 2}))
  OBVIOUS
<1>23. Covers(CastWeight)
  BY DEF CastWeight
<1>24. Covers(Repeatable(<<"input", "residual">>, <<"residual_out">>, {1, 2}, {1}))
  OBVIOUS
<1>25. Covers(Repeatable(<<"residual_out", "weight">>,
              <<"out", "temp">>, {1, 2}, {1, 2}))
  OBVIOUS
<1>26. Covers(Repeatable(<<"input", "residual", "weight">>,
              <<"out", "rstd", "residual_out">>, {1, 2, 3}, {1, 3}))
  OBVIOUS
<1>27. Covers([CastWeight EXCEPT !.memo = {"weight"}])
  BY DEF CastWeight
<1>28. Covers(Repeatable(<<"slot_mapping">>, <<"slot32">>, {1}, {1}))
  OBVIOUS
<1>29. Covers(Repeatable(<<"logits", "sample_top_k", "sample_top_p">>,
              <<"sample_idx", "sample_logits">>, {1, 2, 3}, {1, 2}))
  OBVIOUS
<1>30. Covers(Repeatable(<<"sample_idx">>, <<"out">>, {1}, {1}))
  OBVIOUS
<1>31. Covers(InPlace(<<"workspace">>, 1, {1}))
  OBVIOUS
<1> HIDE DEF Covers, InputFollows, OutputFollows, PerCall, Repeatable, OfList, InPlace, Owned
<1>32. Covered(GatherCosSin)
  BY <1>1, <1>2, CoveredParts DEF GatherCosSin
<1>33. Covered(CopyQueryKey)
  BY PerCallCovers, CoveredParts DEF CopyQueryKey
<1>34. Covered(Rotate("cos", "sin"))
  BY <1>3, CoveredParts DEF Rotate
<1>35. Covered(Rotate("cos_sin_cache", "cos_sin_cache"))
  BY <1>4, CoveredParts DEF Rotate
<1>36. Covered(AtbRotate)
  BY PerCallCovers, CoveredParts DEF AtbRotate
<1>37. Covered(Add)
  BY <1>5, CoveredParts DEF Add
<1>38. Covered(Mul)
  BY <1>5, CoveredParts DEF Mul
<1>39. Covered(Cast)
  BY <1>6, CoveredParts DEF Cast
<1>40. Covered(Cat)
  BY <1>7, CoveredParts DEF Cat
<1>41. Covered(Embedding)
  BY <1>8, CoveredParts DEF Embedding
<1>42. Covered(Matmul)
  BY <1>9, CoveredParts DEF Matmul
<1>43. Covered(Gemm)
  BY <1>10, CoveredParts DEF Gemm
<1>44. Covered(LinearPlain)
  BY <1>11, CoveredParts DEF LinearPlain
<1>45. Covered(LinearBias)
  BY <1>12, CoveredParts DEF LinearBias
<1>46. Covered(LinearFlat)
  BY <1>11, <1>13, CoveredParts DEF LinearFlat
<1>47. Covered(ScaledSoftmax)
  BY <1>14, <1>15, CoveredParts DEF ScaledSoftmax
<1>48. Covered(PlainSoftmax)
  BY <1>6, CoveredParts DEF PlainSoftmax
<1>49. Covered(SiluAndMul)
  BY <1>6, CoveredParts DEF SiluAndMul
<1>50. Covered(SiluAndMulStrided)
  BY <1>16, <1>17, CoveredParts DEF SiluAndMulStrided
<1>51. Covered(Swiglu)
  BY <1>18, <1>19, CoveredParts DEF Swiglu
<1>52. Covered(SwigluFused)
  BY <1>20, <1>15, CoveredParts DEF SwigluFused
<1>53. Covered(SwigluFusedStrided)
  BY <1>20, <1>21, <1>17, CoveredParts DEF SwigluFusedStrided
<1>54. Covered(RmsNorm)
  BY <1>22, CoveredParts DEF RmsNorm
<1>55. Covered(RmsNormCustom)
  BY <1>23, PerCallCovers, CoveredParts DEF RmsNormCustom
<1>56. Covered(AddRmsNorm)
  BY <1>24, <1>25, CoveredParts DEF AddRmsNorm
<1>57. Covered(AddRmsNormFused)
  BY <1>26, CoveredParts DEF AddRmsNormFused
<1>58. Covered(AddRmsNormCustom)
  BY <1>27, PerCallCovers, CoveredParts DEF AddRmsNormCustom
<1>59. Covered(RotarySinCos)
  BY PerCallCovers, CoveredParts DEF RotarySinCos
<1>60. Covered(ReshapeAndCache)
  BY PerCallCovers, CoveredParts DEF ReshapeAndCache
<1>61. Covered(ReshapeAndCacheV2)
  BY PerCallCovers, CoveredParts DEF ReshapeAndCacheV2
<1>62. Covered(ReshapeAndCacheAtb)
  BY <1>28, PerCallCovers, CoveredParts DEF ReshapeAndCacheAtb
<1>63. Covered(FlashPrefill)
  BY PerCallCovers, CoveredParts DEF FlashPrefill
<1>64. Covered(FlashDecode)
  BY PerCallCovers, CoveredParts DEF FlashDecode
<1>65. Covered(MhaVarlen)
  BY PerCallCovers, CoveredParts DEF MhaVarlen
<1>66. Covered(MhaKvcache)
  BY PerCallCovers, CoveredParts DEF MhaKvcache
<1>67. Covered(PagedAttention)
  BY PerCallCovers, CoveredParts DEF PagedAttention
<1>68. Covered(TopKTopPSampler)
  BY <1>29, <1>30, CoveredParts DEF TopKTopPSampler
<1>69. Covered(TopkToppSampling)
  BY <1>31, PerCallCovers, CoveredParts DEF TopkToppSampling, FillAux
<1>70. Covered(GatherCosSin \o CopyQueryKey)
  BY <1>32, <1>33, CoveredConcat, RotarySeqs
<1>71. Covered(RotaryPreGathered)
  BY <1>33, <1>35, CoveredConcat, RotarySeqs DEF RotaryPreGathered
<1>72. Covered(Rotary)
  BY <1>70, <1>34, CoveredConcat, RotarySeqs DEF Rotary
<1>73. Covered(RotaryAtb)
  <2>1. Covered((GatherCosSin \o CopyQueryKey) \o AtbRotate)
    BY <1>70, <1>36, CoveredConcat, RotarySeqs
  <2> QED BY <2>1 DEF RotaryAtb, AtbRotate
<1> QED BY <1>37, <1>38, <1>39, <1>40, <1>41, <1>42, <1>43, <1>44, <1>45, <1>46,
         <1>47, <1>48, <1>49, <1>50, <1>51, <1>52, <1>53, <1>54, <1>55, <1>56, <1>57,
         <1>58, <1>72, <1>71, <1>73, <1>59, <1>60, <1>61, <1>62, <1>63, <1>64, <1>65,
         <1>66, <1>67, <1>68, <1>69
       DEF KernelTable, LeftToRuntime


-----------------------------------------------------------------------------
(* A buffer of the object has one address. *)
LEMMA OwnedAddress ==
  ASSUME NEW o \in Owned, NEW s, NEW args
  PROVE  Address(o, s, args) = <<o>>
<1>1. o \notin Pooled
  BY DEF Owned, Pooled
<1> QED BY <1>1 DEF Address

(* The addresses of a call bind the object's buffers right. *)
LEMMA FreshOwned ==
  ASSUME NEW l, NEW s, NEW args
  PROVE  OwnedBound(l, Fresh(l, s, args))
BY OwnedAddress DEF OwnedBound, Fresh

(* An executor whose own buffers were right reads, once refreshed, the     *)
(* addresses of the call, and writes to them if it is not in place.        *)
LEMMA RefreshedIsCurrent ==
  ASSUME NEW l, l.reuse, Covers(l),
         NEW old, OwnedBound(l, old), NEW s, NEW args
  PROVE  Current(l, Refreshed(l, old, Fresh(l, s, args)), Fresh(l, s, args))
<1> DEFINE f == Fresh(l, s, args)
           r == Refreshed(l, old, f)
<1>1. /\ \A j \in DOMAIN l.ins : l.ins[j] \in Owned => old.ins[j] = f.ins[j]
      /\ \A j \in DOMAIN l.outs : l.outs[j] \in Owned => old.outs[j] = f.outs[j]
  BY FreshOwned DEF OwnedBound
<1>2. /\ f.ins = [j \in DOMAIN l.ins |-> f.ins[j]]
      /\ r.ins = [j \in DOMAIN l.ins |-> IF InputFollows(l, j) THEN f.ins[j] ELSE old.ins[j]]
      /\ r.outs = [j \in DOMAIN l.outs |-> IF OutputFollows(l, j) THEN f.outs[j] ELSE old.outs[j]]
  BY DEF Fresh, Refreshed
<1>3. /\ \A j \in DOMAIN l.ins : l.ins[j] \in Owned \/ InputFollows(l, j)
      /\ \A j \in DOMAIN l.outs \ l.inplace : l.outs[j] \in Owned \/ OutputFollows(l, j)
  BY DEF Covers
<1> HIDE DEF f, r
<1>4. r.ins = f.ins
  BY <1>1, <1>2, <1>3
<1>5. \A j \in DOMAIN l.outs \ l.inplace : r.outs[j] = f.outs[j]
  BY <1>1, <1>2, <1>3
<1>6. Current(l, r, f)
  BY <1>4, <1>5 DEF Current
<1> QED BY <1>6 DEF f, r

(* What a refresh makes of a buffer of the object: nothing. *)
LEMMA RefreshedOwned ==
  ASSUME NEW l, NEW old, OwnedBound(l, old), NEW s, NEW args
  PROVE  OwnedBound(l, Refreshed(l, old, Fresh(l, s, args)))
<1> DEFINE f == Fresh(l, s, args)
<1>1. OwnedBound(l, f)
  BY FreshOwned
<1> HIDE DEF f
<1>2. OwnedBound(l, Refreshed(l, old, f))
  BY <1>1 DEF OwnedBound, Refreshed
<1> QED BY <1>2 DEF f

(* A call binds every launch it makes to the call's addresses. *)
LEMMA CallBinds ==
  ASSUME BoundOnce, NEW s, NEW args, NEW i \in DOMAIN Launches, Runs(Launches[i], args)
  PROVE  /\ OwnedBound(Launches[i], Binding(i, s, args))
         /\ kernel \notin LeftToRuntime =>
              Current(Launches[i], Binding(i, s, args), Fresh(Launches[i], s, args))
<1>1. kernel \notin LeftToRuntime => Covers(Launches[i])
  BY TableCovers, KernelsAreKnown DEF BoundOnce, Launches, Covered
<1>2. CASE Launches[i].reuse /\ bound[i] # None
  <2>1. OwnedBound(Launches[i], bound[i])
    BY <1>2 DEF BoundOnce
  <2>2. Binding(i, s, args) = Refreshed(Launches[i], bound[i], Fresh(Launches[i], s, args))
    BY <1>2 DEF Binding
  <2> QED BY <1>1, <1>2, <2>1, <2>2, RefreshedIsCurrent, RefreshedOwned
<1>3. CASE ~(Launches[i].reuse /\ bound[i] # None)
  <2>1. Binding(i, s, args) = Fresh(Launches[i], s, args)
    BY <1>3 DEF Binding
  <2> QED BY <2>1, FreshOwned DEF Current
<1> QED BY <1>2, <1>3

-----------------------------------------------------------------------------
LEMMA InitBinds == Init => IInv
BY DEF Init, IInv, BoundOnce, BindingsCurrent

LEMMA CallPreserves ==
  ASSUME IInv, NEW s, NEW args, Call(s, args)
  PROVE  IInv'
<1>0. BoundOnce
  BY DEF IInv
<1>1. /\ Launches' = Launches
      /\ bound' = [i \in DOMAIN Launches |-> Binding(i, s, args)]
      /\ wanted' = [i \in DOMAIN Launches |-> Fresh(Launches[i], s, args)]
      /\ launched' = {i \in DOMAIN Launches : Runs(Launches[i], args)}
      /\ kernel' = kernel
  BY DEF Call, Launches
<1>2. BindingsCurrent'
  <2> SUFFICES ASSUME kernel \notin LeftToRuntime, NEW i \in launched'
               PROVE  Current(Launches[i], bound'[i], wanted'[i])
    BY <1>1 DEF BindingsCurrent, Current, LeftToRuntime
  <2>1. i \in DOMAIN Launches /\ Runs(Launches[i], args)
    BY <1>1
  <2> QED BY <1>0, <1>1, <2>1, CallBinds
<1>3. ASSUME NEW i \in DOMAIN Launches
      PROVE  bound'[i] = None \/ OwnedBound(Launches[i], bound'[i])
  <2>1. CASE Runs(Launches[i], args)
    BY <1>0, <1>1, <2>1, CallBinds
  <2>2. CASE ~Runs(Launches[i], args)
    <3>1. bound'[i] = bound[i]
      BY <1>1, <2>2 DEF Binding
    <3> QED BY <3>1 DEF IInv, BoundOnce
  <2> QED BY <2>1, <2>2
<1>4. BoundOnce'
  <2>1. \A i \in DOMAIN Launches : bound'[i] = None \/ OwnedBound(Launches[i], bound'[i])
    BY <1>3
  <2> QED BY <1>1, <2>1 DEF IInv, BoundOnce, OwnedBound
<1> QED BY <1>2, <1>4 DEF IInv

LEMMA MoveArenaPreserves ==
  ASSUME IInv, NEW s, NEW n, MoveArena(s, n)
  PROVE  IInv'
BY DEF MoveArena, IInv, BoundOnce, BindingsCurrent, OwnedBound, Launches

LEMMA RecreatePreserves ==
  ASSUME IInv, Recreate
  PROVE  IInv'
BY DEF Recreate, IInv, BoundOnce, BindingsCurrent, OwnedBound, Launches

LEMMA StutterPreserves == IInv /\ UNCHANGED vars => IInv'
BY DEF vars, IInv, BoundOnce, BindingsCurrent, OwnedBound, Launches

(* With the runtime that the operators' comments describe, every launch of *)
(* every operator but causal_softmax reads the tensors, arenas and buffers *)
(* of its own call, and writes to them, however many calls with other      *)
(* tensors and streams its executor has seen; only where a cached in-place *)
(* operation writes is left open, as reshape_and_cache/kernel.h:74-76      *)
(* says it is not refreshed.                                               *)
THEOREM BindingsAlwaysCurrent == Spec => []BindingsCurrent
<1>1. Init => IInv
  BY InitBinds
<1>2. IInv /\ [Next]_vars => IInv'
  <2> SUFFICES ASSUME IInv, [Next]_vars PROVE IInv'
    OBVIOUS
  <2>1. ASSUME NEW s \in Streams, NEW args \in [Arguments(kernel) -> Allocations],
               Call(s, args)
        PROVE  IInv'
    BY <2>1, CallPreserves
  <2>2. ASSUME NEW s \in Streams, NEW n \in Arenas(kernel), MoveArena(s, n)
        PROVE  IInv'
    BY <2>2, MoveArenaPreserves
  <2>3. CASE Recreate
    BY <2>3, RecreatePreserves
  <2>4. CASE UNCHANGED vars
    BY <2>4, StutterPreserves
  <2> QED BY <2>1, <2>2, <2>3, <2>4 DEF Next
<1>3. IInv => BindingsCurrent
  BY DEF IInv
<1> QED BY <1>1, <1>2, <1>3, PTL DEF Spec

-----------------------------------------------------------------------------
(* Types: every operand of a launch has an address. *)

LEMMA AddressType ==
  ASSUME TypeOK, NEW s \in Streams, NEW args \in [Arguments(kernel) -> Allocations],
         NEW o \in Operands(kernel)
  PROVE  Address(o, s, args) \in Addresses
<1>1. CASE o \in Pooled
  <2>1. o \in Arenas(kernel)
    BY <1>1 DEF Arenas
  <2>2. arenas[s][o] \in 0 .. MaxGrowth
    BY <2>1 DEF TypeOK
  <2>3. <<o, s, arenas[s][o]>> \in Pooled \X Streams \X (0 .. MaxGrowth)
    BY <1>1, <2>2
  <2> QED BY <1>1, <2>3 DEF Address, Addresses
<1>2. CASE o \notin Pooled /\ o \in Owned
  BY <1>2 DEF Address, Addresses
<1>3. CASE o \notin Pooled /\ o \notin Owned
  <2>1. o \in Arguments(kernel) /\ kernel \in Kernels
    BY <1>3 DEF Arguments, TypeOK
  <2>2. o \in UNION {Arguments(k) : k \in Kernels} /\ args[o] \in Allocations
    BY <2>1
  <2>3. Address(o, s, args) = <<o, args[o]>>
    BY <1>3 DEF Address
  <2> QED BY <2>2, <2>3 DEF Addresses
<1> QED BY <1>1, <1>2, <1>3

LEMMA FreshType ==
  ASSUME TypeOK, NEW s \in Streams, NEW args \in [Arguments(kernel) -> Allocations],
         NEW i \in DOMAIN Launches
  PROVE  Fresh(Launches[i], s, args) \in Bindings(Launches[i])
<1> DEFINE l == Launches[i]
<1>1. /\ \A j \in DOMAIN l.ins : l.ins[j] \in Operands(kernel)
      /\ \A j \in DOMAIN l.outs : l.outs[j] \in Operands(kernel)
  BY DEF Operands, Launches
<1>2. /\ \A j \in DOMAIN l.ins : Address(l.ins[j], s, args) \in Addresses
      /\ \A j \in DOMAIN l.outs : Address(l.outs[j], s, args) \in Addresses
  BY <1>1, AddressType
<1> HIDE DEF l
<1> QED BY <1>2 DEF Fresh, Bindings, l

LEMMA BindingType ==
  ASSUME TypeOK, NEW s \in Streams, NEW args \in [Arguments(kernel) -> Allocations],
         NEW i \in DOMAIN Launches
  PROVE  Binding(i, s, args) \in Bindings(Launches[i])
<1> DEFINE l == Launches[i]
           f == Fresh(l, s, args)
<1>1. f \in Bindings(l)
  BY FreshType
<1>2. bound[i] \in Bindings(l) \cup {None} /\ (given # None => bound[i] # None)
  BY DEF TypeOK
<1> HIDE DEF l, f
<1>3. ASSUME NEW old \in Bindings(l) PROVE Refreshed(l, old, f) \in Bindings(l)
  <2>1. /\ \A j \in DOMAIN l.ins : f.ins[j] \in Addresses /\ old.ins[j] \in Addresses
        /\ \A j \in DOMAIN l.outs : f.outs[j] \in Addresses /\ old.outs[j] \in Addresses
    BY <1>1 DEF Bindings
  <2> QED BY <2>1 DEF Refreshed, Bindings
<1>4. CASE ~Runs(l, args)
  BY <1>2, <1>4 DEF Binding, Runs, l
<1>5. CASE Runs(l, args) /\ l.reuse /\ bound[i] # None
  BY <1>2, <1>3, <1>5 DEF Binding, l, f
<1>6. CASE Runs(l, args) /\ ~(l.reuse /\ bound[i] # None)
  BY <1>1, <1>6 DEF Binding, l, f
<1> QED BY <1>4, <1>5, <1>6

LEMMA InitTyped == Init => TypeOK
BY GrowthIsBounded DEF Init, TypeOK

LEMMA CallTyped ==
  ASSUME TypeOK, NEW s \in Streams, NEW args \in [Arguments(kernel) -> Allocations],
         Call(s, args)
  PROVE  TypeOK'
<1>1. /\ kernel' = kernel /\ arenas' = arenas /\ given' = args
      /\ Launches' = Launches
      /\ bound' = [i \in DOMAIN Launches |-> Binding(i, s, args)]
      /\ wanted' = [i \in DOMAIN Launches |-> Fresh(Launches[i], s, args)]
      /\ launched' \subseteq DOMAIN Launches
  BY DEF Call, Launches
<1>2. ASSUME NEW i \in DOMAIN Launches
      PROVE  /\ bound'[i] \in Bindings(Launches[i]) /\ bound'[i] # None
             /\ wanted'[i] \in Bindings(Launches[i])
  <2>1. Binding(i, s, args) \in Bindings(Launches[i])
    BY BindingType
  <2>2. Fresh(Launches[i], s, args) \in Bindings(Launches[i])
    BY FreshType
  <2>3. None \notin Bindings(Launches[i])
    BY NoneIsNoBinding DEF Launches, TypeOK
  <2> QED BY <1>1, <2>1, <2>2, <2>3
<1>3. kernel \in Kernels /\ arenas \in [Streams -> [Arenas(kernel) -> 0 .. MaxGrowth]]
  BY DEF TypeOK
<1> QED BY <1>1, <1>2, <1>3 DEF TypeOK

LEMMA MoveArenaTyped ==
  ASSUME TypeOK, NEW s \in Streams, NEW n \in Arenas(kernel), MoveArena(s, n)
  PROVE  TypeOK'
<1>1. /\ arenas' = [arenas EXCEPT ![s][n] = arenas[s][n] + 1]
      /\ arenas[s][n] < MaxGrowth
      /\ UNCHANGED <<kernel, bound, wanted, launched, given>>
  BY DEF MoveArena
<1>2. arenas \in [Streams -> [Arenas(kernel) -> 0 .. MaxGrowth]]
  BY DEF TypeOK
<1>3. arenas' \in [Streams -> [Arenas(kernel) -> 0 .. MaxGrowth]]
  BY <1>1, <1>2, GrowthIsBounded
<1> QED BY <1>1, <1>3 DEF TypeOK, Launches

LEMMA RecreateTyped == TypeOK /\ Recreate => TypeOK'
BY DEF Recreate, TypeOK, Launches

(* The object always has an address for every operand of every launch it   *)
(* has made, in whichever arena, buffer or tensor the operand lies, and    *)
(* after its first call it has an executor for each launch.                *)
THEOREM TypeCorrect == Spec => []TypeOK
<1>1. Init => TypeOK
  BY InitTyped
<1>2. TypeOK /\ [Next]_vars => TypeOK'
  <2> SUFFICES ASSUME TypeOK, [Next]_vars PROVE TypeOK'
    OBVIOUS
  <2>1. ASSUME NEW s \in Streams, NEW args \in [Arguments(kernel) -> Allocations],
               Call(s, args)
        PROVE  TypeOK'
    BY <2>1, CallTyped
  <2>2. ASSUME NEW s \in Streams, NEW n \in Arenas(kernel), MoveArena(s, n)
        PROVE  TypeOK'
    BY <2>2, MoveArenaTyped
  <2>3. CASE Recreate
    BY <2>3, RecreateTyped
  <2>4. CASE UNCHANGED vars
    BY <2>4 DEF vars, TypeOK, Launches
  <2> QED BY <2>1, <2>2, <2>3, <2>4 DEF Next
<1> QED BY <1>1, <1>2, PTL DEF Spec
=============================================================================
