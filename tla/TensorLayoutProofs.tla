-------------------------- MODULE TensorLayoutProofs --------------------------
(***************************************************************************)
(* Proofs about TensorLayout, for tensors of any number of dimensions, any *)
(* sizes and any strides: the address arithmetic that the CPU and the CUDA *)
(* kernels share reaches every element of a tensor, each once, and is that *)
(* of the strides.                                                         *)
(*                                                                         *)
(* The folds over the dimensions are functions chosen by their equation.   *)
(* That there is one is shown by induction on the size of what is folded,  *)
(* which rests on every set of naturals having a least element.            *)
(***************************************************************************)
EXTENDS CpuKernels, FiniteSetTheorems, SequenceTheorems, WellFoundedInduction, TLAPS

(* Every non-empty set of naturals has a least element.                    *)
LEMMA LeastNatural ==
    ASSUME NEW T \in SUBSET Nat, T # {}
    PROVE  \E n \in T : \A m \in T : n <= m
<1> DEFINE R == OpToRel(<, Nat)
<1>1. IsWellFoundedOn(R, Nat)
    BY NatLessThanWellFounded, Zenon
<1> HIDE DEF R
<1>2. PICK n \in T : \A m \in T : ~(<<m, n>> \in R)
    BY <1>1, WFMin
<1>3. \A m \in T : <<m, n>> \in R <=> m < n
    BY DEF R, OpToRel
<1>4. \A m \in T : ~(m < n)
    BY <1>2, <1>3, Zenon
<1> QED BY <1>4

(* Integer division.                                                       *)
LEMMA Quotient ==
    ASSUME NEW a \in Nat, NEW b \in Nat \ {0}
    PROVE  /\ a \div b \in Nat
           /\ b * (a \div b) <= a
           /\ a < b * (a \div b) + b
BY SMT

(* A number is its quotient and its remainder.                             *)
LEMMA Division ==
    ASSUME NEW a \in Nat, NEW b \in Nat \ {0}
    PROVE  /\ a \div b \in Nat /\ a % b \in 0..(b - 1)
           /\ a = b * (a \div b) + (a % b)
BY SMT

(* Factors that differ by one differ in the product by the other factor.   *)
LEMMA LessTimes ==
    ASSUME NEW t \in Nat, NEW m \in Nat, NEW n \in Nat, m < n
    PROVE  t * m + t <= t * n
<1>1. PICK k \in Nat : n = m + 1 + k
  <2>1. n - m - 1 \in Nat /\ n = m + 1 + (n - m - 1)
    OBVIOUS
  <2> QED BY <2>1
<1>2. t * n = t * m + t + t * k
  BY <1>1
<1>3. t * k \in Nat
  OBVIOUS
<1>4. t * m \in Nat /\ t * n \in Nat
  OBVIOUS
<1> QED BY <1>2, <1>3, <1>4

(* A quotient and a remainder determine what was divided, and it them.     *)
LEMMA DivisionOnce ==
    ASSUME NEW b \in Nat \ {0}, NEW q \in Nat, NEW r \in 0..(b - 1)
    PROVE  (b * q + r) \div b = q /\ (b * q + r) % b = r
<1> DEFINE a == b * q + r
           p == a \div b
           s == a % b
<1>1. a \in Nat
    OBVIOUS
<1>2. p \in Nat /\ s \in 0..(b - 1) /\ a = b * p + s
    BY <1>1, Division
<1>3. a = b * q + r
    OBVIOUS
<1> HIDE DEF a, p, s
<1>4. b * p \in Nat /\ b * q \in Nat
    BY <1>2
<1>5. p < q => b * p + b <= b * q
    BY <1>2, LessTimes
<1>6. q < p => b * q + b <= b * p
    BY <1>2, LessTimes
<1>7. p = q
    BY <1>2, <1>3, <1>4, <1>5, <1>6
<1> QED BY <1>2, <1>3, <1>4, <1>7 DEF a, p, s

(* Dividing by two numbers in turn is dividing by their product.           *)
LEMMA DivisionTwice ==
    ASSUME NEW a \in Nat, NEW b \in Nat \ {0}, NEW c \in Nat \ {0}
    PROVE  (a \div b) \div c = a \div (c * b)
<1> DEFINE q == a \div b
           r == a % b
           p == q \div c
           s == q % c
<1>1. q \in Nat /\ r \in 0..(b - 1) /\ a = b * q + r
    BY Division
<1>2. p \in Nat /\ s \in 0..(c - 1) /\ q = c * p + s
    BY <1>1, Division
<1> HIDE DEF q, r, p, s
<1>3. b * q = b * (c * p) + b * s
    BY <1>1, <1>2
<1>4. b * (c * p) = (c * b) * p
    BY <1>2
<1>5. b * s + r \in 0..(c * b - 1)
    <2>1. s \in Nat /\ c \in Nat /\ s < c
        BY <1>2
    <2>2. b * s + b <= b * c
        BY <2>1, LessTimes
    <2>3. b * s \in Nat /\ b * c \in Nat /\ b * c = c * b
        BY <2>1
    <2> QED BY <1>1, <2>2, <2>3
<1>6. a = (c * b) * p + (b * s + r)
    <2>1. b * q \in Nat /\ b * s \in Nat /\ (c * b) * p \in Nat
        BY <1>1, <1>2
    <2> QED BY <1>1, <1>3, <1>4, <2>1
<1>7. c * b \in Nat \ {0}
    OBVIOUS
<1> DEFINE t == b * s + r
           m == c * b
<1>8. t \in 0..(m - 1) /\ m \in Nat \ {0} /\ a = m * p + t
    BY <1>5, <1>6, <1>7
<1> HIDE DEF t, m
<1>9. a \div m = p
    BY <1>2, <1>8, DivisionOnce
<1> QED BY <1>9 DEF m, p, q

(* Induction from 0 to n, for the set S of those a fact holds of.          *)
LEMMA UpTo ==
    ASSUME NEW S, NEW n \in Nat, 0 \in S, \A k \in 0..(n - 1) : k \in S => k + 1 \in S
    PROVE  0..n \subseteq S
<1> DEFINE T == (0..n) \ S
<1> SUFFICES ASSUME T # {} PROVE FALSE
    OBVIOUS
<1>1. T \in SUBSET Nat
    OBVIOUS
<1> HIDE DEF T
<1>2. PICK m \in T : \A k \in T : m <= k
    BY <1>1, LeastNatural
<1> USE DEF T
<1>3. m # 0 /\ m - 1 \in 0..(n - 1)
    OBVIOUS
<1>4. m - 1 \in S
    BY <1>2, <1>3
<1> QED BY <1>2, <1>3, <1>4

(* Induction from n down to 0.                                             *)
LEMMA DownFrom ==
    ASSUME NEW S, NEW n \in Nat, n \in S, \A k \in 1..n : k \in S => k - 1 \in S
    PROVE  0..n \subseteq S
<1> DEFINE R == {j \in 0..n : n - j \in S}
<1>1. 0 \in R /\ \A k \in 0..(n - 1) : k \in R => k + 1 \in R
    <2>1. n - 0 = n /\ \A k \in 0..(n - 1) : (n - k) - 1 = n - (k + 1) /\ n - k \in 1..n
        OBVIOUS
    <2> QED BY <2>1
<1> HIDE DEF R
<1>2. 0..n \subseteq R
    BY <1>1, UpTo
<1> USE DEF R
<1>3. ASSUME NEW j \in 0..n PROVE j \in S
    <2>1. n - j \in 0..n /\ n - (n - j) = j
        OBVIOUS
    <2> QED BY <1>2, <2>1
<1> QED BY <1>3

-------------------------------------------------------------------------------
\* What a fold computes on each of the sets it passes: choice[T] is the element
\* it takes from T, step[<<x, v>>] the value with element x, v that without it.
FoldsTo(S, base, choice, step, g) ==
    \A T \in SUBSET S :
        g[T] = IF T = {} THEN base ELSE step[<<choice[T], g[T \ {choice[T]}]>>]

(* A fold over a finite set has a value.                                   *)
LEMMA FoldExists ==
    ASSUME NEW S, IsFiniteSet(S), NEW V, NEW base \in V,
           NEW choice, \A T \in SUBSET S : T # {} => choice[T] \in T,
           NEW step, \A x \in S, v \in V : step[<<x, v>>] \in V
    PROVE  \E g \in [SUBSET S -> V] : FoldsTo(S, base, choice, step, g)
<1> DEFINE Upto(k) == {T \in SUBSET S : Cardinality(T) <= k}
           Value(g, T) == IF T = {} THEN base ELSE step[<<choice[T], g[T \ {choice[T]}]>>]
           Good(k, g) == g \in [Upto(k) -> V] /\ \A T \in Upto(k) : g[T] = Value(g, T)
           K == {k \in Nat : \E g : Good(k, g)}
           n == Cardinality(S)
<1>1. \A T \in SUBSET S : IsFiniteSet(T) /\ Cardinality(T) \in 0..n /\ n \in Nat
    <2>1. \A T \in SUBSET S : IsFiniteSet(T) /\ Cardinality(T) <= n
        BY FS_Subset
    <2>2. n \in Nat /\ \A T \in SUBSET S : Cardinality(T) \in Nat
        BY <2>1, FS_CardinalityType
    <2> QED BY <2>1, <2>2
<1>2. 0 \in K
    <2> DEFINE g == [T \in Upto(0) |-> base]
    <2>1. \A T \in Upto(0) : T = {}
        BY <1>1, FS_EmptySet
    <2>2. Good(0, g)
        BY <2>1
    <2> QED BY <2>2
<1>3. ASSUME NEW k \in 0..(n - 1), k \in K
      PROVE  k + 1 \in K
    <2>1. PICK g : Good(k, g)
        BY <1>3
    <2> DEFINE h == [T \in Upto(k + 1) |-> Value(g, T)]
    <2>2. ASSUME NEW T \in Upto(k + 1), T # {}
          PROVE  T \ {choice[T]} \in Upto(k) /\ choice[T] \in S
        <3>1. choice[T] \in T
            BY <2>2
        <3>2. Cardinality(T \ {choice[T]}) = Cardinality(T) - 1
            BY <1>1, <3>1, FS_RemoveElement
        <3> QED BY <1>1, <3>1, <3>2
    <2>3. \A T \in Upto(k + 1) : h[T] \in V
        BY <2>1, <2>2
    <2>4. \A T \in Upto(k) : T \in Upto(k + 1) /\ h[T] = g[T]
        BY <1>1, <2>1
    <2>5. \A T \in Upto(k + 1) : Value(h, T) = Value(g, T)
        BY <2>2, <2>4
    <2>6. Good(k + 1, h)
        BY <2>3, <2>5
    <2> HIDE DEF h, Good
    <2> QED BY <1>1, <2>6
<1> HIDE DEF K
<1>4. 0..n \subseteq K
    BY <1>1, <1>2, <1>3, UpTo
<1> USE DEF K
<1>5. PICK g : Good(n, g)
    BY <1>1, <1>4
<1>6. Upto(n) = SUBSET S
    BY <1>1
<1> QED BY <1>5, <1>6 DEF FoldsTo

(* The greatest and the least of some numbers up to n are among them.      *)
LEMMA MaxElement ==
    ASSUME NEW n \in Nat, NEW T \in SUBSET (1..n), T # {}
    PROVE  Max(T) \in T /\ \A x \in T : x <= Max(T)
<1> DEFINE R == {n - x : x \in T}
<1>1. R \in SUBSET Nat /\ R # {}
    OBVIOUS
<1> HIDE DEF R
<1>2. PICK r \in R : \A x \in R : r <= x
    BY <1>1, LeastNatural
<1>3. PICK m \in T : r = n - m
    BY DEF R
<1>4. \A x \in T : m >= x
    <2>1. \A x \in T : n - m <= n - x
        BY <1>2, <1>3 DEF R
    <2> QED BY <2>1
<1>5. Max(T) \in T /\ \A x \in T : Max(T) >= x
    BY <1>4 DEF Max
<1> QED BY <1>5

(* Min of a set of positions is its least element.                         *)
LEMMA MinElement ==
    ASSUME NEW n \in Nat, NEW T \in SUBSET (1..n), T # {}
    PROVE  Min(T) \in T /\ \A x \in T : Min(T) <= x
<1>1. T \in SUBSET Nat
    OBVIOUS
<1>2. \E m \in T : \A x \in T : m <= x
    BY <1>1, LeastNatural
<1> QED BY <1>2 DEF Min

(* Taken from the end, the first k numbers lose k; taken from the front,   *)
(* those from k on lose k.                                                 *)
LEMMA MaxOfInterval ==
    ASSUME NEW n \in Nat, NEW k \in 1..n
    PROVE  /\ 1..k \in SUBSET (1..n) /\ 1..k # {}
           /\ Max(1..k) = k /\ (1..k) \ {k} = 1..(k - 1)
<1>1. 1..k \in SUBSET (1..n) /\ 1..k # {} /\ k \in 1..k /\ (1..k) \ {k} = 1..(k - 1)
    OBVIOUS
<1>2. Max(1..k) \in 1..k /\ k <= Max(1..k)
    BY <1>1, MaxElement
<1> QED BY <1>1, <1>2

(* The same from the front: without its first position, an interval starts *)
(* one later.                                                              *)
LEMMA MinOfInterval ==
    ASSUME NEW n \in Nat, NEW k \in 1..n
    PROVE  /\ k..n \in SUBSET (1..n) /\ k..n # {}
           /\ Min(k..n) = k /\ (k..n) \ {k} = (k + 1)..n
<1>1. k..n \in SUBSET (1..n) /\ k..n # {} /\ k \in k..n /\ (k..n) \ {k} = (k + 1)..n
    OBVIOUS
<1>2. Min(k..n) \in k..n /\ Min(k..n) <= k
    BY <1>1, MinElement
<1> QED BY <1>1, <1>2

\* The partial results of a fold from the left over the positions 1 .. n.
Accumulates(n, base, step, P) ==
    /\ P[0] = base
    /\ \A k \in 1..n : P[k] = step[<<k, P[k - 1]>>]

\* And from the right, where P[k] is the result for the positions from k on.
AccumulatesBack(n, base, step, P) ==
    /\ P[n + 1] = base
    /\ \A k \in 1..n : P[k] = step[<<k, P[k + 1]>>]

\* Which element FoldLeft takes from a set of positions, and FoldRight.
Greatest(n) == [T \in SUBSET (1..n) |-> Max(T)]
Least(n) == [T \in SUBSET (1..n) |-> Min(T)]

(* A fold over the positions of a sequence has a value,                    *)
LEMMA FoldOfPositions ==
    ASSUME NEW n \in Nat, NEW V, NEW base \in V,
           NEW step, \A k \in 1..n, v \in V : step[<<k, v>>] \in V
    PROVE  /\ \E g \in [SUBSET (1..n) -> V] : FoldsTo(1..n, base, Greatest(n), step, g)
           /\ \E g \in [SUBSET (1..n) -> V] : FoldsTo(1..n, base, Least(n), step, g)
<1>1. IsFiniteSet(1..n)
    BY FS_Interval
<1>2. \A T \in SUBSET (1..n) : T # {} => Greatest(n)[T] \in T /\ Least(n)[T] \in T
    BY MaxElement, MinElement DEF Greatest, Least
<1> QED BY <1>1, <1>2, FoldExists

(* which is computed position by position.                                 *)
LEMMA FoldSteps ==
    ASSUME NEW n \in Nat, NEW base, NEW step, NEW g
    PROVE  /\ FoldsTo(1..n, base, Greatest(n), step, g)
                => Accumulates(n, base, step, [k \in 0..n |-> g[1..k]])
           /\ FoldsTo(1..n, base, Least(n), step, g)
                => AccumulatesBack(n, base, step, [k \in 1..(n + 1) |-> g[k..n]])
<1>1. ASSUME FoldsTo(1..n, base, Greatest(n), step, g)
      PROVE  Accumulates(n, base, step, [k \in 0..n |-> g[1..k]])
    <2>1. g[1..0] = base
        <3>1. 1..0 = {} /\ {} \in SUBSET (1..n)
            OBVIOUS
        <3> QED BY <1>1, <3>1 DEF FoldsTo
    <2>2. ASSUME NEW k \in 1..n
          PROVE  g[1..k] = step[<<k, g[1..(k - 1)]>>]
        <3>1. g[1..k] = step[<<Greatest(n)[1..k], g[(1..k) \ {Greatest(n)[1..k]}]>>]
            BY <1>1, MaxOfInterval DEF FoldsTo
        <3>2. Greatest(n)[1..k] = k
            BY MaxOfInterval DEF Greatest
        <3> QED BY <3>1, <3>2, MaxOfInterval
    <2> QED BY <2>1, <2>2 DEF Accumulates
<1>2. ASSUME FoldsTo(1..n, base, Least(n), step, g)
      PROVE  AccumulatesBack(n, base, step, [k \in 1..(n + 1) |-> g[k..n]])
    <2>1. g[(n + 1)..n] = base
        <3>1. (n + 1)..n = {} /\ {} \in SUBSET (1..n)
            OBVIOUS
        <3> QED BY <1>2, <3>1 DEF FoldsTo
    <2>2. ASSUME NEW k \in 1..n
          PROVE  g[k..n] = step[<<k, g[(k + 1)..n]>>]
        <3>1. g[k..n] = step[<<Least(n)[k..n], g[(k..n) \ {Least(n)[k..n]}]>>]
            BY <1>2, MinOfInterval DEF FoldsTo
        <3>2. Least(n)[k..n] = k
            BY MinOfInterval DEF Least
        <3> QED BY <3>1, <3>2, MinOfInterval
    <2> QED BY <2>1, <2>2 DEF AccumulatesBack
<1> QED BY <1>1, <1>2

-------------------------------------------------------------------------------
\* The partial products of a sequence.
Products(s, P) == P[0] = 1 /\ \A k \in 1..Len(s) : P[k] = P[k - 1] * s[k]

(* Product multiplies from the left.                                       *)
LEMMA ProductAccumulates ==
    ASSUME NEW s \in Seq(Nat)
    PROVE  \E P \in [0..Len(s) -> Nat] : Products(s, P) /\ Product(s) = P[Len(s)]
<1> DEFINE n == Len(s)
           step == [kv \in (1..n) \X Nat |-> kv[2] * s[kv[1]]]
           Iter(g) == g = [T \in SUBSET (1..n) |->
                              IF T = {} THEN 1 ELSE LET m == Max(T) IN g[T \ {m}] * s[m]]
<1>1. n \in Nat /\ DOMAIN s = 1..n /\ \A k \in 1..n : s[k] \in Nat
    BY LenProperties, ElementOfSeq
<1>2. Product(s) = (CHOOSE g : Iter(g))[1..n]
    BY <1>1 DEF Product, FoldLeft, MapThenFoldSet
<1>3. \A k \in 1..n, v \in Nat : step[<<k, v>>] = v * s[k] /\ step[<<k, v>>] \in Nat
    BY <1>1
<1> HIDE DEF step
<1>4. PICK g \in [SUBSET (1..n) -> Nat] : FoldsTo(1..n, 1, Greatest(n), step, g)
    BY <1>1, <1>3, FoldOfPositions
<1>5. Iter(g)
    <2> DEFINE h == [T \in SUBSET (1..n) |->
                        IF T = {} THEN 1 ELSE LET m == Max(T) IN g[T \ {m}] * s[m]]
    <2>1. ASSUME NEW T \in SUBSET (1..n) PROVE g[T] = h[T]
        <3>1. CASE T = {}
            BY <1>4, <3>1 DEF FoldsTo
        <3>2. CASE T # {}
            <4>1. Max(T) \in 1..n /\ T \ {Max(T)} \in SUBSET (1..n)
                BY <1>1, <3>2, MaxElement
            <4>2. g[T] = step[<<Greatest(n)[T], g[T \ {Greatest(n)[T]}]>>]
                BY <1>4, <3>2 DEF FoldsTo
            <4>3. Greatest(n)[T] = Max(T)
                BY DEF Greatest
            <4>4. g[T] = g[T \ {Max(T)}] * s[Max(T)]
                BY <1>3, <4>1, <4>2, <4>3
            <4> QED BY <3>2, <4>4
        <3> QED BY <3>1, <3>2
    <2>2. g = [T \in SUBSET (1..n) |-> g[T]] /\ h = [T \in SUBSET (1..n) |-> h[T]]
        OBVIOUS
    <2> HIDE DEF h
    <2>3. g = h
        BY <2>1, <2>2
    <2> QED BY <2>3 DEF h
<1> DEFINE h == CHOOSE f : Iter(f)
<1>6. Iter(h)
    BY <1>5
<1> HIDE DEF h
<1>7. h[1..0] = 1 /\ \A k \in 1..n : h[1..k] = h[1..(k - 1)] * s[k]
    <2>1. \A T \in SUBSET (1..n) :
             h[T] = IF T = {} THEN 1 ELSE LET m == Max(T) IN h[T \ {m}] * s[m]
        BY <1>6, Zenon
    <2>2. 1..0 = {} /\ {} \in SUBSET (1..n)
        OBVIOUS
    <2>3. h[1..0] = 1
        BY <2>1, <2>2
    <2>4. ASSUME NEW k \in 1..n PROVE h[1..k] = h[1..(k - 1)] * s[k]
        BY <1>1, <2>1, MaxOfInterval
    <2> QED BY <2>3, <2>4
<1> DEFINE S == {k \in 0..n : h[1..k] \in Nat}
<1>8. 0 \in S
    BY <1>1, <1>7
<1>9. ASSUME NEW k \in 0..(n - 1), k \in S PROVE k + 1 \in S
    <2>1. k + 1 \in 1..n /\ (k + 1) - 1 = k
        BY <1>1
    <2>2. h[1..(k + 1)] = h[1..k] * s[k + 1]
        BY <1>7, <2>1
    <2> QED BY <1>1, <1>9, <2>1, <2>2
<1> HIDE DEF S
<1>10. 0..n \subseteq S
    BY <1>1, <1>8, <1>9, UpTo
<1> DEFINE P == [k \in 0..n |-> h[1..k]]
<1>11. P \in [0..n -> Nat]
    BY <1>10 DEF S
<1>12. Products(s, P)
    <2>1. P[0] = 1
        BY <1>1, <1>7
    <2>2. ASSUME NEW k \in 1..n PROVE P[k] = P[k - 1] * s[k]
        <3>1. k - 1 \in 0..n /\ k \in 0..n
            BY <1>1
        <3> QED BY <1>7, <3>1
    <2> HIDE DEF P
    <2> QED BY <2>1, <2>2 DEF Products
<1>13. Product(s) = P[n]
    BY <1>1, <1>2 DEF h
<1> HIDE DEF P
<1> QED BY <1>11, <1>12, <1>13

\* The partial sums of an offset: index times stride.
Offsets(t, ix, P) ==
    P[0] = 0 /\ \A k \in 1..NDim(t) : P[k] = P[k - 1] + ix[k] * t.strides[k]

(* The element at an index is as far from the base as the strides say.     *)
LEMMA CellOffset ==
    ASSUME NEW t, WellFormed(t), NEW ix \in [1..NDim(t) -> Int]
    PROVE  \E P \in [0..NDim(t) -> Int] :
              Offsets(t, ix, P) /\ Cell(t, ix) = At(t, P[NDim(t)])
<1> DEFINE n == NDim(t)
           w(d) == ix[d] * t.strides[d]
           step == [kv \in (1..n) \X Int |-> kv[2] + w(kv[1])]
           Iter(g) == g = [T \in SUBSET (1..n) |->
                              IF T = {} THEN 0 ELSE LET m == Max(T) IN g[T \ {m}] + w(m)]
<1>1. n \in Nat /\ DOMAIN t.shape = 1..n /\ \A k \in 1..n : w(k) \in Int
    <2>1. n \in Nat /\ n = Len(t.shape) /\ n = Len(t.strides)
        BY LenProperties DEF WellFormed, NDim
    <2>2. \A k \in 1..n : t.strides[k] \in Int
        BY <2>1, ElementOfSeq DEF WellFormed
    <2>3. DOMAIN t.shape = 1..n
        BY <2>1, LenProperties DEF WellFormed
    <2> QED BY <2>1, <2>2, <2>3
<1>2. Cell(t, ix) = At(t, (CHOOSE g : Iter(g))[1..n])
    <2> DEFINE seq == [d \in 1..n |-> d]
    <2>1. FoldLeft(LAMBDA s, d : s + ix[d] * t.strides[d], 0, seq)
            = (CHOOSE g : g = [T \in SUBSET (1..n) |->
                 IF T = {} THEN 0 ELSE LET m == Max(T) IN g[T \ {m}] + w(seq[m])])[1..n]
        BY DEF FoldLeft, MapThenFoldSet
    <2>2. ASSUME NEW g
          PROVE  [T \in SUBSET (1..n) |->
                    IF T = {} THEN 0 ELSE LET m == Max(T) IN g[T \ {m}] + w(seq[m])]
               = [T \in SUBSET (1..n) |->
                    IF T = {} THEN 0 ELSE LET m == Max(T) IN g[T \ {m}] + w(m)]
        <3>1. \A T \in SUBSET (1..n) : T # {} => seq[Max(T)] = Max(T)
            BY <1>1, MaxElement
        <3> HIDE DEF seq, w
        <3> QED BY <3>1
    <2>3. (CHOOSE g : g = [T \in SUBSET (1..n) |->
                 IF T = {} THEN 0 ELSE LET m == Max(T) IN g[T \ {m}] + w(seq[m])])
           = (CHOOSE g : Iter(g))
        <3> HIDE DEF w, seq
        <3> QED BY <2>2
    <2> QED BY <1>1, <2>1, <2>3 DEF Cell
<1>3. \A k \in 1..n, v \in Int : step[<<k, v>>] = v + w(k) /\ step[<<k, v>>] \in Int
    <2> HIDE DEF w
    <2> QED BY <1>1
<1> HIDE DEF step, w, n
<1>4. PICK g \in [SUBSET (1..n) -> Int] : FoldsTo(1..n, 0, Greatest(n), step, g)
    <2>1. n \in Nat /\ 0 \in Int /\ \A k \in 1..n, v \in Int : step[<<k, v>>] \in Int
        BY <1>1, <1>3
    <2>2. \E g \in [SUBSET (1..n) -> Int] : FoldsTo(1..n, 0, Greatest(n), step, g)
        BY ONLY <2>1, FoldOfPositions
    <2> QED BY <2>2
<1>5. Iter(g)
    <2> DEFINE h == [T \in SUBSET (1..n) |->
                        IF T = {} THEN 0 ELSE LET m == Max(T) IN g[T \ {m}] + w(m)]
    <2>1. ASSUME NEW T \in SUBSET (1..n) PROVE g[T] = h[T]
        <3>1. CASE T = {}
            BY <1>4, <3>1 DEF FoldsTo
        <3>2. CASE T # {}
            <4>1. Max(T) \in 1..n /\ T \ {Max(T)} \in SUBSET (1..n)
                BY <1>1, <3>2, MaxElement
            <4>2. g[T] = step[<<Greatest(n)[T], g[T \ {Greatest(n)[T]}]>>]
                BY <1>4, <3>2 DEF FoldsTo
            <4>3. Greatest(n)[T] = Max(T)
                BY DEF Greatest
            <4>4. g[T] = g[T \ {Max(T)}] + w(Max(T))
                BY <1>3, <4>1, <4>2, <4>3
            <4> QED BY <3>2, <4>4
        <3> QED BY <3>1, <3>2
    <2>2. g = [T \in SUBSET (1..n) |-> g[T]] /\ h = [T \in SUBSET (1..n) |-> h[T]]
        OBVIOUS
    <2> HIDE DEF h
    <2>3. g = h
        BY <2>1, <2>2
    <2> QED BY <2>3 DEF h
<1> DEFINE h == CHOOSE f : Iter(f)
<1>6. Iter(h)
    BY <1>5
<1> HIDE DEF h
<1>7. h[1..0] = 0 /\ \A k \in 1..n : h[1..k] = h[1..(k - 1)] + w(k)
    <2>1. \A T \in SUBSET (1..n) :
             h[T] = IF T = {} THEN 0 ELSE LET m == Max(T) IN h[T \ {m}] + w(m)
        BY <1>6, Zenon
    <2>2. 1..0 = {} /\ {} \in SUBSET (1..n)
        OBVIOUS
    <2>3. h[1..0] = 0
        BY <2>1, <2>2
    <2>4. ASSUME NEW k \in 1..n PROVE h[1..k] = h[1..(k - 1)] + w(k)
        BY <1>1, <2>1, MaxOfInterval
    <2> QED BY <2>3, <2>4
<1> DEFINE S == {k \in 0..n : h[1..k] \in Int}
<1>8. 0 \in S
    BY <1>1, <1>7
<1>9. ASSUME NEW k \in 0..(n - 1), k \in S PROVE k + 1 \in S
    <2>1. k + 1 \in 1..n /\ (k + 1) - 1 = k
        BY <1>1
    <2>2. h[1..(k + 1)] = h[1..k] + w(k + 1)
        BY <1>7, <2>1
    <2> QED BY <1>1, <1>9, <2>1, <2>2
<1> HIDE DEF S
<1>10. 0..n \subseteq S
    BY <1>1, <1>8, <1>9, UpTo
<1> DEFINE P == [k \in 0..n |-> h[1..k]]
<1>11. P \in [0..n -> Int]
    BY <1>10 DEF S
<1>12. Offsets(t, ix, P)
    <2>1. P[0] = 0
        BY <1>1, <1>7
    <2>2. ASSUME NEW k \in 1..n PROVE P[k] = P[k - 1] + w(k)
        <3>1. k - 1 \in 0..n /\ k \in 0..n
            BY <1>1
        <3> QED BY <1>7, <3>1
    <2> HIDE DEF P
    <2> QED BY <2>1, <2>2 DEF Offsets, w, n
<1>13. Cell(t, ix) = At(t, P[n])
    BY <1>1, <1>2 DEF h
<1> HIDE DEF P
<1> QED BY <1>11, <1>12, <1>13 DEF n

\* What IndexToOffset has after the dimensions from k on: the rest of the
\* position and the offset.
Peeled(shape, strides, k, s) ==
    [rest   |-> s.rest \div shape[k],
     offset |-> s.offset + (s.rest % shape[k]) * strides[k]]

Peels(flat, shape, strides, P) ==
    /\ P[Len(shape) + 1] = [rest |-> flat, offset |-> 0]
    /\ \A k \in 1..Len(shape) : P[k] = Peeled(shape, strides, k, P[k + 1])

(* It peels the dimensions from the last one.                              *)
LEMMA PeelsDimensions ==
    ASSUME NEW shape \in Seq(Nat \ {0}), NEW strides \in Seq(Int),
           Len(strides) = Len(shape), NEW flat \in Nat
    PROVE  \E P : /\ Peels(flat, shape, strides, P)
                  /\ IndexToOffset(flat, shape, strides) = P[1].offset
<1> DEFINE n == Len(shape)
           V == [rest : Nat, offset : Int]
           base == [rest |-> flat, offset |-> 0]
           w(k, s) == Peeled(shape, strides, k, s)
           step == [kv \in (1..n) \X V |-> w(kv[1], kv[2])]
           Iter(g) == g = [T \in SUBSET (1..n) |->
                              IF T = {} THEN base ELSE LET m == Min(T) IN w(m, g[T \ {m}])]
<1>1. /\ n \in Nat /\ DOMAIN shape = 1..n
      /\ \A k \in 1..n, v \in V : w(k, v) \in V
    <2>1. n \in Nat /\ DOMAIN shape = 1..n
        BY LenProperties
    <2>2. \A k \in 1..n : shape[k] \in Nat \ {0} /\ strides[k] \in Int
        BY <2>1, ElementOfSeq
    <2>3. ASSUME NEW k \in 1..n, NEW v \in V PROVE w(k, v) \in V
        <3>1. ASSUME NEW a \in Nat, NEW b \in Nat \ {0} PROVE a \div b \in Nat /\ a % b \in Nat
            <4>1. a \div b \in Nat /\ a % b \in 0..(b - 1)
                BY Division
            <4> QED BY <4>1
        <3>2. v.rest \in Nat /\ v.offset \in Int
            OBVIOUS
        <3>3. v.rest \div shape[k] \in Nat /\ v.rest % shape[k] \in Nat
            BY <2>2, <3>1, <3>2
        <3>4. v.offset + (v.rest % shape[k]) * strides[k] \in Int
            BY <2>2, <3>2, <3>3
        <3> QED BY <3>3, <3>4 DEF Peeled
    <2> QED BY <2>1, <2>3
<1>2. IndexToOffset(flat, shape, strides) = (CHOOSE g : Iter(g))[1..n].offset
    <2> DEFINE seq == [d \in 1..n |-> d]
    <2>1. FoldRight(LAMBDA i, s : [rest   |-> s.rest \div shape[i],
                                   offset |-> s.offset + (s.rest % shape[i]) * strides[i]],
                    seq, base)
            = (CHOOSE g : g = [T \in SUBSET (1..n) |->
                 IF T = {} THEN base ELSE LET m == Min(T) IN w(seq[m], g[T \ {m}])])[1..n]
        BY DEF FoldRight, MapThenFoldSet, Peeled
    <2>2. ASSUME NEW g
          PROVE  [T \in SUBSET (1..n) |->
                    IF T = {} THEN base ELSE LET m == Min(T) IN w(seq[m], g[T \ {m}])]
               = [T \in SUBSET (1..n) |->
                    IF T = {} THEN base ELSE LET m == Min(T) IN w(m, g[T \ {m}])]
        <3>1. \A T \in SUBSET (1..n) : T # {} => seq[Min(T)] = Min(T)
            BY <1>1, MinElement
        <3> HIDE DEF seq, w, base
        <3> QED BY <3>1
    <2>3. (CHOOSE g : g = [T \in SUBSET (1..n) |->
                 IF T = {} THEN base ELSE LET m == Min(T) IN w(seq[m], g[T \ {m}])])
           = (CHOOSE g : Iter(g))
        <3> HIDE DEF w, seq, base
        <3> QED BY <2>2
    <2> QED BY <1>1, <2>1, <2>3 DEF IndexToOffset
<1>3. \A k \in 1..n, v \in V : step[<<k, v>>] = w(k, v) /\ step[<<k, v>>] \in V
    <2> HIDE DEF w, V
    <2> QED BY <1>1
<1>b. base \in V
    OBVIOUS
<1> HIDE DEF step, w, n, V, base
<1>4. PICK g \in [SUBSET (1..n) -> V] : FoldsTo(1..n, base, Least(n), step, g)
    <2>1. n \in Nat /\ base \in V /\ \A k \in 1..n, v \in V : step[<<k, v>>] \in V
        BY <1>1, <1>3, <1>b
    <2>2. \E g \in [SUBSET (1..n) -> V] : FoldsTo(1..n, base, Least(n), step, g)
        BY ONLY <2>1, FoldOfPositions
    <2> QED BY <2>2
<1>5. Iter(g)
    <2> DEFINE h == [T \in SUBSET (1..n) |->
                        IF T = {} THEN base ELSE LET m == Min(T) IN w(m, g[T \ {m}])]
    <2>1. ASSUME NEW T \in SUBSET (1..n) PROVE g[T] = h[T]
        <3>1. CASE T = {}
            BY <1>4, <3>1 DEF FoldsTo
        <3>2. CASE T # {}
            <4>1. Min(T) \in 1..n /\ T \ {Min(T)} \in SUBSET (1..n)
                BY <1>1, <3>2, MinElement
            <4>2. g[T] = step[<<Least(n)[T], g[T \ {Least(n)[T]}]>>]
                BY <1>4, <3>2 DEF FoldsTo
            <4>3. Least(n)[T] = Min(T)
                BY DEF Least
            <4>4. g[T] = w(Min(T), g[T \ {Min(T)}])
                BY <1>3, <4>1, <4>2, <4>3
            <4> QED BY <3>2, <4>4
        <3> QED BY <3>1, <3>2
    <2>2. g = [T \in SUBSET (1..n) |-> g[T]] /\ h = [T \in SUBSET (1..n) |-> h[T]]
        OBVIOUS
    <2> HIDE DEF h
    <2>3. g = h
        BY <2>1, <2>2
    <2> QED BY <2>3 DEF h
<1> DEFINE h == CHOOSE f : Iter(f)
<1>6. Iter(h)
    BY <1>5
<1> HIDE DEF h
<1>7. h[(n + 1)..n] = base /\ \A k \in 1..n : h[k..n] = w(k, h[(k + 1)..n])
    <2>1. \A T \in SUBSET (1..n) :
             h[T] = IF T = {} THEN base ELSE LET m == Min(T) IN w(m, h[T \ {m}])
        BY <1>6, Zenon
    <2>2. (n + 1)..n = {} /\ {} \in SUBSET (1..n)
        BY <1>1
    <2>3. h[(n + 1)..n] = base
        BY <2>1, <2>2
    <2>4. ASSUME NEW k \in 1..n PROVE h[k..n] = w(k, h[(k + 1)..n])
        <3>1. /\ k..n \in SUBSET (1..n) /\ k..n # {}
              /\ Min(k..n) = k /\ (k..n) \ {k} = (k + 1)..n
            BY <1>1, MinOfInterval
        <3>2. h[k..n] = w(Min(k..n), h[(k..n) \ {Min(k..n)}])
            BY <2>1, <3>1
        <3> QED BY <3>1, <3>2
    <2> QED BY <2>3, <2>4
<1> DEFINE P == [k \in 1..(n + 1) |-> h[k..n]]
<1>8. Peels(flat, shape, strides, P)
    <2>1. P[n + 1] = base
        BY <1>1, <1>7
    <2>2. ASSUME NEW k \in 1..n PROVE P[k] = w(k, P[k + 1])
        <3>1. k + 1 \in 1..(n + 1) /\ k \in 1..(n + 1)
            BY <1>1
        <3> QED BY <1>7, <3>1
    <2> HIDE DEF P
    <2> QED BY <2>1, <2>2 DEF Peels, w, n, base
<1>9. IndexToOffset(flat, shape, strides) = P[1].offset
    BY <1>1, <1>2 DEF h
<1> HIDE DEF P
<1> QED BY <1>8, <1>9

-------------------------------------------------------------------------------
\* The shape of a tensor with elements.
Shapes == Seq(Nat \ {0})

\* How many elements an index of the dimensions after the k-th names.
Rest(shape, k) == Product(SubSeq(shape, k + 1, Len(shape)))

(* The sizes of a shape are positive.                                      *)
LEMMA ShapeSizes ==
    ASSUME NEW shape \in Shapes
    PROVE  /\ Len(shape) \in Nat /\ DOMAIN shape = 1..Len(shape)
           /\ \A k \in 1..Len(shape) : shape[k] \in Nat \ {0}
BY LenProperties, ElementOfSeq DEF Shapes

(* The product of what is left of a sequence grows by its next element.    *)
LEMMA RestStep ==
    ASSUME NEW shape \in Shapes, NEW k \in 1..Len(shape)
    PROVE  Rest(shape, k - 1) = shape[k] * Rest(shape, k)
<1> DEFINE n == Len(shape)
           u == SubSeq(shape, k + 1, n)
           v == SubSeq(shape, k, n)
<1>1. /\ n \in Nat /\ k \in 1..n /\ shape \in Seq(Nat)
      /\ \A j \in 1..n : shape[j] \in Nat
    BY ShapeSizes DEF Shapes
<1>2. /\ u \in Seq(Nat) /\ Len(u) = n - k
      /\ \A j \in 1..(n - k) : u[j] = shape[k + j]
    BY <1>1
<1>3. /\ v \in Seq(Nat) /\ Len(v) = n - k + 1
      /\ \A j \in 1..(n - k + 1) : v[j] = shape[k + j - 1]
    BY <1>1
<1> HIDE DEF u, v
<1>4. PICK P \in [0..(n - k) -> Nat] : Products(u, P) /\ Product(u) = P[n - k]
    BY <1>2, ProductAccumulates
<1>5. PICK Q \in [0..(n - k + 1) -> Nat] : Products(v, Q) /\ Product(v) = Q[n - k + 1]
    BY <1>3, ProductAccumulates
<1> DEFINE S == {j \in 0..(n - k) : Q[j + 1] = shape[k] * P[j]}
<1>6. 0 \in S
    <2>1. 1 \in 1..Len(v) /\ v[1] = shape[k] /\ k + 1 - 1 = k
        BY <1>1, <1>3
    <2>2. Q[1] = Q[1 - 1] * v[1] /\ Q[0] = 1 /\ P[0] = 1
        BY <1>4, <1>5, <2>1 DEF Products
    <2>3. Q[0 + 1] = shape[k] * P[0]
        BY <1>1, <2>1, <2>2
    <2> QED BY <1>1, <2>3
<1>7. ASSUME NEW j \in 0..(n - k - 1), j \in S PROVE j + 1 \in S
    <2>1. /\ j + 1 \in 1..Len(u) /\ j + 2 \in 1..Len(v)
          /\ u[j + 1] = shape[k + j + 1] /\ v[j + 2] = shape[k + j + 1]
          /\ (j + 1) - 1 = j /\ (j + 2) - 1 = j + 1 /\ (j + 1) + 1 = j + 2
          /\ k + j + 1 \in 1..n /\ j \in 0..(n - k) /\ j + 1 \in 0..(n - k)
        <3>1. /\ j + 1 \in 1..(n - k) /\ j + 2 \in 1..(n - k + 1)
              /\ k + (j + 1) = k + j + 1 /\ k + (j + 2) - 1 = k + j + 1
              /\ (j + 1) - 1 = j /\ (j + 2) - 1 = j + 1 /\ (j + 1) + 1 = j + 2
              /\ k + j + 1 \in 1..n /\ j \in 0..(n - k) /\ j + 1 \in 0..(n - k)
            BY <1>1
        <3>2. u[j + 1] = shape[k + (j + 1)] /\ v[j + 2] = shape[k + (j + 2) - 1]
            BY <1>2, <1>3, <3>1
        <3> QED BY <1>2, <1>3, <3>1, <3>2
    <2>2. P[j + 1] = P[j] * u[j + 1]
        BY <1>4, <2>1 DEF Products
    <2>3. Q[j + 2] = Q[j + 1] * v[j + 2]
        BY <1>5, <2>1 DEF Products
    <2>4. Q[j + 1] = shape[k] * P[j]
        BY <1>7
    <2>5. P[j] \in Nat /\ shape[k] \in Nat /\ shape[k + j + 1] \in Nat
        BY <1>1, <1>4, <2>1
    <2>6. Q[j + 2] = (shape[k] * P[j]) * shape[k + j + 1]
        BY <2>1, <2>3, <2>4
    <2>7. Q[j + 2] = shape[k] * (P[j] * shape[k + j + 1])
        BY <2>5, <2>6
    <2>8. Q[(j + 1) + 1] = shape[k] * P[j + 1]
        BY <2>1, <2>2, <2>7
    <2> QED BY <2>1, <2>8
<1>8. n - k \in Nat /\ n - k \in 0..(n - k)
    BY <1>1
<1> HIDE DEF S, n
<1>9. 0..(n - k) \subseteq S
    BY <1>6, <1>7, <1>8, UpTo
<1> USE DEF S
<1>10. Q[(n - k) + 1] = shape[k] * P[n - k]
    BY <1>8, <1>9
<1>11. Rest(shape, k) = Product(u) /\ Rest(shape, k - 1) = Product(v)
    <2>1. (k - 1) + 1 = k
        BY <1>1
    <2> QED BY <2>1 DEF Rest, u, v, n
<1> QED BY <1>4, <1>5, <1>10, <1>11

(* Nothing is left after the last dimension; all elements are, before the  *)
(* first.                                                                  *)
LEMMA RestEnds ==
    ASSUME NEW shape \in Shapes
    PROVE  /\ Rest(shape, Len(shape)) = 1
           /\ Rest(shape, 0) = Product(shape)
<1> DEFINE n == Len(shape)
           u == SubSeq(shape, n + 1, n)
<1>1. n \in Nat /\ shape \in Seq(Nat)
    BY ShapeSizes DEF Shapes
<1>2. u \in Seq(Nat) /\ Len(u) = 0
    BY <1>1
<1> HIDE DEF u
<1>3. PICK P : Products(u, P) /\ Product(u) = P[0]
    BY <1>2, ProductAccumulates
<1>4. Product(u) = 1
    BY <1>3 DEF Products
<1>5. SubSeq(shape, 0 + 1, n) = shape
    BY <1>1
<1> QED BY <1>4, <1>5 DEF u, Rest

(* What is left of a shape names at least one element.                     *)
LEMMA RestPositive ==
    ASSUME NEW shape \in Shapes
    PROVE  \A k \in 0..Len(shape) : Rest(shape, k) \in Nat \ {0}
<1> DEFINE n == Len(shape)
           S == {k \in 0..n : Rest(shape, k) \in Nat \ {0}}
<1>1. n \in Nat /\ \A k \in 1..n : shape[k] \in Nat \ {0}
    BY ShapeSizes
<1>2. n \in S
    BY <1>1, RestEnds
<1>3. ASSUME NEW k \in 1..n, k \in S PROVE k - 1 \in S
    <2>1. Rest(shape, k - 1) = shape[k] * Rest(shape, k)
        BY RestStep
    <2>2. \A a, b \in Nat \ {0} : a * b \in Nat \ {0}
        OBVIOUS
    <2>3. Rest(shape, k - 1) \in Nat \ {0}
        BY <1>1, <1>3, <2>1, <2>2
    <2> QED BY <1>1, <2>3
<1> HIDE DEF S, n
<1>4. 0..n \subseteq S
    BY <1>1, <1>2, <1>3, DownFrom
<1> QED BY <1>4 DEF S, n

\* The index at a row-major position.
Unravel(shape, flat) ==
    [d \in 1..Len(shape) |-> (flat \div Rest(shape, d)) % shape[d]]

\* The positions of a shape.
Positions(shape) == 0..(Product(shape) - 1)

(* Dividing a position by what the last dimensions name leaves the position *)
(* in the leading ones, and Unravel gives the remainder at the k-th.       *)
LEMMA Leading ==
    ASSUME NEW shape \in Shapes, NEW flat \in Nat, NEW k \in 1..Len(shape)
    PROVE  /\ flat \div Rest(shape, k) \in Nat
           /\ flat \div Rest(shape, k - 1) = (flat \div Rest(shape, k)) \div shape[k]
           /\ Unravel(shape, flat)[k] \in 0..(shape[k] - 1)
           /\ Unravel(shape, flat)[k] <= flat
           /\ flat \div Rest(shape, k)
                = shape[k] * (flat \div Rest(shape, k - 1)) + Unravel(shape, flat)[k]
<1> DEFINE b == Rest(shape, k)
           c == shape[k]
           q == flat \div b
<1>1. b \in Nat \ {0} /\ c \in Nat \ {0}
    <2>1. Len(shape) \in Nat /\ shape[k] \in Nat \ {0}
        BY ShapeSizes
    <2>2. k \in 0..Len(shape)
        BY <2>1
    <2>3. Rest(shape, k) \in Nat \ {0}
        BY <2>2, RestPositive
    <2> QED BY <2>1, <2>3
<1>2. Rest(shape, k - 1) = c * b
    BY RestStep
<1>3. Unravel(shape, flat)[k] = q % c
    BY DEF Unravel
<1> HIDE DEF b, c
<1>4. q \in Nat /\ b * q <= flat
    BY <1>1, Quotient
<1>5. flat \div (c * b) = q \div c
    BY <1>1, DivisionTwice
<1> HIDE DEF q
<1>6. q \div c \in Nat /\ q % c \in 0..(c - 1) /\ q = c * (q \div c) + (q % c)
    BY <1>1, <1>4, Division
<1>7. q <= flat
    <2>1. q <= b * q
        BY <1>1, <1>4
    <2>2. b * q \in Nat
        BY <1>1, <1>4
    <2> QED BY <1>4, <2>1, <2>2
<1>8. q % c <= q
    <2>1. \A x, y \in Nat : x * y \in Nat
        OBVIOUS
    <2>2. c * (q \div c) \in Nat
        BY <1>1, <1>6, <2>1
    <2> QED BY <1>4, <1>6, <2>2
<1>9. q % c \in Nat /\ q % c <= flat
    BY <1>1, <1>4, <1>6, <1>7, <1>8
<1> QED BY <1>2, <1>3, <1>4, <1>5, <1>6, <1>9 DEF b, c, q

(* The first quotient is zero and the last one the position.               *)
LEMMA LeadingEnds ==
    ASSUME NEW shape \in Shapes, NEW flat \in Positions(shape)
    PROVE  /\ Product(shape) \in Nat /\ flat \in Nat
           /\ flat \div Rest(shape, 0) = 0
           /\ flat \div Rest(shape, Len(shape)) = flat
<1> DEFINE m == Product(shape)
<1>1. m \in Nat \ {0} /\ Rest(shape, 0) = m
    <2>1. Len(shape) \in Nat
        BY ShapeSizes
    <2>2. 0 \in 0..Len(shape)
        BY <2>1
    <2> QED BY <2>2, RestPositive, RestEnds
<1>2. flat \in 0..(m - 1)
    BY DEF Positions
<1> HIDE DEF m
<1>3. 0 \in Nat /\ m * 0 + flat = flat /\ flat \in Nat
    BY <1>1, <1>2
<1>4. (m * 0 + flat) \div m = 0
    BY <1>1, <1>2, <1>3, DivisionOnce
<1>5. flat \div 1 = flat
    BY <1>3
<1> QED BY <1>1, <1>3, <1>4, <1>5, RestEnds DEF m

(* Every position is the position of one index,                            *)
LEMMA UnravelIndex ==
    ASSUME NEW shape \in Shapes, NEW flat \in Positions(shape)
    PROVE  /\ Unravel(shape, flat) \in Indices(shape)
           /\ Unravel(shape, flat) \in [1..Len(shape) -> Int]
<1> DEFINE u == Unravel(shape, flat)
<1>1. /\ DOMAIN shape = 1..Len(shape) /\ DOMAIN u = 1..Len(shape)
      /\ \A k \in 1..Len(shape) : shape[k] \in Nat
      /\ u = [k \in DOMAIN u |-> u[k]]
    BY ShapeSizes DEF Unravel
<1>2. flat \in Nat /\ Product(shape) \in Nat /\ flat \in 0..(Product(shape) - 1)
    BY LeadingEnds DEF Positions
<1>3. \A k \in 1..Len(shape) : u[k] \in 0..(shape[k] - 1) /\ u[k] <= flat
    BY <1>2, Leading
<1> HIDE DEF u
<1>4. \A k \in 1..Len(shape) : u[k] \in 0..(Product(shape) - 1) /\ u[k] < shape[k] /\ u[k] \in Int
    BY <1>1, <1>2, <1>3
<1> QED BY <1>1, <1>4 DEF Indices, u

(* no two positions are that of one index,                                 *)
LEMMA UnravelOnce ==
    ASSUME NEW shape \in Shapes, NEW a \in Positions(shape), NEW b \in Positions(shape),
           Unravel(shape, a) = Unravel(shape, b)
    PROVE  a = b
<1> DEFINE n == Len(shape)
           S == {k \in 0..n : a \div Rest(shape, k) = b \div Rest(shape, k)}
<1>1. n \in Nat /\ a \in Nat /\ b \in Nat
    BY ShapeSizes, LeadingEnds
<1>2. 0 \in S
    BY <1>1, LeadingEnds
<1>3. ASSUME NEW k \in 0..(n - 1), k \in S PROVE k + 1 \in S
    <2>1. k + 1 \in 1..n /\ (k + 1) - 1 = k
        BY <1>1
    <2>2. /\ a \div Rest(shape, k + 1)
               = shape[k + 1] * (a \div Rest(shape, k)) + Unravel(shape, a)[k + 1]
          /\ b \div Rest(shape, k + 1)
               = shape[k + 1] * (b \div Rest(shape, k)) + Unravel(shape, b)[k + 1]
        BY <1>1, <2>1, Leading
    <2>3. a \div Rest(shape, k) = b \div Rest(shape, k)
        BY <1>3
    <2>4. a \div Rest(shape, k + 1) = b \div Rest(shape, k + 1)
        BY <2>2, <2>3
    <2> QED BY <1>1, <2>1, <2>4
<1> HIDE DEF S, n
<1>4. 0..n \subseteq S
    BY <1>1, <1>2, <1>3, UpTo
<1>5. n \in 0..n
    BY <1>1
<1>6. a \div Rest(shape, n) = b \div Rest(shape, n)
    BY <1>4, <1>5 DEF S
<1>7. a \div Rest(shape, n) = a /\ b \div Rest(shape, n) = b
    BY LeadingEnds DEF n
<1> QED BY <1>6, <1>7

(* and every index has one.                                                *)
LEMMA UnravelAll ==
    ASSUME NEW shape \in Shapes, NEW ix \in Indices(shape)
    PROVE  \E flat \in Positions(shape) : Unravel(shape, flat) = ix
<1> DEFINE n == Len(shape)
           step == [kv \in (1..n) \X Nat |-> shape[kv[1]] * kv[2] + ix[kv[1]]]
<1>1. /\ n \in Nat /\ DOMAIN shape = 1..n
      /\ \A k \in 1..n : shape[k] \in Nat \ {0}
    BY ShapeSizes
<1>2. Product(shape) \in Nat \ {0} /\ Rest(shape, 0) = Product(shape)
    <2>1. 0 \in 0..n
        BY <1>1
    <2> QED BY <2>1, RestPositive, RestEnds
<1>3. /\ ix \in [1..n -> 0..(Product(shape) - 1)]
      /\ \A k \in 1..n : ix[k] \in 0..(shape[k] - 1)
    BY <1>1, <1>2 DEF Indices
<1>4. \A k \in 1..n, v \in Nat :
        step[<<k, v>>] = shape[k] * v + ix[k] /\ step[<<k, v>>] \in Nat
    BY <1>1, <1>3
<1> HIDE DEF n, step
<1>5. PICK g \in [SUBSET (1..n) -> Nat] : FoldsTo(1..n, 0, Greatest(n), step, g)
    <2>1. n \in Nat /\ 0 \in Nat /\ \A k \in 1..n, v \in Nat : step[<<k, v>>] \in Nat
        BY <1>1, <1>4
    <2>2. \E g \in [SUBSET (1..n) -> Nat] : FoldsTo(1..n, 0, Greatest(n), step, g)
        BY ONLY <2>1, FoldOfPositions
    <2> QED BY <2>2
<1> DEFINE P == [k \in 0..n |-> g[1..k]]
<1>6. Accumulates(n, 0, step, P)
    <2>1. n \in Nat /\ FoldsTo(1..n, 0, Greatest(n), step, g)
        BY <1>1, <1>5
    <2>2. Accumulates(n, 0, step, [k \in 0..n |-> g[1..k]])
        BY ONLY <2>1, FoldSteps
    <2> QED BY <2>2
<1>7. \A k \in 0..n : P[k] \in Nat
    BY <1>1, <1>5
<1> HIDE DEF P
<1>8. P[0] = 0 /\ \A k \in 1..n : P[k] = shape[k] * P[k - 1] + ix[k]
    <2>1. \A k \in 1..n : k - 1 \in 0..n
        BY <1>1
    <2> QED BY <1>4, <1>6, <1>7, <2>1 DEF Accumulates
<1> DEFINE flat == P[n]
           S == {k \in 0..n : flat \div Rest(shape, k) = P[k]}
<1>9. flat \in Nat
    BY <1>1, <1>7
<1>10. n \in S
    <2>1. flat \div 1 = flat
        BY <1>9
    <2> QED BY <1>1, <2>1, RestEnds DEF n
<1>11. ASSUME NEW k \in 1..n PROVE P[k] \div shape[k] = P[k - 1] /\ P[k] % shape[k] = ix[k]
    <2>1. P[k - 1] \in Nat
        BY <1>1, <1>7
    <2>2. /\ (shape[k] * P[k - 1] + ix[k]) \div shape[k] = P[k - 1]
          /\ (shape[k] * P[k - 1] + ix[k]) % shape[k] = ix[k]
        BY <1>1, <1>3, <2>1, DivisionOnce
    <2> QED BY <1>8, <2>2
<1>12. ASSUME NEW k \in 1..n, k \in S PROVE k - 1 \in S
    <2>1. flat \div Rest(shape, k - 1) = (flat \div Rest(shape, k)) \div shape[k]
        BY <1>9, Leading DEF n
    <2>2. flat \div Rest(shape, k) = P[k]
        BY <1>12
    <2> QED BY <1>1, <1>11, <2>1, <2>2
<1> HIDE DEF S, flat
<1>13. 0..n \subseteq S
    BY <1>1, <1>10, <1>12, DownFrom
<1>14. \A k \in 0..n : flat \div Rest(shape, k) = P[k]
    BY <1>13 DEF S
<1>15. flat \in Positions(shape)
    <2> DEFINE m == Product(shape)
    <2>1. flat \div m = 0
        BY <1>1, <1>2, <1>8, <1>14
    <2> HIDE DEF m
    <2>2. flat < m
        BY <1>2, <1>9, <2>1, Quotient DEF m
    <2> QED BY <1>2, <1>9, <2>2 DEF m, Positions
<1>16. ASSUME NEW k \in 1..n PROVE Unravel(shape, flat)[k] = ix[k]
    <2>1. flat \div Rest(shape, k) = P[k]
        BY <1>1, <1>14
    <2> QED BY <1>11, <2>1 DEF Unravel, n
<1>17. Unravel(shape, flat) = ix
    <2>1. Unravel(shape, flat) = [k \in 1..n |-> Unravel(shape, flat)[k]]
        BY DEF Unravel, n
    <2>2. ix = [k \in 1..n |-> ix[k]]
        BY <1>3
    <2> QED BY <1>16, <2>1, <2>2
<1> QED BY <1>15, <1>17

-------------------------------------------------------------------------------
(* Dividing and taking remainders, as IndexToOffset does, names every index*)
(* of a shape, each at one position.                                       *)
THEOREM IndicesCountedOnce ==
    ASSUME NEW shape \in Shapes
    PROVE  /\ \A flat \in Positions(shape) : Unravel(shape, flat) \in Indices(shape)
           /\ \A a, b \in Positions(shape) : Unravel(shape, a) = Unravel(shape, b) => a = b
           /\ \A ix \in Indices(shape) :
                 \E flat \in Positions(shape) : Unravel(shape, flat) = ix
<1>1. \A flat \in Positions(shape) : Unravel(shape, flat) \in Indices(shape)
    BY UnravelIndex
<1>2. \A a, b \in Positions(shape) : Unravel(shape, a) = Unravel(shape, b) => a = b
    BY UnravelOnce
<1>3. \A ix \in Indices(shape) : \E flat \in Positions(shape) : Unravel(shape, flat) = ix
    BY UnravelAll
<1> QED BY <1>1, <1>2, <1>3

(* What a tensor's fields are.                                             *)
LEMMA WellFormedStrides ==
    ASSUME NEW t, WellFormed(t)
    PROVE  /\ t.shape \in Shapes /\ NDim(t) \in Nat /\ NDim(t) = Len(t.shape)
           /\ t.strides \in Seq(Int) /\ Len(t.strides) = Len(t.shape) /\ t.base \in Int
           /\ \A k \in 1..NDim(t) : t.strides[k] \in Int
BY LenProperties, ElementOfSeq DEF WellFormed, Shapes, NDim

(* IndexToOffset finds the element at the index of a position.             *)
LEMMA IndexToOffsetCell ==
    ASSUME NEW t, WellFormed(t), NEW flat \in Positions(t.shape)
    PROVE  At(t, IndexToOffset(flat, t.shape, t.strides)) = Cell(t, Unravel(t.shape, flat))
<1> DEFINE n == NDim(t)
           u == Unravel(t.shape, flat)
<1>1. /\ t.shape \in Shapes /\ n \in Nat /\ n = Len(t.shape)
      /\ t.strides \in Seq(Int) /\ Len(t.strides) = Len(t.shape)
      /\ \A k \in 1..n : t.strides[k] \in Int
    BY WellFormedStrides
<1>2. flat \in Nat
    BY <1>1, LeadingEnds
<1>3. u \in [1..n -> Int]
    BY <1>1, UnravelIndex
<1>4. PICK P \in [0..n -> Int] : Offsets(t, u, P) /\ Cell(t, u) = At(t, P[n])
    BY <1>3, CellOffset
<1>5. PICK Q : /\ Peels(flat, t.shape, t.strides, Q)
               /\ IndexToOffset(flat, t.shape, t.strides) = Q[1].offset
    BY <1>1, <1>2, PeelsDimensions DEF Shapes
<1> DEFINE S == {k \in 0..n : /\ Q[k + 1].rest = flat \div Rest(t.shape, k)
                              /\ Q[k + 1].offset = P[n] - P[k]}
<1>6. n \in S
    <2>1. Q[n + 1].rest = flat /\ Q[n + 1].offset = 0
        BY <1>1, <1>5 DEF Peels
    <2>2. flat \div Rest(t.shape, n) = flat
        BY <1>1, LeadingEnds
    <2>3. P[n] - P[n] = 0
        BY <1>1, <1>4
    <2> QED BY <1>1, <2>1, <2>2, <2>3
<1>7. ASSUME NEW k \in 1..n, k \in S PROVE k - 1 \in S
    <2>1. k - 1 \in 0..n /\ (k - 1) + 1 = k
        BY <1>1
    <2>2. Q[k] = Peeled(t.shape, t.strides, k, Q[k + 1])
        BY <1>1, <1>5 DEF Peels
    <2>3. Q[k + 1].rest = flat \div Rest(t.shape, k) /\ Q[k + 1].offset = P[n] - P[k]
        BY <1>7
    <2>4. Q[k].rest = flat \div Rest(t.shape, k - 1)
        <3>1. Q[k].rest = (flat \div Rest(t.shape, k)) \div t.shape[k]
            BY <2>2, <2>3 DEF Peeled
        <3> QED BY <1>1, <1>2, <3>1, Leading
    <2>5. Q[k].offset = (P[n] - P[k]) + (u[k] * t.strides[k])
        <3>1. u[k] = (flat \div Rest(t.shape, k)) % t.shape[k]
            BY <1>1 DEF Unravel
        <3> HIDE DEF u
        <3>2. Q[k].offset = (P[n] - P[k]) + (((flat \div Rest(t.shape, k)) % t.shape[k])
                                              * t.strides[k])
            BY <2>2, <2>3 DEF Peeled
        <3> QED BY <3>1, <3>2
    <2>6. P[k] = P[k - 1] + (u[k] * t.strides[k])
        BY <1>4 DEF Offsets
    <2>7. Q[k].offset = P[n] - P[k - 1]
        <3> DEFINE a == u[k] * t.strides[k]
        <3>1. a \in Int /\ P[n] \in Int /\ P[k] \in Int /\ P[k - 1] \in Int
            <4> HIDE DEF u, n
            <4>1. u[k] \in Int /\ t.strides[k] \in Int /\ n \in 0..n /\ k \in 0..n
                BY <1>1, <1>3
            <4>2. \A x, y \in Int : x * y \in Int
                OBVIOUS
            <4> QED BY <1>4, <2>1, <4>1, <4>2
        <3>2. Q[k].offset = (P[n] - P[k]) + a /\ P[k] = P[k - 1] + a
            BY <2>5, <2>6
        <3> HIDE DEF a
        <3> QED BY <3>1, <3>2
    <2> QED BY <2>1, <2>4, <2>7
<1> HIDE DEF S, n
<1>8. 0..n \subseteq S
    BY <1>1, <1>6, <1>7, DownFrom
<1>9. 0 \in 0..n /\ 0 + 1 = 1
    BY <1>1
<1>10. Q[1].offset = P[n] - P[0]
    BY <1>8, <1>9 DEF S
<1>11. P[n] - P[0] = P[n]
    <2>1. P[0] = 0 /\ P[n] \in Int
        BY <1>1, <1>4 DEF Offsets
    <2> QED BY <2>1
<1> QED BY <1>4, <1>5, <1>10, <1>11 DEF u

(* The strides of a contiguous tensor are row-major.                       *)
LEMMA ContiguousStrides ==
    ASSUME NEW t, WellFormed(t), IsContiguous(t)
    PROVE  \A k \in 1..NDim(t) : t.strides[k] = Rest(t.shape, k)
<1> DEFINE n == NDim(t)
           S == {k \in 0..n : k # 0 => t.strides[k] = Rest(t.shape, k)}
<1>1. t.shape \in Shapes /\ n \in Nat /\ n = Len(t.shape)
    BY WellFormedStrides
<1>2. n # 0 => /\ t.strides[n] = 1
               /\ \A k \in 1..(n - 1) : t.strides[k] = t.shape[k + 1] * t.strides[k + 1]
    <2>1. n # 0 => IsMergeable(t) /\ Stride(t, -1) = 1
        BY DEF IsContiguous
    <2>2. n + (-1) + 1 = n
        BY <1>1
    <2>3. n # 0 => Stride(t, -1) = t.strides[n]
        BY <1>1, <2>2 DEF Stride
    <2> QED BY <2>1, <2>3 DEF IsMergeable
<1>3. n \in S
    BY <1>1, <1>2, RestEnds
<1>4. ASSUME NEW k \in 1..n, k \in S PROVE k - 1 \in S
    <2>1. CASE k = 1
        BY <1>1, <2>1
    <2>2. CASE k # 1
        <3>1. k - 1 \in 1..(n - 1) /\ (k - 1) + 1 = k /\ n # 0 /\ k - 1 \in 0..n /\ k # 0
            BY <1>1, <2>2
        <3>2. t.strides[k - 1] = t.shape[k] * t.strides[k]
            BY <1>2, <3>1
        <3>3. t.strides[k] = Rest(t.shape, k)
            BY <1>4, <3>1
        <3>4. Rest(t.shape, k - 1) = t.shape[k] * Rest(t.shape, k)
            BY <1>1, RestStep
        <3> QED BY <3>1, <3>2, <3>3, <3>4
    <2> QED BY <2>1, <2>2
<1> HIDE DEF S, n
<1>5. 0..n \subseteq S
    BY <1>1, <1>3, <1>4, DownFrom
<1>6. \A k \in 1..n : k \in 0..n /\ k # 0
    BY <1>1
<1> QED BY <1>5, <1>6 DEF S, n

(* In a contiguous tensor a position is an offset.                         *)
LEMMA ContiguousCell ==
    ASSUME NEW t, WellFormed(t), IsContiguous(t), NEW flat \in Positions(t.shape)
    PROVE  At(t, flat) = Cell(t, Unravel(t.shape, flat))
<1> DEFINE n == NDim(t)
           u == Unravel(t.shape, flat)
           q(k) == flat \div Rest(t.shape, k)
<1>1. t.shape \in Shapes /\ n \in Nat /\ n = Len(t.shape)
    BY WellFormedStrides
<1>2. flat \in Nat /\ q(0) = 0 /\ q(n) = flat /\ Rest(t.shape, n) = 1
    BY <1>1, LeadingEnds, RestEnds
<1>3. u \in [1..n -> Int]
    BY <1>1, UnravelIndex
<1>4. PICK P \in [0..n -> Int] : Offsets(t, u, P) /\ Cell(t, u) = At(t, P[n])
    BY <1>3, CellOffset
<1>5. \A k \in 0..n : Rest(t.shape, k) \in Nat
    BY <1>1, RestPositive
<1> DEFINE S == {k \in 0..n : P[k] = Rest(t.shape, k) * q(k)}
<1>6. 0 \in S
    <2>1. P[0] = 0 /\ 0 \in 0..n
        BY <1>1, <1>4 DEF Offsets
    <2>2. Rest(t.shape, 0) * q(0) = 0
        <3>1. \A x \in Nat : x * 0 = 0
            OBVIOUS
        <3>2. Rest(t.shape, 0) \in Nat
            BY <1>5, <2>1
        <3> QED BY <1>2, <3>1, <3>2
    <2> QED BY <2>1, <2>2
<1>7. ASSUME NEW k \in 0..(n - 1), k \in S PROVE k + 1 \in S
    <2> DEFINE R == Rest(t.shape, k + 1)
               m == t.shape[k + 1]
    <2>1. k + 1 \in 1..n /\ (k + 1) - 1 = k /\ k + 1 \in 0..n
        BY <1>1
    <2>2. P[k + 1] = P[k] + (u[k + 1] * R)
        BY <1>4, <2>1, ContiguousStrides DEF Offsets
    <2>3. P[k] = Rest(t.shape, k) * q(k)
        BY <1>7
    <2>4. Rest(t.shape, k) = m * R
        BY <1>1, <2>1, RestStep
    <2>5. q(k + 1) = (m * q(k)) + u[k + 1]
        <3>1. flat \div Rest(t.shape, k + 1)
                = t.shape[k + 1] * (flat \div Rest(t.shape, (k + 1) - 1))
                  + Unravel(t.shape, flat)[k + 1]
            BY <1>1, <1>2, <2>1, Leading
        <3> QED BY <2>1, <3>1
    <2>6. R \in Nat /\ m \in Nat /\ u[k + 1] \in Int
        BY <1>1, <1>3, <1>5, <2>1, ShapeSizes
    <2>7. q(k) \in Nat
        <3>1. CASE k = 0
            BY <1>2, <3>1
        <3>2. CASE k # 0
            <4>1. k \in 1..n
                BY <1>1, <3>2
            <4> QED BY <1>1, <1>2, <4>1, Leading
        <3> QED BY <3>1, <3>2
    <2> HIDE DEF R, m, q, u
    <2>8. P[k + 1] = ((m * R) * q(k)) + (u[k + 1] * R)
        BY <2>2, <2>3, <2>4
    <2>9. ((m * R) * q(k)) + (u[k + 1] * R) = R * ((m * q(k)) + u[k + 1])
        BY <2>6, <2>7
    <2> QED BY <2>1, <2>5, <2>8, <2>9 DEF R
<1> HIDE DEF S, n, q
<1>8. 0..n \subseteq S
    BY <1>1, <1>6, <1>7, UpTo
<1>9. n \in 0..n
    BY <1>1
<1>10. P[n] = 1 * flat
    BY <1>2, <1>8, <1>9 DEF S
<1> QED BY <1>2, <1>4, <1>10 DEF u

(* The element of position flat, as the kernels address it: directly, or   *)
(* through IndexToOffset, it is the one the strides give its index.        *)
THEOREM ElementCell ==
    ASSUME NEW t, WellFormed(t), NEW flat \in Positions(t.shape)
    PROVE  Element(t, flat) = Cell(t, Unravel(t.shape, flat))
BY IndexToOffsetCell, ContiguousCell DEF Element

-------------------------------------------------------------------------------
(* The elements of a tensor are those of its positions.                    *)
LEMMA TensorElements ==
    ASSUME NEW t, WellFormed(t)
    PROVE  /\ Cells(t) = {Element(t, i) : i \in Positions(t.shape)}
           /\ DistinctElements(t) =>
                 \A i, j \in Positions(t.shape) : Element(t, i) = Element(t, j) => i = j
<1>1. t.shape \in Shapes
    BY WellFormedStrides
<1>2. \A i \in Positions(t.shape) : /\ Element(t, i) = Cell(t, Unravel(t.shape, i))
                                    /\ Unravel(t.shape, i) \in Indices(t.shape)
    BY <1>1, ElementCell, UnravelIndex
<1>3. \A ix \in Indices(t.shape) : \E i \in Positions(t.shape) : Unravel(t.shape, i) = ix
    BY <1>1, UnravelAll
<1>4. Cells(t) = {Element(t, i) : i \in Positions(t.shape)}
    BY <1>2, <1>3 DEF Cells
<1>5. ASSUME DistinctElements(t), NEW i \in Positions(t.shape), NEW j \in Positions(t.shape),
             Element(t, i) = Element(t, j)
      PROVE  i = j
    <2>1. Unravel(t.shape, i) = Unravel(t.shape, j)
        BY <1>2, <1>5 DEF DistinctElements
    <2> QED BY <1>1, <2>1, UnravelOnce
<1> QED BY <1>4, <1>5

(* In a reference, each element of a tensor has what its index names.      *)
LEMMA OneIndex ==
    ASSUME NEW t, DistinctElements(t), NEW ix \in Indices(t.shape)
    PROVE  {x \in Indices(t.shape) : Cell(t, x) = Cell(t, ix)} = {ix}
BY DEF DistinctElements

(* Element i of the output is computed from the elements i of the inputs.  *)
LEMMA ElementwiseByElements ==
    ASSUME NEW ins, NEW out, SameShapes(ins, out), DistinctElements(out)
    PROVE  LET from == ElementwiseFrom(ins, out)
               elements == Positions(out.shape)
           IN  /\ DOMAIN from = Cells(out)
               /\ \A i \in elements :
                     /\ Element(out, i) \in Cells(out)
                     /\ \A t \in ins : Element(t, i) \in Cells(t)
                     /\ from[Element(out, i)] = {Element(t, i) : t \in ins}
<1> DEFINE from == ElementwiseFrom(ins, out)
           ixs == Indices(out.shape)
           From(ix) == {Cell(t, ix) : t \in ins}
<1>1. from = [c \in Cells(out) |-> UNION {From(ix) : ix \in {x \in ixs : Cell(out, x) = c}}]
    BY DEF ElementwiseFrom, Elementwise
<1> HIDE DEF from, ixs
<1>2. DOMAIN from = Cells(out)
    BY <1>1
<1>3. ASSUME NEW i \in Positions(out.shape)
      PROVE  /\ Element(out, i) \in Cells(out)
             /\ \A t \in ins : Element(t, i) \in Cells(t)
             /\ from[Element(out, i)] = {Element(t, i) : t \in ins}
    <2> DEFINE u == Unravel(out.shape, i)
    <2>1. WellFormed(out) /\ out.shape \in Shapes
        BY WellFormedStrides DEF SameShapes
    <2>2. u \in ixs
        BY <2>1, UnravelIndex DEF ixs
    <2>3. Element(out, i) = Cell(out, u)
        BY <2>1, ElementCell
    <2>4. ASSUME NEW t \in ins
          PROVE  Element(t, i) = Cell(t, u) /\ Element(t, i) \in Cells(t)
        <3>1. WellFormed(t) /\ t.shape = out.shape
            BY DEF SameShapes
        <3>2. i \in Positions(t.shape)
            BY <3>1
        <3>3. Element(t, i) = Cell(t, u)
            BY <3>1, <3>2, ElementCell
        <3>4. Element(t, i) \in Cells(t)
            BY <3>1, <3>2, TensorElements
        <3> QED BY <3>3, <3>4
    <2>5. Element(out, i) \in Cells(out)
        BY <2>1, TensorElements
    <2>6. {x \in ixs : Cell(out, x) = Cell(out, u)} = {u}
        BY <2>2, OneIndex DEF ixs
    <2> HIDE DEF u, From
    <2>7. from[Element(out, i)] = UNION {From(ix) : ix \in {u}}
        BY <1>1, <2>3, <2>5, <2>6
    <2>8. UNION {From(ix) : ix \in {u}} = From(u)
        OBVIOUS
    <2>9. From(u) = {Element(t, i) : t \in ins}
        BY <2>4 DEF From
    <2> QED BY <2>4, <2>5, <2>7, <2>8, <2>9
<1> QED BY <1>2, <1>3 DEF from

-------------------------------------------------------------------------------
(* An index within the sizes is an index of the shape.                     *)
LEMMA WithinSizes ==
    ASSUME NEW shape \in Shapes, NEW ix \in [1..Len(shape) -> Nat],
           \A d \in 1..Len(shape) : ix[d] < shape[d]
    PROVE  ix \in Indices(shape)
<1> DEFINE n == Len(shape)
           S == {k \in 0..n : Rest(shape, k) <= Rest(shape, 0)}
<1>1. /\ n \in Nat /\ DOMAIN shape = 1..n
      /\ \A k \in 1..n : shape[k] \in Nat \ {0}
      /\ \A k \in 0..n : Rest(shape, k) \in Nat \ {0}
      /\ Rest(shape, 0) = Product(shape)
    BY ShapeSizes, RestEnds, RestPositive
<1>2. \A a, b \in Nat \ {0} : b <= a * b /\ a <= a * b
    <2> TAKE a, b \in Nat \ {0}
    <2>1. (a - 1) * b >= 0 /\ (b - 1) * a >= 0
        BY LessTimes
    <2>2. (a - 1) * b = a * b - b /\ (b - 1) * a = a * b - a
        OBVIOUS
    <2>3. \A c, d \in Int : c - d >= 0 => d <= c
        OBVIOUS
    <2>4. a * b \in Int /\ a * b - b >= 0 /\ a * b - a >= 0
        BY <2>1, <2>2
    <2> QED BY <2>3, <2>4
<1>3. \A k \in 1..n : Rest(shape, k) <= Rest(shape, k - 1) /\ shape[k] <= Rest(shape, k - 1)
    <2> TAKE k \in 1..n
    <2>1. Rest(shape, k - 1) = shape[k] * Rest(shape, k)
        BY RestStep
    <2>2. k \in 0..n
        BY <1>1
    <2> QED BY <1>1, <1>2, <2>1, <2>2
<1> HIDE DEF n
<1>4. 0 \in S
    BY <1>1
<1>5. ASSUME NEW k \in 0..(n - 1), k \in S PROVE k + 1 \in S
    <2>1. k + 1 \in 1..n /\ (k + 1) - 1 = k /\ k + 1 \in 0..n /\ 0 \in 0..n
        BY <1>1
    <2>2. Rest(shape, k + 1) <= Rest(shape, k)
        BY <1>3, <2>1
    <2> QED BY <1>1, <1>5, <2>1, <2>2
<1> HIDE DEF S
<1>6. 0..n \subseteq S
    BY <1>1, <1>4, <1>5, UpTo
<1>7. ASSUME NEW d \in 1..n PROVE ix[d] \in 0..(Product(shape) - 1)
    <2>1. d - 1 \in 0..n
        BY <1>1
    <2>2. Rest(shape, d - 1) <= Product(shape) /\ shape[d] <= Rest(shape, d - 1)
        BY <1>1, <1>3, <1>6, <2>1 DEF S
    <2>3. ix[d] \in Nat /\ ix[d] < shape[d]
        BY DEF n
    <2> QED BY <1>1, <2>1, <2>2, <2>3
<1>8. ix \in [1..n -> 0..(Product(shape) - 1)]
    <2>1. ix \in [1..n -> Nat]
        BY DEF n
    <2> QED BY <1>7, <2>1
<1>9. \A d \in 1..n : ix[d] < shape[d]
    BY DEF n
<1> QED BY <1>1, <1>8, <1>9 DEF Indices

(* The entries of an index are within the sizes.                           *)
LEMMA IndexEntries ==
    ASSUME NEW shape \in Shapes, NEW ix \in Indices(shape)
    PROVE  /\ ix \in [1..Len(shape) -> Nat]
           /\ \A d \in 1..Len(shape) : ix[d] \in 0..(shape[d] - 1)
<1>1. /\ DOMAIN shape = 1..Len(shape) /\ \A k \in 1..Len(shape) : shape[k] \in Nat
    BY ShapeSizes
<1>2. /\ ix \in [DOMAIN shape -> 0..(Product(shape) - 1)]
      /\ \A d \in DOMAIN shape : ix[d] < shape[d]
    BY DEF Indices
<1>3. Product(shape) \in Nat
    <2>1. 0 \in 0..Len(shape)
        BY ShapeSizes
    <2> QED BY <2>1, RestPositive, RestEnds
<1>4. ix \in [1..Len(shape) -> Nat]
    <2>1. 0..(Product(shape) - 1) \subseteq Nat
        BY <1>3
    <2> QED BY <1>1, <1>2, <2>1
<1>5. ASSUME NEW d \in 1..Len(shape) PROVE ix[d] \in 0..(shape[d] - 1)
    <2>1. ix[d] \in Nat /\ shape[d] \in Nat /\ ix[d] < shape[d]
        BY <1>1, <1>2, <1>4
    <2> QED BY <2>1
<1> QED BY <1>4, <1>5

(* The elements of vectors, matrices and batches of matrices.              *)
LEMMA VectorCell ==
    ASSUME NEW t, WellFormed(t), NDim(t) = 1, NEW x \in Int
    PROVE  Cell(t, <<x>>) = At(t, x * t.strides[1])
<1> DEFINE ix == <<x>>
<1>1. ix \in [1..NDim(t) -> Int] /\ ix[1] = x
    OBVIOUS
<1>2. \A k \in 1..1 : t.strides[k] \in Int
    BY WellFormedStrides
<1> HIDE DEF ix
<1>3. PICK P \in [0..NDim(t) -> Int] : Offsets(t, ix, P) /\ Cell(t, ix) = At(t, P[NDim(t)])
    BY <1>1, CellOffset
<1>4. P[0] = 0 /\ P[1] = P[1 - 1] + ix[1] * t.strides[1]
    BY <1>3 DEF Offsets
<1>5. P[1] = ix[1] * t.strides[1]
    BY <1>2, <1>4, <1>1
<1> QED BY <1>1, <1>3, <1>5 DEF ix

(* The address of an element of a matrix.                                  *)
LEMMA MatrixElement ==
    ASSUME NEW t, WellFormed(t), NDim(t) = 2, NEW x \in Int, NEW y \in Int
    PROVE  Cell(t, <<x, y>>) = At(t, x * t.strides[1] + y * t.strides[2])
<1> DEFINE ix == <<x, y>>
<1>1. ix \in [1..NDim(t) -> Int] /\ ix[1] = x /\ ix[2] = y
    OBVIOUS
<1>2. \A k \in 1..2 : t.strides[k] \in Int
    BY WellFormedStrides
<1> HIDE DEF ix
<1>3. PICK P \in [0..NDim(t) -> Int] : Offsets(t, ix, P) /\ Cell(t, ix) = At(t, P[NDim(t)])
    BY <1>1, CellOffset
<1>4. /\ P[0] = 0 /\ P[1] = P[1 - 1] + ix[1] * t.strides[1]
      /\ P[2] = P[2 - 1] + ix[2] * t.strides[2]
    BY <1>3 DEF Offsets
<1>5. P[2] = ix[1] * t.strides[1] + ix[2] * t.strides[2]
    BY <1>1, <1>2, <1>4
<1> QED BY <1>1, <1>3, <1>5 DEF ix

(* The address of an element of a batch of matrices.                       *)
LEMMA BatchElement ==
    ASSUME NEW t, WellFormed(t), NDim(t) = 3, NEW x \in Int, NEW y \in Int, NEW z \in Int
    PROVE  Cell(t, <<x, y, z>>)
             = At(t, x * t.strides[1] + y * t.strides[2] + z * t.strides[3])
<1> DEFINE ix == <<x, y, z>>
<1>1. ix \in [1..NDim(t) -> Int] /\ ix[1] = x /\ ix[2] = y /\ ix[3] = z
    OBVIOUS
<1>2. \A k \in 1..3 : t.strides[k] \in Int
    BY WellFormedStrides
<1> HIDE DEF ix
<1>3. PICK P \in [0..NDim(t) -> Int] : Offsets(t, ix, P) /\ Cell(t, ix) = At(t, P[NDim(t)])
    BY <1>1, CellOffset
<1>4. /\ P[0] = 0 /\ P[1] = P[1 - 1] + ix[1] * t.strides[1]
      /\ P[2] = P[2 - 1] + ix[2] * t.strides[2]
      /\ P[3] = P[3 - 1] + ix[3] * t.strides[3]
    BY <1>3 DEF Offsets
<1>5. P[3] = ix[1] * t.strides[1] + ix[2] * t.strides[2] + ix[3] * t.strides[3]
    BY <1>1, <1>2, <1>4
<1> QED BY <1>1, <1>3, <1>5 DEF ix

(* And their indices.                                                      *)
LEMMA VectorIndices ==
    ASSUME NEW shape \in Shapes, Len(shape) = 1
    PROVE  \A x \in 0..(shape[1] - 1) : <<x>> \in Indices(shape)
<1>1. shape[1] \in Nat \ {0}
    BY ShapeSizes
<1> TAKE x \in 0..(shape[1] - 1)
<1>2. <<x>> \in [1..Len(shape) -> Nat] /\ \A d \in 1..Len(shape) : <<x>>[d] < shape[d]
    BY <1>1
<1> QED BY <1>2, WithinSizes

(* The indices of a matrix.                                                *)
LEMMA MatrixIndices ==
    ASSUME NEW shape \in Shapes, Len(shape) = 2
    PROVE  /\ \A x \in 0..(shape[1] - 1), y \in 0..(shape[2] - 1) : <<x, y>> \in Indices(shape)
           /\ \A ix \in Indices(shape) :
                 /\ ix = <<ix[1], ix[2]>>
                 /\ ix[1] \in 0..(shape[1] - 1) /\ ix[2] \in 0..(shape[2] - 1)
<1>1. shape[1] \in Nat \ {0} /\ shape[2] \in Nat \ {0}
    BY ShapeSizes
<1>2. ASSUME NEW x \in 0..(shape[1] - 1), NEW y \in 0..(shape[2] - 1)
      PROVE  <<x, y>> \in Indices(shape)
    <2>1. <<x, y>> \in [1..Len(shape) -> Nat]
        BY <1>1
    <2>2. \A d \in 1..Len(shape) : <<x, y>>[d] < shape[d]
        BY <1>1
    <2> QED BY <2>1, <2>2, WithinSizes
<1>3. ASSUME NEW ix \in Indices(shape)
      PROVE  /\ ix = <<ix[1], ix[2]>>
             /\ ix[1] \in 0..(shape[1] - 1) /\ ix[2] \in 0..(shape[2] - 1)
    <2>1. /\ ix \in [1..2 -> Nat]
          /\ \A d \in 1..2 : ix[d] \in 0..(shape[d] - 1)
        BY IndexEntries
    <2>2. ix = <<ix[1], ix[2]>>
        BY <2>1
    <2> QED BY <2>1, <2>2
<1> QED BY <1>2, <1>3

(* The indices of a batch of matrices.                                     *)
LEMMA BatchIndices ==
    ASSUME NEW shape \in Shapes, Len(shape) = 3
    PROVE  /\ \A x \in 0..(shape[1] - 1), y \in 0..(shape[2] - 1), z \in 0..(shape[3] - 1) :
                 <<x, y, z>> \in Indices(shape)
           /\ \A ix \in Indices(shape) :
                 /\ ix = <<ix[1], ix[2], ix[3]>>
                 /\ ix[1] \in 0..(shape[1] - 1) /\ ix[2] \in 0..(shape[2] - 1)
                 /\ ix[3] \in 0..(shape[3] - 1)
<1>1. shape[1] \in Nat \ {0} /\ shape[2] \in Nat \ {0} /\ shape[3] \in Nat \ {0}
    BY ShapeSizes
<1>2. ASSUME NEW x \in 0..(shape[1] - 1), NEW y \in 0..(shape[2] - 1),
             NEW z \in 0..(shape[3] - 1)
      PROVE  <<x, y, z>> \in Indices(shape)
    <2>1. <<x, y, z>> \in [1..Len(shape) -> Nat]
        BY <1>1
    <2>2. \A d \in 1..Len(shape) : <<x, y, z>>[d] < shape[d]
        BY <1>1
    <2> QED BY <2>1, <2>2, WithinSizes
<1>3. ASSUME NEW ix \in Indices(shape)
      PROVE  /\ ix = <<ix[1], ix[2], ix[3]>>
             /\ ix[1] \in 0..(shape[1] - 1) /\ ix[2] \in 0..(shape[2] - 1)
             /\ ix[3] \in 0..(shape[3] - 1)
    <2>1. /\ ix \in [1..3 -> Nat]
          /\ \A d \in 1..3 : ix[d] \in 0..(shape[d] - 1)
        BY IndexEntries
    <2>2. ix = <<ix[1], ix[2], ix[3]>>
        BY <2>1
    <2> QED BY <2>1, <2>2
<1> QED BY <1>2, <1>3

-------------------------------------------------------------------------------
(* Of a dense tensor, a position is the place in the buffer, and no two    *)
(* elements share one.                                                     *)
THEOREM DenseElements ==
    ASSUME NEW t, WellFormed(t), DenseTensor(t)
    PROVE  /\ DistinctElements(t)
           /\ Cells(t) = {t.buffer} \X (0..(Numel(t) - 1))
           /\ \A i \in Positions(t.shape) : Cell(t, Unravel(t.shape, i)) = <<t.buffer, i>>
<1>1. t.shape \in Shapes
    BY WellFormedStrides
<1>2. \A i \in Positions(t.shape) : i \in Nat
    BY <1>1, LeadingEnds
<1>3. ASSUME NEW i \in Positions(t.shape)
      PROVE  Cell(t, Unravel(t.shape, i)) = <<t.buffer, i>> /\ Element(t, i) = <<t.buffer, i>>
    <2>1. At(t, i) = Cell(t, Unravel(t.shape, i))
        BY ContiguousCell DEF DenseTensor
    <2>2. Element(t, i) = At(t, i)
        BY DEF Element, DenseTensor
    <2>3. At(t, i) = <<t.buffer, i>>
        <3>1. 0 + i = i
            BY <1>2
        <3> QED BY <3>1 DEF At, DenseTensor
    <2> QED BY <2>1, <2>2, <2>3
<1>4. Cells(t) = {t.buffer} \X Positions(t.shape)
    <2>1. Cells(t) = {Element(t, i) : i \in Positions(t.shape)}
        BY TensorElements
    <2>2. {Element(t, i) : i \in Positions(t.shape)} = {<<t.buffer, i>> : i \in Positions(t.shape)}
        BY <1>3
    <2>3. {<<t.buffer, i>> : i \in Positions(t.shape)} = {t.buffer} \X Positions(t.shape)
        OBVIOUS
    <2> QED BY <2>1, <2>2, <2>3
<1>5. ASSUME NEW x \in Indices(t.shape), NEW y \in Indices(t.shape), Cell(t, x) = Cell(t, y)
      PROVE  x = y
    <2>1. PICK i \in Positions(t.shape) : Unravel(t.shape, i) = x
        BY <1>1, UnravelAll
    <2>2. PICK j \in Positions(t.shape) : Unravel(t.shape, j) = y
        BY <1>1, UnravelAll
    <2>3. <<t.buffer, i>> = <<t.buffer, j>>
        BY <1>3, <1>5, <2>1, <2>2
    <2>4. i = j
        BY ONLY <2>3, Zenon
    <2> QED BY <2>1, <2>2, <2>4
<1> QED BY <1>3, <1>4, <1>5 DEF DistinctElements, Positions, Numel
===============================================================================
