------------------------- MODULE AscendCustomProofs --------------------------
(***************************************************************************)
(* Proofs about the custom AscendC kernels and their launchers, for any    *)
(* number of rows and cores and any dimension.  The tiling arithmetic:     *)
(* every row goes to one core, padding is exact, and what passes the       *)
(* capacity check fits the unified buffer.  The kernels: the queues and    *)
(* the split of rows order what conflicts, and each row of the results is  *)
(* computed from its own row.                                              *)
(***************************************************************************)
EXTENDS KernelLaunchProofs, AscendCustom

-------------------------------------------------------------------------------
(* The split: at least one core takes a longer share, no more than there   *)
(* are, and the shares add up to the rows.                                 *)
LEMMA Shares ==
    ASSUME NEW rows \in Nat \ {0}, NEW cores \in Nat \ {0}
    PROVE  LET U == UsedCores(rows, cores)
               N == FormerNum(rows, cores)
               T == TailLength(rows, cores)
           IN  /\ U \in Nat \ {0} /\ N \in Nat \ {0} /\ T \in Nat
               /\ N <= U
               /\ FormerLength(rows, cores) = T + 1
               /\ T * U + N = rows
<1> DEFINE U == UsedCores(rows, cores)
           F == FormerLength(rows, cores)
           N == FormerNum(rows, cores)
           T == TailLength(rows, cores)
<1>1. U \in Nat \ {0} /\ U <= rows
  BY DEF UsedCores
<1> HIDE DEF U
<1>2. F = (rows + U - 1) \div U
  BY DEF FormerLength, U
<1>3. /\ F \in Nat
      /\ U * F <= rows + U - 1
      /\ rows + U - 1 < U * F + U
  BY <1>1, <1>2, Quotient
<1>4. F # 0
  BY <1>1, <1>3
<1>5. T = F - 1 /\ N = rows - T * U
  BY DEF TailLength, FormerNum, U
<1> HIDE DEF F, T, N
<1>6. T \in Nat /\ F = T + 1
  BY <1>3, <1>4, <1>5
<1>7. U * F = T * U + U /\ T * U \in Nat
  BY <1>1, <1>6
<1>8. N \in Nat \ {0} /\ N <= U /\ T * U + N = rows
  BY <1>1, <1>3, <1>5, <1>7
<1> QED BY <1>1, <1>6, <1>8 DEF U, F, T, N

(* Where a core's rows begin: the tail length times the cores before it,   *)
(* and one row for each longer share among them.                           *)
LEMMA Offset ==
    ASSUME NEW rows \in Nat \ {0}, NEW cores \in Nat \ {0}, NEW c \in Nat
    PROVE  LET N == FormerNum(rows, cores)
               T == TailLength(rows, cores)
           IN  /\ RowOffset(rows, cores, c) = T * c + (IF c < N THEN c ELSE N)
               /\ BlockRows(rows, cores, c) = T + (IF c < N THEN 1 ELSE 0)
<1> DEFINE N == FormerNum(rows, cores)
           T == TailLength(rows, cores)
           F == FormerLength(rows, cores)
<1>1. N \in Nat \ {0} /\ T \in Nat /\ F = T + 1
  BY Shares
<1>2. /\ RowOffset(rows, cores, c) = IF c < N THEN F * c ELSE F * N + T * (c - N)
      /\ BlockRows(rows, cores, c) = IF c < N THEN F ELSE T
  BY DEF RowOffset, BlockRows
<1> HIDE DEF N, T, F
<1>3. F * c = T * c + c /\ F * N = T * N + N
  BY <1>1
<1>4. T * (c - N) = T * c - T * N
  BY <1>1
<1>5. T * c \in Nat /\ T * N \in Nat
  BY <1>1
<1>6. RowOffset(rows, cores, c) = T * c + (IF c < N THEN c ELSE N)
  BY <1>1, <1>2, <1>3, <1>4, <1>5
<1>7. BlockRows(rows, cores, c) = T + (IF c < N THEN 1 ELSE 0)
  BY <1>1, <1>2
<1> QED BY <1>6, <1>7 DEF N, T, F

-------------------------------------------------------------------------------
Cores(rows, cores) == 0..(UsedCores(rows, cores) - 1)

\* Core c normalises row r.
Takes(rows, cores, c, r) ==
    /\ RowOffset(rows, cores, c) <= r
    /\ r < RowOffset(rows, cores, c) + BlockRows(rows, cores, c)

(* No row is left out (KernelRmsNorm::Init with the launchers' tiling):    *)
(* each one is taken by some core.                                         *)
THEOREM EveryRowTaken ==
    ASSUME NEW rows \in Nat \ {0}, NEW cores \in Nat \ {0}, NEW r \in 0..(rows - 1)
    PROVE  \E c \in Cores(rows, cores) : Takes(rows, cores, c, r)
<1> DEFINE U == UsedCores(rows, cores)
           N == FormerNum(rows, cores)
           T == TailLength(rows, cores)
<1>1. /\ U \in Nat \ {0} /\ N \in Nat \ {0} /\ T \in Nat
      /\ N <= U /\ T * U + N = rows
  BY Shares
<1>2. \A c \in Nat :
        /\ RowOffset(rows, cores, c) = T * c + (IF c < N THEN c ELSE N)
        /\ BlockRows(rows, cores, c) = T + (IF c < N THEN 1 ELSE 0)
  BY Offset
<1> HIDE DEF N, T
<1>3. CASE r < (T + 1) * N
  <2> DEFINE c == r \div (T + 1)
  <2>0. T + 1 \in Nat \ {0} /\ r \in Nat
    BY <1>1
  <2>1. /\ c \in Nat
        /\ (T + 1) * c <= r /\ r < (T + 1) * c + (T + 1)
    BY <2>0, Quotient
  <2> HIDE DEF c
  <2>2. (T + 1) * c \in Nat /\ (T + 1) * N \in Nat /\ (T + 1) * c < (T + 1) * N
    BY <1>1, <1>3, <2>1
  <2>3. c < N
    BY <1>1, <2>1, <2>2, LessFactor
  <2>4. (T + 1) * c = T * c + c /\ T * c \in Nat
    BY <1>1, <2>1
  <2>5. Takes(rows, cores, c, r)
    BY <1>1, <1>2, <2>1, <2>3, <2>4 DEF Takes
  <2> QED BY <1>1, <2>1, <2>3, <2>5 DEF Cores
<1>4. CASE (T + 1) * N <= r
  <2> DEFINE rest == r - (T + 1) * N
  <2>1. (T + 1) * N = T * N + N /\ T * N \in Nat /\ T * U \in Nat
    BY <1>1
  <2>2. rest \in Nat /\ rest < T * U - T * N
    BY <1>1, <1>4, <2>1
  <2>3. T # 0
    <3>1. T = 0 => T * U = 0 /\ T * N = 0
      BY <1>1
    <3> QED BY <2>2, <3>1
  <2>4. /\ rest \div T \in Nat
        /\ T * (rest \div T) <= rest /\ rest < T * (rest \div T) + T
    BY <1>1, <2>2, <2>3, Quotient
  <2>5. PICK q \in Nat : q = rest \div T
    BY <2>4
  <2>6. T * (N + q) = T * N + T * q /\ T * q \in Nat
    BY <1>1, <2>5
  <2>7. T * (N + q) < T * U
    BY <1>1, <2>1, <2>2, <2>4, <2>5, <2>6
  <2>8. N + q < U
    BY <1>1, <2>5, <2>7, LessFactor
  <2>9. /\ RowOffset(rows, cores, N + q) = T * (N + q) + N
        /\ BlockRows(rows, cores, N + q) = T
    <3>1. N + q \in Nat /\ ~(N + q < N)
      BY <1>1, <2>5
    <3>2. T + 0 = T
      BY <1>1
    <3> HIDE DEF rest
    <3> QED BY <1>2, <3>1, <3>2
  <2>10. r = rest + T * N + N
    BY <1>1, <2>1
  <2> HIDE DEF rest
  <2>11. Takes(rows, cores, N + q, r)
    BY <1>1, <2>1, <2>2, <2>4, <2>5, <2>6, <2>9, <2>10 DEF Takes
  <2> QED BY <1>1, <2>5, <2>8, <2>11 DEF Cores
<1>5. (T + 1) * N \in Nat
  BY <1>1
<1> QED BY <1>3, <1>4, <1>5

(* No row is normalised by two cores, which would race for it.             *)
THEOREM NoRowTakenTwice ==
    ASSUME NEW rows \in Nat \ {0}, NEW cores \in Nat \ {0}, NEW r \in 0..(rows - 1),
           NEW c \in Cores(rows, cores), NEW d \in Cores(rows, cores),
           Takes(rows, cores, c, r), Takes(rows, cores, d, r)
    PROVE  c = d
<1> DEFINE N == FormerNum(rows, cores)
           T == TailLength(rows, cores)
<1>1. UsedCores(rows, cores) \in Nat \ {0} /\ N \in Nat \ {0} /\ T \in Nat
  BY Shares
<1>2. c \in Nat /\ d \in Nat
  BY <1>1 DEF Cores
<1>3. \A e \in Nat :
        /\ RowOffset(rows, cores, e) = T * e + (IF e < N THEN e ELSE N)
        /\ BlockRows(rows, cores, e) = T + (IF e < N THEN 1 ELSE 0)
  BY Offset
<1> HIDE DEF N, T
<1>4. ASSUME NEW e \in Nat, NEW f \in Nat, e < f,
             Takes(rows, cores, e, r), Takes(rows, cores, f, r)
      PROVE  FALSE
  <2>1. T * e + T <= T * f
    BY <1>1, <1>4, LessTimes
  <2>2. T * e \in Nat /\ T * f \in Nat
    BY <1>1
  <2>3. r < T * e + (IF e < N THEN e ELSE N) + (T + (IF e < N THEN 1 ELSE 0))
    BY <1>3, <1>4 DEF Takes
  <2>4. T * f + (IF f < N THEN f ELSE N) <= r
    BY <1>3, <1>4 DEF Takes
  <2> QED BY <1>1, <1>4, <2>1, <2>2, <2>3, <2>4
<1> QED BY <1>2, <1>4

(* A core stays within the rows there are: its global buffers, which       *)
(* SetGlobalBuffer cuts out of the tensors, end with the tensors.          *)
THEOREM CoresStayInside ==
    ASSUME NEW rows \in Nat \ {0}, NEW cores \in Nat \ {0}, NEW c \in Cores(rows, cores)
    PROVE  RowOffset(rows, cores, c) + BlockRows(rows, cores, c) <= rows
<1> DEFINE U == UsedCores(rows, cores)
           N == FormerNum(rows, cores)
           T == TailLength(rows, cores)
<1>1. /\ U \in Nat \ {0} /\ N \in Nat \ {0} /\ T \in Nat
      /\ N <= U /\ T * U + N = rows
  BY Shares
<1>2. c \in Nat /\ c < U
  BY <1>1 DEF Cores
<1>3. /\ RowOffset(rows, cores, c) = T * c + (IF c < N THEN c ELSE N)
      /\ BlockRows(rows, cores, c) = T + (IF c < N THEN 1 ELSE 0)
  BY <1>2, Offset
<1> HIDE DEF N, T, U
<1>4. T * c + T <= T * U
  BY <1>1, <1>2, LessTimes
<1>5. T * c \in Nat /\ T * U \in Nat
  BY <1>1, <1>2
<1> QED BY <1>1, <1>2, <1>3, <1>4, <1>5

-------------------------------------------------------------------------------
(* Padding gives whole blocks, keeps every element and adds less than one  *)
(* block.                                                                  *)
THEOREM PaddingExact ==
    ASSUME NEW dim \in Nat, NEW align \in Nat \ {0}
    PROVE  /\ \E blocks \in Nat : DimAlign(dim, align) = blocks * align
           /\ dim <= DimAlign(dim, align)
           /\ DimAlign(dim, align) < dim + align
<1> DEFINE q == (dim + align - 1) \div align
<1>1. q \in Nat /\ align * q <= dim + align - 1 /\ dim + align - 1 < align * q + align
  BY Quotient
<1>2. DimAlign(dim, align) = q * align
  BY DEF DimAlign
<1> HIDE DEF q
<1>3. align * q = q * align /\ q * align \in Nat
  BY <1>1
<1> QED BY <1>1, <1>2, <1>3

(* The memory ReduceSum is given stays within the 1024 bytes the capacity  *)
(* check sets aside, up to this dimension.                                 *)
LEMMA ReduceTmpBounded ==
    ASSUME NEW d \in Nat, d <= 15872
    PROVE  ReduceTmpBytes(d) \in Nat /\ ReduceTmpBytes(d) <= 992
BY SMT DEF ReduceTmpBytes

(* The torch launchers' capacity check leaves 1024 bytes beside k bytes for *)
(* each element of a row.                                                  *)
LEMMA MaxDimBounded ==
    ASSUME NEW ub \in Nat, NEW k \in {20, 28, 36}, NEW d \in Nat,
           d <= MaxDimLength(ub, k)
    PROVE  k * d + 1024 <= ub
BY SMT DEF MaxDimLength

(* A dimension that passes the torch launcher's check fits the unified     *)
(* buffer with everything KernelRmsNorm::Init allocates, half precision or *)
(* float, on devices with up to 311 KB of it.                              *)
THEOREM RmsNormBuffersFit ==
    ASSUME NEW ub \in Nat, ub <= 318464, NEW d \in Nat, RmsNormFits(d, ub),
           NEW size \in {2, 4}
    PROVE  RmsNormBufferBytes(d, size) <= ub
<1>1. 20 * d + 1024 <= ub
  BY MaxDimBounded DEF RmsNormFits
<1>2. ReduceTmpBytes(d) \in Nat /\ ReduceTmpBytes(d) <= 992
  BY <1>1, ReduceTmpBounded
<1> QED BY <1>1, <1>2 DEF RmsNormBufferBytes

(* The same for KernelAddRmsNorm::Init, whose check depends on the type.   *)
THEOREM AddRmsNormBuffersFit ==
    ASSUME NEW ub \in Nat, ub <= 318464, NEW d \in Nat, NEW size \in {2, 4},
           AddRmsNormFits(d, size, ub)
    PROVE  AddRmsNormBufferBytes(d, size) <= ub
<1> DEFINE k == IF size = 2 THEN 28 ELSE 36
<1>1. k * d + 1024 <= ub /\ k \in {28, 36}
  BY MaxDimBounded DEF AddRmsNormFits
<1>2. ReduceTmpBytes(d) \in Nat /\ ReduceTmpBytes(d) <= 992
  BY <1>1, ReduceTmpBounded
<1> QED BY <1>1, <1>2 DEF AddRmsNormBufferBytes

-------------------------------------------------------------------------------
(***************************************************************************)
(* The kernels of src/native/ascend/custom, for any number of rows and     *)
(* cores and any dimension.  io names the tensors a kernel reads and       *)
(* writes and the queues between its stages.                               *)
(***************************************************************************)
Elements(k) == 0..(k.align - 1)

Slots(k, queues, c, row) ==
    UNION {{Slot(q, c, row, e) : e \in Elements(k)} : q \in queues}

RowUnits(k, tensors, c, row) ==
    UNION {UNION {Units(t, k.type, RowPosition(k, c, row, e)) : e \in Elements(k)} : t \in tensors}

WeightCells(k, c) == {WeightCell(c, e) : e \in Elements(k)}

WeightUnits(k) == UNION {Units(k.weight, "float32", e) : e \in Elements(k)}

StageWrites(k, io, c, stage, row) ==
    CASE stage = "load"    -> WeightCells(k, c)
      [] stage = "in"      -> Slots(k, io.inqs, c, row)
      [] stage = "compute" -> Slots(k, io.outqs, c, row)
      [] stage = "out"     -> RowUnits(k, io.outs, c, row)

StageReads(k, io, c, stage, row) ==
    CASE stage = "load"    -> WeightUnits(k)
      [] stage = "in"      -> RowUnits(k, io.ins, c, row)
      [] stage = "compute" -> Slots(k, io.inqs, c, row) \cup WeightCells(k, c)
      [] stage = "out"     -> Slots(k, io.outqs, c, row)

StageAfter(k, c, stage, row) ==
    CASE stage = "load"    -> {}
      [] stage = "in"      -> CopyInAfter(k, c, row)
      [] stage = "compute" -> ComputeAfter(k, c, row)
      [] stage = "out"     -> CopyOutAfter(k, c, row)

(* The stages of the kernels touch these cells and wait for these items.   *)
StagesOf(k, io, work) ==
    /\ DOMAIN work = CoresStages(k)
    /\ \A id \in CoresStages(k) :
          /\ Writes(work[id]) \subseteq StageWrites(k, io, id[1], id[2], id[3])
          /\ Reads(work[id]) \subseteq StageReads(k, io, id[1], id[2], id[3])
          /\ work[id].after = StageAfter(k, id[1], id[2], id[3])
          /\ work[id] = Item(work[id].flow, work[id].after)

(* A kernel's arguments: a positive number of rows and cores, and buffers  *)
(* of global and of local memory that are not each other.  Outputs may be  *)
(* inputs, but not the weight.                                             *)
KernelCall(k, io) ==
    /\ k.rows \in Nat \ {0} /\ k.cores \in Nat \ {0} /\ k.align \in Nat
    /\ k.type \in DOMAIN DataTypeSize
    /\ (io.ins \cup io.outs \cup {k.weight})
          \cap (io.inqs \cup io.outqs \cup {"weight_buf"}) = {}
    /\ io.inqs \cap io.outqs = {}
    /\ "weight_buf" \notin io.inqs \cup io.outqs
    /\ k.weight \notin io.outs

(* What comes before a stage of a core, in every schedule.                 *)
CoreBefore(k, c, stage, row) ==
    LET Stages(s, rows) == {<<c, s, r>> : r \in CoreRows(k, c) \cap rows}
    IN  CASE stage = "load"    -> {}
          [] stage = "in"      -> {<<c, "load", 0>>} \cup Stages("in", 0..(row - 1))
                                  \cup Stages("compute", 0..(row - 2))
          [] stage = "compute" -> {<<c, "load", 0>>} \cup Stages("in", 0..row)
                                  \cup Stages("compute", 0..(row - 1))
                                  \cup Stages("out", 0..(row - 2))
          [] stage = "out"     -> Stages("in", 0..row) \cup Stages("compute", 0..row)
                                  \cup Stages("out", 0..(row - 1))

(* Items of a kernel.                                                      *)
LEMMA StageItems ==
    ASSUME NEW k, NEW io, KernelCall(k, io)
    PROVE  /\ \A c : CoreRows(k, c) \subseteq Nat
           /\ Cores(k.rows, k.cores) \subseteq Nat
           /\ \A id \in CoresStages(k) : \E c \in Cores(k.rows, k.cores) :
                 \/ id = <<c, "load", 0>>
                 \/ \E r \in CoreRows(k, c), s \in {"in", "compute", "out"} : id = <<c, s, r>>
           /\ \A c \in Cores(k.rows, k.cores) :
                 /\ <<c, "load", 0>> \in CoresStages(k)
                 /\ \A r \in CoreRows(k, c), s \in {"in", "compute", "out"} :
                       <<c, s, r>> \in CoresStages(k)
<1>1. UsedCores(k.rows, k.cores) \in Nat \ {0}
    BY Shares DEF KernelCall
<1>2. \A c : CoreRows(k, c) \subseteq Nat
    BY DEF CoreRows
<1> QED BY <1>1, <1>2 DEF CoresStages, Cores

(* Double buffering: a slot is used again two rows later at the earliest.  *)
LEMMA SlotReuse ==
    ASSUME NEW r \in Nat, NEW s \in Nat, r % kBufferNum = s % kBufferNum
    PROVE  r = s \/ r <= s - 2 \/ s <= r - 2
BY DEF kBufferNum

(* Which row a unit of global memory belongs to.                           *)
LEMMA RowOfPosition ==
    ASSUME NEW a \in Nat, NEW R \in Nat, NEW S \in Nat, NEW d \in 0..(a - 1), NEW e \in 0..(a - 1),
           R * a + d = S * a + e
    PROVE  R = S
<1>1. ASSUME NEW m \in Nat, NEW n \in Nat, m < n, NEW x \in 0..(a - 1), NEW y \in 0..(a - 1)
      PROVE  m * a + x # n * a + y
    <2>1. a * m + a <= a * n
        BY <1>1, LessTimes
    <2>2. a * m = m * a /\ a * n = n * a /\ m * a \in Nat /\ n * a \in Nat
        OBVIOUS
    <2> QED BY <2>1, <2>2
<1> QED BY <1>1

(* The first row of a core and the number of its rows are numbers.         *)
LEMMA OffsetType ==
    ASSUME NEW rows \in Nat \ {0}, NEW cores \in Nat \ {0}, NEW c \in Nat
    PROVE  RowOffset(rows, cores, c) \in Nat /\ BlockRows(rows, cores, c) \in Nat
<1> DEFINE N == FormerNum(rows, cores)
           T == TailLength(rows, cores)
<1>1. N \in Nat /\ T \in Nat
    BY Shares
<1>2. /\ RowOffset(rows, cores, c) = T * c + (IF c < N THEN c ELSE N)
      /\ BlockRows(rows, cores, c) = T + (IF c < N THEN 1 ELSE 0)
    BY Offset
<1> HIDE DEF N, T
<1>3. T * c \in Nat
    BY <1>1
<1> QED BY <1>1, <1>2, <1>3

(* No two rows, of one core or of two, share a unit of a tensor.           *)
LEMMA RowOfUnit ==
    ASSUME NEW k, NEW io, KernelCall(k, io), NEW T, NEW S,
           NEW c \in Cores(k.rows, k.cores), NEW d \in Cores(k.rows, k.cores),
           NEW r \in CoreRows(k, c), NEW s \in CoreRows(k, d),
           NEW x \in RowUnits(k, T, c, r), x \in RowUnits(k, S, d, s)
    PROVE  c = d /\ r = s
<1> DEFINE R == RowOffset(k.rows, k.cores, c) + r
           Q == RowOffset(k.rows, k.cores, d) + s
           W == Width(k.type)
<1>1. /\ c \in Nat /\ d \in Nat /\ r \in Nat /\ s \in Nat /\ k.align \in Nat
      /\ k.rows \in Nat \ {0} /\ k.cores \in Nat \ {0}
    BY StageItems DEF KernelCall
<1>2. W \in {1, 2}
    BY DEF KernelCall, Width, DataTypeSize
<1>3. /\ RowOffset(k.rows, k.cores, c) \in Nat /\ RowOffset(k.rows, k.cores, d) \in Nat
      /\ BlockRows(k.rows, k.cores, c) \in Nat /\ BlockRows(k.rows, k.cores, d) \in Nat
    BY <1>1, OffsetType
<1>4. /\ Takes(k.rows, k.cores, c, R) /\ Takes(k.rows, k.cores, d, Q)
      /\ R \in 0..(k.rows - 1) /\ Q \in 0..(k.rows - 1)
    BY <1>1, <1>3, CoresStayInside DEF Takes, CoreRows
<1>5. PICK e \in Elements(k), u \in 0..(W - 1) : x[2] = RowPosition(k, c, r, e) * W + u
    BY DEF RowUnits, Units
<1>6. PICK f \in Elements(k), v \in 0..(W - 1) : x[2] = RowPosition(k, d, s, f) * W + v
    BY DEF RowUnits, Units
<1>7. /\ RowPosition(k, c, r, e) = R * k.align + e
      /\ RowPosition(k, d, s, f) = Q * k.align + f
    BY DEF RowPosition
<1> HIDE DEF R, Q, W
<1>8. R * k.align + e \in Nat /\ Q * k.align + f \in Nat
    BY <1>1, <1>4 DEF Elements
<1>9. R * k.align + e = Q * k.align + f
    BY <1>2, <1>5, <1>6, <1>7, <1>8
<1>10. R = Q
    BY <1>1, <1>4, <1>9, RowOfPosition DEF Elements
<1>11. c = d
    BY <1>1, <1>4, <1>10, NoRowTakenTwice
<1> QED BY <1>1, <1>3, <1>10, <1>11 DEF R, Q

(* The buffer a cell is in, and whose it is there.                         *)
LEMMA Places ==
    ASSUME NEW k, NEW c, NEW r, NEW Q, NEW x
    PROVE  /\ x \in Slots(k, Q, c, r) =>
                 x[1] \in Q /\ x[2][1] = c /\ x[2][2] = r % kBufferNum
           /\ x \in RowUnits(k, Q, c, r) => x[1] \in Q
BY DEF Slots, Slot, RowUnits, Units

(* Where the weight is, on a core and in global memory.                    *)
LEMMA WeightPlaces ==
    ASSUME NEW k, NEW c, NEW x
    PROVE  /\ x \in WeightCells(k, c) => x[1] = "weight_buf" /\ x[2][1] = c
           /\ x \in WeightUnits(k) => x[1] = k.weight
BY DEF WeightCells, WeightCell, WeightUnits, Units

(* Two stages that touch one cell, unless both only read it: one comes     *)
(* before the other.                                                       *)
LEMMA CoreConflicts ==
    ASSUME NEW k, NEW io, KernelCall(k, io), NEW work, StagesOf(k, io, work),
           NEW id \in CoresStages(k), NEW jd \in CoresStages(k), id # jd,
           NEW x \in Writes(work[id]), x \in Reads(work[jd]) \cup Writes(work[jd])
    PROVE  \/ id \in CoreBefore(k, jd[1], jd[2], jd[3])
           \/ jd \in CoreBefore(k, id[1], id[2], id[3])
<1>1. PICK c \in Cores(k.rows, k.cores) :
         \/ id = <<c, "load", 0>>
         \/ \E r \in CoreRows(k, c), s \in {"in", "compute", "out"} : id = <<c, s, r>>
    BY StageItems
<1>2. PICK d \in Cores(k.rows, k.cores) :
         \/ jd = <<d, "load", 0>>
         \/ \E r \in CoreRows(k, d), s \in {"in", "compute", "out"} : jd = <<d, s, r>>
    BY StageItems
<1>3. /\ x \in StageWrites(k, io, id[1], id[2], id[3])
      /\ \/ x \in StageReads(k, io, jd[1], jd[2], jd[3])
         \/ x \in StageWrites(k, io, jd[1], jd[2], jd[3])
    BY DEF StagesOf
<1>a. /\ CoreRows(k, c) \subseteq Nat /\ CoreRows(k, d) \subseteq Nat
      /\ (io.ins \cup io.outs \cup {k.weight})
            \cap (io.inqs \cup io.outqs \cup {"weight_buf"}) = {}
      /\ io.inqs \cap io.outqs = {}
      /\ "weight_buf" \notin io.inqs \cup io.outqs
      /\ k.weight \notin io.outs
    BY StageItems DEF KernelCall
\* What an item of row s touches of local memory.
<1>b. ASSUME NEW s \in CoreRows(k, d), NEW stage \in {"in", "compute", "out"},
             jd = <<d, stage, s>>, x[1] \in io.inqs
      PROVE  stage \in {"in", "compute"} /\ x[2][1] = d /\ x[2][2] = s % kBufferNum
    BY <1>3, <1>a, <1>b, Places, WeightPlaces DEF StageReads, StageWrites
<1>c. ASSUME NEW s \in CoreRows(k, d), NEW stage \in {"in", "compute", "out"},
             jd = <<d, stage, s>>, x[1] \in io.outqs
      PROVE  stage \in {"compute", "out"} /\ x[2][1] = d /\ x[2][2] = s % kBufferNum
    BY <1>3, <1>a, <1>c, Places, WeightPlaces DEF StageReads, StageWrites
<1>d. ASSUME NEW s \in CoreRows(k, d), NEW stage \in {"in", "compute", "out"},
             jd = <<d, stage, s>>, x[1] = "weight_buf"
      PROVE  stage = "compute" /\ x[2][1] = d
    BY <1>3, <1>a, <1>d, Places, WeightPlaces DEF StageReads, StageWrites
<1>e. ASSUME NEW s \in CoreRows(k, d), NEW stage \in {"in", "compute", "out"},
             jd = <<d, stage, s>>, x[1] \in io.outs
      PROVE  /\ stage \in {"in", "out"}
             /\ x \in RowUnits(k, io.ins, d, s) \/ x \in RowUnits(k, io.outs, d, s)
    BY <1>3, <1>a, <1>e, Places, WeightPlaces DEF StageReads, StageWrites
<1>f. ASSUME jd = <<d, "load", 0>>
      PROVE  (x[1] = "weight_buf" /\ x[2][1] = d) \/ x[1] = k.weight
    <2>1. x \in WeightCells(k, d) \/ x \in WeightUnits(k)
        BY <1>3, <1>f DEF StageReads, StageWrites
    <2> QED BY <2>1, WeightPlaces
<1>4. CASE id = <<c, "load", 0>>
    <2>1. x[1] = "weight_buf" /\ x[2][1] = c
        <3>1. x \in WeightCells(k, c)
            BY <1>3, <1>4 DEF StageWrites
        <3> QED BY <3>1, WeightPlaces
    <2>2. d = c /\ jd # <<d, "load", 0>>
        BY <2>1, <1>2, <1>4, <1>a, <1>d, <1>f
    <2>3. PICK s \in CoreRows(k, d) : jd = <<d, "compute", s>>
        BY <2>1, <2>2, <1>2, <1>d
    <2> QED BY <2>2, <2>3, <1>4 DEF CoreBefore
<1>5. ASSUME NEW r \in CoreRows(k, c), id = <<c, "in", r>>
      PROVE  \/ id \in CoreBefore(k, jd[1], jd[2], jd[3])
             \/ jd \in CoreBefore(k, id[1], id[2], id[3])
    <2>1. x[1] \in io.inqs /\ x[2][1] = c /\ x[2][2] = r % kBufferNum
        BY <1>3, <1>5, Places DEF StageWrites
    <2>2. jd # <<d, "load", 0>>
        BY <2>1, <1>a, <1>f
    <2>3. PICK s \in CoreRows(k, d), stage \in {"in", "compute", "out"} : jd = <<d, stage, s>>
        BY <2>2, <1>2
    <2>4. stage \in {"in", "compute"} /\ d = c /\ r % kBufferNum = s % kBufferNum
        BY <2>1, <2>3, <1>b
    <2>5. r = s \/ r <= s - 2 \/ s <= r - 2
        BY <2>4, <1>a, SlotReuse
    <2>6. CASE stage = "in"
        BY <2>3, <2>4, <2>5, <2>6, <1>5, <1>a DEF CoreBefore
    <2>7. CASE stage = "compute"
        BY <2>3, <2>4, <2>5, <2>7, <1>5, <1>a DEF CoreBefore
    <2> QED BY <2>4, <2>6, <2>7
<1>6. ASSUME NEW r \in CoreRows(k, c), id = <<c, "compute", r>>
      PROVE  \/ id \in CoreBefore(k, jd[1], jd[2], jd[3])
             \/ jd \in CoreBefore(k, id[1], id[2], id[3])
    <2>1. x[1] \in io.outqs /\ x[2][1] = c /\ x[2][2] = r % kBufferNum
        BY <1>3, <1>6, Places DEF StageWrites
    <2>2. jd # <<d, "load", 0>>
        BY <2>1, <1>a, <1>f
    <2>3. PICK s \in CoreRows(k, d), stage \in {"in", "compute", "out"} : jd = <<d, stage, s>>
        BY <2>2, <1>2
    <2>4. stage \in {"compute", "out"} /\ d = c /\ r % kBufferNum = s % kBufferNum
        BY <2>1, <2>3, <1>c
    <2>5. r = s \/ r <= s - 2 \/ s <= r - 2
        BY <2>4, <1>a, SlotReuse
    <2>6. CASE stage = "compute"
        BY <2>3, <2>4, <2>5, <2>6, <1>6, <1>a DEF CoreBefore
    <2>7. CASE stage = "out"
        BY <2>3, <2>4, <2>5, <2>7, <1>6, <1>a DEF CoreBefore
    <2> QED BY <2>4, <2>6, <2>7
<1>7. ASSUME NEW r \in CoreRows(k, c), id = <<c, "out", r>>
      PROVE  \/ id \in CoreBefore(k, jd[1], jd[2], jd[3])
             \/ jd \in CoreBefore(k, id[1], id[2], id[3])
    <2>1. x \in RowUnits(k, io.outs, c, r) /\ x[1] \in io.outs
        BY <1>3, <1>7, Places DEF StageWrites
    <2>2. jd # <<d, "load", 0>>
        BY <2>1, <1>a, <1>f
    <2>3. PICK s \in CoreRows(k, d), stage \in {"in", "compute", "out"} : jd = <<d, stage, s>>
        BY <2>2, <1>2
    <2>4. /\ stage \in {"in", "out"}
          /\ x \in RowUnits(k, io.ins, d, s) \/ x \in RowUnits(k, io.outs, d, s)
        BY <2>1, <2>3, <1>e
    <2>5. c = d /\ r = s
        BY <2>1, <2>4, RowOfUnit
    <2>6. stage = "in"
        BY <2>3, <2>4, <2>5, <1>7
    <2> QED BY <2>3, <2>5, <2>6, <1>7, <1>a DEF CoreBefore
<1> QED BY <1>1, <1>4, <1>5, <1>6, <1>7

(* The stages wait for what CoreBefore says comes before them.             *)
LEMMA CoreChains ==
    ASSUME NEW k, NEW io, KernelCall(k, io), NEW id \in CoresStages(k),
           NEW jd \in CoreBefore(k, id[1], id[2], id[3])
    PROVE  \/ jd \in StageAfter(k, id[1], id[2], id[3])
           \/ \E m \in StageAfter(k, id[1], id[2], id[3]) :
                 jd \in CoreBefore(k, m[1], m[2], m[3])
<1>1. PICK c \in Cores(k.rows, k.cores) :
         \/ id = <<c, "load", 0>>
         \/ \E r \in CoreRows(k, c), s \in {"in", "compute", "out"} : id = <<c, s, r>>
    BY StageItems
<1>2. id # <<c, "load", 0>>
    BY DEF CoreBefore
<1>3. PICK r \in CoreRows(k, c), stage \in {"in", "compute", "out"} : id = <<c, stage, r>>
    BY <1>1, <1>2
<1> DEFINE n == BlockRows(k.rows, k.cores, c)
<1>4. n \in Nat /\ CoreRows(k, c) = 0..(n - 1) /\ r \in Nat
    BY OffsetType, StageItems DEF KernelCall, CoreRows
<1> DEFINE Within(s, rows) == \E i \in CoreRows(k, c) \cap rows : jd = <<c, s, i>>
           After == StageAfter(k, c, stage, r)
           Goal == jd \in After \/ \E m \in After : jd \in CoreBefore(k, m[1], m[2], m[3])
<1> HIDE DEF n
<1>5. CASE stage = "in"
    <2>1. /\ <<c, "load", 0>> \in After
          /\ r - 1 \in CoreRows(k, c) => <<c, "in", r - 1>> \in After
          /\ r - 2 \in CoreRows(k, c) => <<c, "compute", r - 2>> \in After
        BY <1>5 DEF StageAfter, CopyInAfter, Earlier, kBufferNum
    <2>2. jd = <<c, "load", 0>> \/ Within("in", 0..(r - 1)) \/ Within("compute", 0..(r - 2))
        BY <1>3, <1>5 DEF CoreBefore
    <2>3. ASSUME NEW i \in CoreRows(k, c), i < r, jd = <<c, "in", i>> PROVE Goal
        <3>1. r - 1 \in CoreRows(k, c) /\ (i = r - 1 \/ i \in 0..(r - 2))
            BY <2>3, <1>4
        <3>2. i \in 0..(r - 2) => jd \in CoreBefore(k, c, "in", r - 1)
            BY <2>3, <3>1, <1>4 DEF CoreBefore
        <3> QED BY <2>1, <2>3, <3>1, <3>2
    <2>4. ASSUME NEW i \in CoreRows(k, c), i <= r - 2, jd = <<c, "compute", i>> PROVE Goal
        <3>1. r - 2 \in CoreRows(k, c) /\ (i = r - 2 \/ i \in 0..(r - 3))
            BY <2>4, <1>4
        <3>2. i \in 0..(r - 3) => jd \in CoreBefore(k, c, "compute", r - 2)
            BY <2>4, <3>1, <1>4 DEF CoreBefore
        <3> QED BY <2>1, <2>4, <3>1, <3>2
    <2>5. Goal
        BY <2>1, <2>2, <2>3, <2>4, <1>4
    <2> QED BY <2>5, <1>3
<1>6. CASE stage = "compute"
    <2>1. /\ <<c, "in", r>> \in After
          /\ r - 1 \in CoreRows(k, c) => <<c, "compute", r - 1>> \in After
          /\ r - 2 \in CoreRows(k, c) => <<c, "out", r - 2>> \in After
        BY <1>6 DEF StageAfter, ComputeAfter, Earlier, kBufferNum
    <2>2. \/ jd = <<c, "load", 0>> \/ Within("in", 0..r)
          \/ Within("compute", 0..(r - 1)) \/ Within("out", 0..(r - 2))
        BY <1>3, <1>6 DEF CoreBefore
    <2>3. ASSUME jd = <<c, "load", 0>> PROVE Goal
        <3>1. jd \in CoreBefore(k, c, "in", r)
            BY <2>3 DEF CoreBefore
        <3> QED BY <2>1, <3>1
    <2>4. ASSUME NEW i \in CoreRows(k, c), i <= r, jd = <<c, "in", i>> PROVE Goal
        <3>1. i = r \/ i \in 0..(r - 1)
            BY <2>4, <1>4
        <3>2. i \in 0..(r - 1) => jd \in CoreBefore(k, c, "in", r)
            BY <2>4, <1>4 DEF CoreBefore
        <3> QED BY <2>1, <2>4, <3>1, <3>2
    <2>5. ASSUME NEW i \in CoreRows(k, c), i < r, jd = <<c, "compute", i>> PROVE Goal
        <3>1. r - 1 \in CoreRows(k, c) /\ (i = r - 1 \/ i \in 0..(r - 2))
            BY <2>5, <1>4
        <3>2. i \in 0..(r - 2) => jd \in CoreBefore(k, c, "compute", r - 1)
            BY <2>5, <3>1, <1>4 DEF CoreBefore
        <3> QED BY <2>1, <2>5, <3>1, <3>2
    <2>6. ASSUME NEW i \in CoreRows(k, c), i <= r - 2, jd = <<c, "out", i>> PROVE Goal
        <3>1. r - 2 \in CoreRows(k, c) /\ (i = r - 2 \/ i \in 0..(r - 3))
            BY <2>6, <1>4
        <3>2. i \in 0..(r - 3) => jd \in CoreBefore(k, c, "out", r - 2)
            BY <2>6, <3>1, <1>4 DEF CoreBefore
        <3> QED BY <2>1, <2>6, <3>1, <3>2
    <2>7. Goal
        BY <2>2, <2>3, <2>4, <2>5, <2>6, <1>4
    <2> QED BY <2>7, <1>3
<1>7. CASE stage = "out"
    <2>1. /\ <<c, "compute", r>> \in After
          /\ r - 1 \in CoreRows(k, c) => <<c, "out", r - 1>> \in After
        BY <1>7 DEF StageAfter, CopyOutAfter, Earlier
    <2>2. Within("in", 0..r) \/ Within("compute", 0..r) \/ Within("out", 0..(r - 1))
        BY <1>3, <1>7 DEF CoreBefore
    <2>3. ASSUME NEW i \in CoreRows(k, c), i <= r, jd = <<c, "in", i>> PROVE Goal
        <3>1. jd \in CoreBefore(k, c, "compute", r)
            BY <2>3, <1>4 DEF CoreBefore
        <3> QED BY <2>1, <3>1
    <2>4. ASSUME NEW i \in CoreRows(k, c), i <= r, jd = <<c, "compute", i>> PROVE Goal
        <3>1. i = r \/ i \in 0..(r - 1)
            BY <2>4, <1>4
        <3>2. i \in 0..(r - 1) => jd \in CoreBefore(k, c, "compute", r)
            BY <2>4, <1>4 DEF CoreBefore
        <3> QED BY <2>1, <2>4, <3>1, <3>2
    <2>5. ASSUME NEW i \in CoreRows(k, c), i < r, jd = <<c, "out", i>> PROVE Goal
        <3>1. r - 1 \in CoreRows(k, c) /\ (i = r - 1 \/ i \in 0..(r - 2))
            BY <2>5, <1>4
        <3>2. i \in 0..(r - 2) => jd \in CoreBefore(k, c, "out", r - 1)
            BY <2>5, <3>1, <1>4 DEF CoreBefore
        <3> QED BY <2>1, <2>5, <3>1, <3>2
    <2>6. Goal
        BY <2>2, <2>3, <2>4, <2>5, <1>4
    <2> QED BY <2>6, <1>3
<1> QED BY <1>5, <1>6, <1>7

(* A stage waits for stages there are.                                     *)
LEMMA AfterInside ==
    ASSUME NEW k, NEW io, KernelCall(k, io), NEW id \in CoresStages(k)
    PROVE  StageAfter(k, id[1], id[2], id[3]) \subseteq CoresStages(k)
<1>1. PICK c \in Cores(k.rows, k.cores) :
         \/ id = <<c, "load", 0>>
         \/ \E r \in CoreRows(k, c), s \in {"in", "compute", "out"} : id = <<c, s, r>>
    BY StageItems
<1>2. /\ <<c, "load", 0>> \in CoresStages(k)
      /\ \A r \in CoreRows(k, c), s \in {"in", "compute", "out"} : <<c, s, r>> \in CoresStages(k)
    BY StageItems
<1>3. \A r : \A s \in {"in", "compute", "out"} : Earlier(k, c, s, r) \subseteq CoresStages(k)
    BY <1>2 DEF Earlier
<1>4. CASE id = <<c, "load", 0>>
    BY <1>4 DEF StageAfter
<1>5. ASSUME NEW r \in CoreRows(k, c), NEW s \in {"in", "compute", "out"}, id = <<c, s, r>>
      PROVE  StageAfter(k, id[1], id[2], id[3]) \subseteq CoresStages(k)
    <2>1. /\ CopyInAfter(k, c, r) \subseteq CoresStages(k)
          /\ ComputeAfter(k, c, r) \subseteq CoresStages(k)
          /\ CopyOutAfter(k, c, r) \subseteq CoresStages(k)
        BY <1>2, <1>3 DEF CopyInAfter, ComputeAfter, CopyOutAfter
    <2> QED BY <2>1, <1>5 DEF StageAfter
<1> QED BY <1>1, <1>4, <1>5

-------------------------------------------------------------------------------
(* The stages of KernelRmsNorm and KernelAddRmsNorm: the tensor each queue *)
(* in holds rows of, the queue each tensor out is filled from, and which   *)
(* elements of which queues, and whether the weight, an element of a queue *)
(* out is computed from.                                                   *)
RmsNormIO(k) ==
    [ins      |-> {k.input},
     outs     |-> {k.out},
     inqs     |-> {"in_queue_input"},
     outqs    |-> {"out_queue_out"},
     source   |-> [q \in {"in_queue_input"} |-> k.input],
     sink     |-> [t \in {k.out} |-> "out_queue_out"],
     needs    |-> [q \in {"out_queue_out"} |->
                     [e \in Elements(k) |-> {"in_queue_input"} \X Elements(k)]],
     weighted |-> {"out_queue_out"}]

AddRmsNormIO(k) ==
    [ins      |-> {k.input, k.residual},
     outs     |-> {k.out, k.residual_out},
     inqs     |-> {"in_queue_input", "in_queue_residual"},
     outqs    |-> {"out_queue_out", "out_queue_residual_out"},
     source   |-> [q \in {"in_queue_input", "in_queue_residual"} |->
                     IF q = "in_queue_input" THEN k.input ELSE k.residual],
     sink     |-> [t \in {k.out, k.residual_out} |->
                     IF t = k.out THEN "out_queue_out" ELSE "out_queue_residual_out"],
     needs    |-> [q \in {"out_queue_out", "out_queue_residual_out"} |->
                     [e \in Elements(k) |->
                        {"in_queue_input", "in_queue_residual"}
                        \X (IF q = "out_queue_out" THEN Elements(k) ELSE {e})]],
     weighted |-> {"out_queue_out"}]

(* The copies between global memory and the queues.                        *)
LEMMA CopyInTouches ==
    ASSUME NEW k, NEW c, NEW row, NEW tensor, NEW queue, NEW io,
           tensor \in io.ins, queue \in io.inqs
    PROVE  LET f == CopyInFlow(k, c, row, tensor, queue)
           IN  /\ DOMAIN f = Slots(k, {queue}, c, row)
               /\ UNION Range(f) \subseteq RowUnits(k, io.ins, c, row)
<1> DEFINE f == CopyInFlow(k, c, row, tensor, queue)
<1>1. DOMAIN f = {Slot(queue, c, row, e) : e \in Elements(k)}
    BY DEF CopyInFlow, Elements
<1>2. ASSUME NEW e \in Elements(k)
      PROVE  f[Slot(queue, c, row, e)] \subseteq RowUnits(k, io.ins, c, row)
    <2>1. f[Slot(queue, c, row, e)] = Units(tensor, k.type, RowPosition(k, c, row, e))
        BY DEF CopyInFlow, Slot, Elements
    <2> QED BY <2>1 DEF RowUnits
<1> HIDE DEF f
<1>3. UNION Range(f) \subseteq RowUnits(k, io.ins, c, row)
    BY <1>1, <1>2 DEF Range
<1> QED BY <1>1, <1>3 DEF Slots, f

(* A row's copy out reads a slot and writes the row.                       *)
LEMMA CopyOutTouches ==
    ASSUME NEW k, NEW io, KernelCall(k, io), NEW c \in Cores(k.rows, k.cores),
           NEW row \in CoreRows(k, c), NEW tensor \in io.outs, NEW queue \in io.outqs
    PROVE  LET f == CopyOutFlow(k, c, row, queue, tensor)
           IN  /\ DOMAIN f = RowUnits(k, {tensor}, c, row)
               /\ UNION Range(f) \subseteq Slots(k, io.outqs, c, row)
<1> DEFINE f == CopyOutFlow(k, c, row, queue, tensor)
           R == (RowOffset(k.rows, k.cores, c) + row) * k.align
           W == Width(k.type)
<1>1. DOMAIN f = RowUnits(k, {tensor}, c, row)
    BY DEF CopyOutFlow, RowUnits, Elements
<1>2. W \in {1, 2} /\ R \in Nat /\ k.align \in Nat
    <2>1. W \in {1, 2}
        BY DEF KernelCall, Width, DataTypeSize
    <2>2. RowOffset(k.rows, k.cores, c) \in Nat /\ row \in Nat /\ k.align \in Nat
        BY OffsetType, StageItems DEF KernelCall
    <2> QED BY <2>1, <2>2
<1>3. \A e : RowPosition(k, c, row, e) = R + e
    BY DEF RowPosition
<1>4. ASSUME NEW g \in DOMAIN f PROVE f[g] \subseteq Slots(k, io.outqs, c, row)
    <2>1. PICK e \in Elements(k), u \in 0..(W - 1) : g[2] = (R + e) * W + u
        BY <1>1, <1>3 DEF RowUnits, Units
    <2>2. f[g] = {Slot(queue, c, row, (g[2] \div W) - (R + 0))}
        BY <1>1, <1>3, <1>4 DEF CopyOutFlow, RowUnits, Elements
    <2> HIDE DEF f, R, W
    <2>3. (g[2] \div W) - (R + 0) = e
        BY <1>2, <2>1 DEF Elements
    <2> QED BY <2>2, <2>3 DEF Slots
<1> HIDE DEF f
<1>5. UNION Range(f) \subseteq Slots(k, io.outqs, c, row)
    BY <1>4 DEF Range
<1> QED BY <1>1, <1>5 DEF f

(* The copy of the weight to a core.                                       *)
LEMMA LoadWeightTouches ==
    ASSUME NEW k, NEW c
    PROVE  LET f == LoadWeightFlow(k, c)
           IN  DOMAIN f = WeightCells(k, c) /\ UNION Range(f) \subseteq WeightUnits(k)
<1> DEFINE f == LoadWeightFlow(k, c)
<1>1. DOMAIN f = {WeightCell(c, e) : e \in Elements(k)}
    BY DEF LoadWeightFlow, Elements
<1>2. ASSUME NEW e \in Elements(k) PROVE f[WeightCell(c, e)] \subseteq WeightUnits(k)
    <2>1. f[WeightCell(c, e)] = Units(k.weight, "float32", e)
        BY DEF LoadWeightFlow, WeightCell, Elements
    <2> QED BY <2>1 DEF WeightUnits
<1> HIDE DEF f
<1>3. UNION Range(f) \subseteq WeightUnits(k)
    BY <1>1, <1>2 DEF Range
<1> QED BY <1>1, <1>3 DEF f, WeightCells

(* The vector unit works on the buffers of one row and on the weight.      *)
LEMMA RmsNormComputeTouches ==
    ASSUME NEW k, NEW c, NEW row
    PROVE  LET f == RmsNormCompute(k, c, row)
           IN  /\ DOMAIN f = Slots(k, {"out_queue_out"}, c, row)
               /\ UNION Range(f) \subseteq Slots(k, {"in_queue_input"}, c, row) \cup WeightCells(k, c)
<1> DEFINE f == RmsNormCompute(k, c, row)
<1>1. DOMAIN f = {Slot("out_queue_out", c, row, e) : e \in Elements(k)}
    BY DEF RmsNormCompute, Elements
<1>2. ASSUME NEW e \in Elements(k)
      PROVE  f[Slot("out_queue_out", c, row, e)]
               \subseteq Slots(k, {"in_queue_input"}, c, row) \cup WeightCells(k, c)
    <2>1. f[Slot("out_queue_out", c, row, e)]
            = {Slot("in_queue_input", c, row, d) : d \in Elements(k)} \cup {WeightCell(c, e)}
        BY DEF RmsNormCompute, Slot, Elements
    <2> QED BY <2>1 DEF Slots, WeightCells
<1> HIDE DEF f
<1>3. UNION Range(f) \subseteq Slots(k, {"in_queue_input"}, c, row) \cup WeightCells(k, c)
    BY <1>1, <1>2 DEF Range
<1> QED BY <1>1, <1>3 DEF f, Slots

(* KernelRmsNorm is such stages.                                           *)
LEMMA RmsNormStages ==
    ASSUME NEW k, KernelCall(k, RmsNormIO(k)), NEW work,
           work = [id \in CoresStages(k) |-> RmsNormStage(k, id[1], id[2], id[3])]
    PROVE  StagesOf(k, RmsNormIO(k), work)
<1> DEFINE io == RmsNormIO(k)
           Fits(id) == /\ Writes(work[id]) \subseteq StageWrites(k, io, id[1], id[2], id[3])
                           /\ Reads(work[id]) \subseteq StageReads(k, io, id[1], id[2], id[3])
                           /\ work[id].after = StageAfter(k, id[1], id[2], id[3])
                           /\ work[id] = Item(work[id].flow, work[id].after)
<1>1. /\ io.ins = {k.input} /\ io.outs = {k.out}
      /\ io.inqs = {"in_queue_input"} /\ io.outqs = {"out_queue_out"}
    BY DEF RmsNormIO
<1> HIDE DEF io
<1>2. ASSUME NEW f, NEW a
      PROVE  /\ Writes(Item(f, a)) = DOMAIN f /\ Reads(Item(f, a)) = UNION Range(f)
             /\ Item(f, a).after = a /\ Item(f, a).flow = f
    BY DEF Writes, Reads, Item
<1>3. ASSUME NEW c \in Cores(k.rows, k.cores) PROVE Fits(<<c, "load", 0>>)
    <2>1. work[<<c, "load", 0>>] = Item(LoadWeightFlow(k, c), {})
        BY <1>3, StageItems DEF RmsNormStage, io
    <2> QED BY <2>1, <1>2, LoadWeightTouches DEF StageWrites, StageReads, StageAfter
<1>4. ASSUME NEW c \in Cores(k.rows, k.cores), NEW r \in CoreRows(k, c)
      PROVE  Fits(<<c, "in", r>>)
    <2> DEFINE f == CopyInFlow(k, c, r, k.input, "in_queue_input")
    <2>1. work[<<c, "in", r>>] = Item(f, CopyInAfter(k, c, r))
        BY <1>4, StageItems DEF RmsNormStage, io
    <2>2. k.input \in io.ins /\ "in_queue_input" \in io.inqs
        BY <1>1
    <2>3. /\ DOMAIN f = Slots(k, {"in_queue_input"}, c, r)
          /\ UNION Range(f) \subseteq RowUnits(k, io.ins, c, r)
        BY <2>2, CopyInTouches
    <2> HIDE DEF f
    <2>4. /\ Writes(work[<<c, "in", r>>]) = DOMAIN f
          /\ Reads(work[<<c, "in", r>>]) = UNION Range(f)
          /\ work[<<c, "in", r>>].after = CopyInAfter(k, c, r)
          /\ work[<<c, "in", r>>].flow = f
        BY <2>1, <1>2
    <2>5. /\ StageWrites(k, io, c, "in", r) = Slots(k, {"in_queue_input"}, c, r)
          /\ StageReads(k, io, c, "in", r) = RowUnits(k, io.ins, c, r)
          /\ StageAfter(k, c, "in", r) = CopyInAfter(k, c, r)
        BY <1>1 DEF StageWrites, StageReads, StageAfter
    <2> QED BY <2>1, <2>3, <2>4, <2>5
<1>5. ASSUME NEW c \in Cores(k.rows, k.cores), NEW r \in CoreRows(k, c)
      PROVE  Fits(<<c, "compute", r>>)
    <2>1. work[<<c, "compute", r>>] = Item(RmsNormCompute(k, c, r), ComputeAfter(k, c, r))
        BY <1>5, StageItems DEF RmsNormStage, io
    <2> QED BY <2>1, <1>1, <1>2, RmsNormComputeTouches DEF StageWrites, StageReads, StageAfter
<1>6. ASSUME NEW c \in Cores(k.rows, k.cores), NEW r \in CoreRows(k, c)
      PROVE  Fits(<<c, "out", r>>)
    <2> DEFINE f == CopyOutFlow(k, c, r, "out_queue_out", k.out)
    <2>1. work[<<c, "out", r>>] = Item(f, CopyOutAfter(k, c, r))
        BY <1>6, StageItems DEF RmsNormStage, io
    <2>2. KernelCall(k, io) /\ k.out \in io.outs /\ "out_queue_out" \in io.outqs
        BY <1>1 DEF io
    <2>3. /\ DOMAIN f = RowUnits(k, {k.out}, c, r)
          /\ UNION Range(f) \subseteq Slots(k, io.outqs, c, r)
        BY <2>2, <1>6, CopyOutTouches
    <2> HIDE DEF f
    <2> QED BY <2>1, <2>3, <1>1, <1>2 DEF StageWrites, StageReads, StageAfter
<1>7. \A id \in CoresStages(k) : Fits(id)
    BY <1>3, <1>4, <1>5, <1>6, StageItems, SMTT(30) DEF io
<1> QED BY <1>7 DEF StagesOf, io

(* Two copies of one stage touch what either touches.                      *)
LEMMA BothTouches ==
    ASSUME NEW f, NEW g, NEW C, UNION Range(f) \subseteq C, UNION Range(g) \subseteq C
    PROVE  /\ DOMAIN Both(f, g) = DOMAIN f \cup DOMAIN g
           /\ UNION Range(Both(f, g)) \subseteq C
<1>1. \A x \in DOMAIN f : f[x] \subseteq C
    BY DEF Range
<1>2. \A x \in DOMAIN g : g[x] \subseteq C
    BY DEF Range
<1>3. \A x \in DOMAIN Both(f, g) : Both(f, g)[x] \subseteq C
    BY <1>1, <1>2 DEF Both
<1>4. DOMAIN Both(f, g) = DOMAIN f \cup DOMAIN g
    BY DEF Both
<1> QED BY <1>3, <1>4 DEF Range

(* As RmsNormComputeTouches, with two rows in and two out.                 *)
LEMMA AddRmsNormComputeTouches ==
    ASSUME NEW k, NEW c, NEW row
    PROVE  LET f == AddRmsNormCompute(k, c, row)
           IN  /\ DOMAIN f = Slots(k, {"out_queue_out", "out_queue_residual_out"}, c, row)
               /\ UNION Range(f) \subseteq
                      Slots(k, {"in_queue_input", "in_queue_residual"}, c, row)
                      \cup WeightCells(k, c)
<1> DEFINE ins == Slots(k, {"in_queue_input", "in_queue_residual"}, c, row)
           pair(e) == {Slot("in_queue_input", c, row, e), Slot("in_queue_residual", c, row, e)}
           out == [o \in {Slot("out_queue_out", c, row, e) : e \in Elements(k)} |->
                      (UNION {pair(e) : e \in Elements(k)}) \cup {WeightCell(c, o[2][3])}]
           sum == [o \in {Slot("out_queue_residual_out", c, row, e) : e \in Elements(k)} |->
                      pair(o[2][3])]
<1>1. AddRmsNormCompute(k, c, row) = Both(out, sum)
    BY DEF AddRmsNormCompute, Elements
<1>2. \A e \in Elements(k) : pair(e) \subseteq ins
    BY DEF Slots
<1>3. ASSUME NEW e \in Elements(k)
      PROVE  /\ out[Slot("out_queue_out", c, row, e)] \subseteq ins \cup WeightCells(k, c)
             /\ sum[Slot("out_queue_residual_out", c, row, e)] \subseteq ins
    <2>1. /\ Slot("out_queue_out", c, row, e)[2][3] = e
          /\ Slot("out_queue_residual_out", c, row, e)[2][3] = e
        BY DEF Slot
    <2>2. WeightCell(c, e) \in WeightCells(k, c)
        BY DEF WeightCells
    <2>3. UNION {pair(d) : d \in Elements(k)} \subseteq ins
        BY <1>2
    <2> HIDE DEF ins, pair
    <2> QED BY <2>1, <2>2, <2>3, <1>2
<1>4. /\ DOMAIN out = {Slot("out_queue_out", c, row, e) : e \in Elements(k)}
      /\ DOMAIN sum = {Slot("out_queue_residual_out", c, row, e) : e \in Elements(k)}
    OBVIOUS
<1> HIDE DEF out, sum, ins
<1>5. /\ UNION Range(out) \subseteq ins \cup WeightCells(k, c)
      /\ UNION Range(sum) \subseteq ins \cup WeightCells(k, c)
    BY <1>3, <1>4 DEF Range
<1>6. DOMAIN out \cup DOMAIN sum = Slots(k, {"out_queue_out", "out_queue_residual_out"}, c, row)
    BY <1>4 DEF Slots
<1> QED BY <1>1, <1>5, <1>6, BothTouches, ZenonT(60) DEF ins

(* KernelAddRmsNorm is such stages.                                        *)
LEMMA AddRmsNormStages ==
    ASSUME NEW k, KernelCall(k, AddRmsNormIO(k)), NEW work,
           work = [id \in CoresStages(k) |-> AddRmsNormStage(k, id[1], id[2], id[3])]
    PROVE  StagesOf(k, AddRmsNormIO(k), work)
<1> DEFINE io == AddRmsNormIO(k)
           Fits(id) == /\ Writes(work[id]) \subseteq StageWrites(k, io, id[1], id[2], id[3])
                           /\ Reads(work[id]) \subseteq StageReads(k, io, id[1], id[2], id[3])
                           /\ work[id].after = StageAfter(k, id[1], id[2], id[3])
                           /\ work[id] = Item(work[id].flow, work[id].after)
<1>1. /\ io.ins = {k.input, k.residual} /\ io.outs = {k.out, k.residual_out}
      /\ io.inqs = {"in_queue_input", "in_queue_residual"}
      /\ io.outqs = {"out_queue_out", "out_queue_residual_out"}
    BY DEF AddRmsNormIO
<1>0. KernelCall(k, io)
    OBVIOUS
<1> HIDE DEF io
<1>2. ASSUME NEW f, NEW a
      PROVE  /\ Writes(Item(f, a)) = DOMAIN f /\ Reads(Item(f, a)) = UNION Range(f)
             /\ Item(f, a).after = a /\ Item(f, a).flow = f
    BY DEF Writes, Reads, Item
<1>3. ASSUME NEW c \in Cores(k.rows, k.cores) PROVE Fits(<<c, "load", 0>>)
    <2>1. work[<<c, "load", 0>>] = Item(LoadWeightFlow(k, c), {})
        BY <1>3, <1>0, StageItems DEF AddRmsNormStage
    <2> QED BY <2>1, <1>2, LoadWeightTouches DEF StageWrites, StageReads, StageAfter
<1>4. ASSUME NEW c \in Cores(k.rows, k.cores), NEW r \in CoreRows(k, c)
      PROVE  Fits(<<c, "in", r>>)
    <2> DEFINE f == CopyInFlow(k, c, r, k.input, "in_queue_input")
               g == CopyInFlow(k, c, r, k.residual, "in_queue_residual")
    <2>1. work[<<c, "in", r>>] = Item(Both(f, g), CopyInAfter(k, c, r))
        BY <1>4, <1>0, StageItems DEF AddRmsNormStage
    <2>2. /\ k.input \in io.ins /\ "in_queue_input" \in io.inqs
          /\ k.residual \in io.ins /\ "in_queue_residual" \in io.inqs
        BY <1>1
    <2>3. /\ DOMAIN f = Slots(k, {"in_queue_input"}, c, r)
          /\ UNION Range(f) \subseteq RowUnits(k, io.ins, c, r)
        BY <2>2, CopyInTouches
    <2>4. /\ DOMAIN g = Slots(k, {"in_queue_residual"}, c, r)
          /\ UNION Range(g) \subseteq RowUnits(k, io.ins, c, r)
        BY <2>2, CopyInTouches
    <2> HIDE DEF f, g
    <2>5. DOMAIN f \cup DOMAIN g = Slots(k, io.inqs, c, r)
        BY <2>3, <2>4, <1>1 DEF Slots
    <2>6. /\ DOMAIN Both(f, g) = DOMAIN f \cup DOMAIN g
          /\ UNION Range(Both(f, g)) \subseteq RowUnits(k, io.ins, c, r)
        BY <2>3, <2>4, BothTouches
    <2> QED BY <2>1, <2>5, <2>6, <1>2 DEF StageWrites, StageReads, StageAfter
<1>5. ASSUME NEW c \in Cores(k.rows, k.cores), NEW r \in CoreRows(k, c)
      PROVE  Fits(<<c, "compute", r>>)
    <2>1. work[<<c, "compute", r>>] = Item(AddRmsNormCompute(k, c, r), ComputeAfter(k, c, r))
        BY <1>5, <1>0, StageItems DEF AddRmsNormStage
    <2> QED BY <2>1, <1>1, <1>2, AddRmsNormComputeTouches DEF StageWrites, StageReads, StageAfter
<1>6. ASSUME NEW c \in Cores(k.rows, k.cores), NEW r \in CoreRows(k, c)
      PROVE  Fits(<<c, "out", r>>)
    <2> DEFINE f == CopyOutFlow(k, c, r, "out_queue_out", k.out)
               g == CopyOutFlow(k, c, r, "out_queue_residual_out", k.residual_out)
    <2>1. work[<<c, "out", r>>] = Item(Both(f, g), CopyOutAfter(k, c, r))
        BY <1>6, <1>0, StageItems DEF AddRmsNormStage
    <2>2. /\ k.out \in io.outs /\ "out_queue_out" \in io.outqs
          /\ k.residual_out \in io.outs /\ "out_queue_residual_out" \in io.outqs
        BY <1>1
    <2>3. /\ DOMAIN f = RowUnits(k, {k.out}, c, r)
          /\ UNION Range(f) \subseteq Slots(k, io.outqs, c, r)
        BY <2>2, <1>0, <1>6, CopyOutTouches
    <2>4. /\ DOMAIN g = RowUnits(k, {k.residual_out}, c, r)
          /\ UNION Range(g) \subseteq Slots(k, io.outqs, c, r)
        BY <2>2, <1>0, <1>6, CopyOutTouches
    <2> HIDE DEF f, g
    <2>5. DOMAIN f \cup DOMAIN g = RowUnits(k, io.outs, c, r)
        BY <2>3, <2>4, <1>1 DEF RowUnits
    <2>6. /\ DOMAIN Both(f, g) = RowUnits(k, io.outs, c, r)
          /\ UNION Range(Both(f, g)) \subseteq Slots(k, io.outqs, c, r)
        BY <2>3, <2>4, <2>5, BothTouches, ZenonT(60)
    <2> QED BY <2>1, <2>6, <1>2 DEF StageWrites, StageReads, StageAfter
<1>7. ASSUME NEW id \in CoresStages(k) PROVE Fits(id)
    <2>1. PICK c \in Cores(k.rows, k.cores) :
             \/ id = <<c, "load", 0>>
             \/ \E r \in CoreRows(k, c), s \in {"in", "compute", "out"} : id = <<c, s, r>>
        BY <1>0, StageItems
    <2> HIDE DEF Fits
    <2> QED BY <2>1, <1>3, <1>4, <1>5, <1>6
<1> QED BY <1>7 DEF StagesOf, io

-------------------------------------------------------------------------------
(* A launch by the library (kernel_custom.h): the weight is copied first,  *)
(* where it has to be, and then come the cores.                            *)
WeightCopy(l) == IF WeightIsCopied(l) THEN {<<-1, "weight", 0>>} ELSE {}

LaunchBefore(l, k) ==
    [i \in WeightCopy(l) \cup CoresStages(k) |->
        IF i[2] = "weight" THEN {}
        ELSE WeightCopy(l) \cup CoreBefore(k, i[1], i[2], i[3])]

IsLaunch(work, l, k, cores) ==
    /\ DOMAIN work = WeightCopy(l) \cup CoresStages(k)
    /\ \A id \in WeightCopy(l) : work[id] = Item(WeightFlow(l), {})
    /\ \A id \in CoresStages(k) :
          /\ id[2] \in {"load", "in", "compute", "out"}
          /\ work[id].flow = cores[id].flow
          /\ work[id].after = cores[id].after \cup WeightCopy(l)
          /\ work[id].yields = {{}}

(* The work of a launch is its copy of the weight and its cores' stages.   *)
LEMMA LauncherWork ==
    ASSUME NEW l, l.launcher = "infini", NEW ins, NEW outs, NEW queues, NEW from,
           NEW k, NEW io, KernelCall(k, io), NEW cores, StagesOf(k, io, cores)
    PROVE  IsLaunch(LauncherProgram(l, ins, outs, queues, cores, from).work, l, k, cores)
<1> DEFINE work == LauncherProgram(l, ins, outs, queues, cores, from).work
           B == {<<-1, s, 0>> : s \in (IF l.launcher = "torch" THEN {"pad"} ELSE {})
                                      \cup (IF WeightIsCopied(l) THEN {"weight"} ELSE {})}
           A == {<<-1, s, 0>> : s \in IF l.launcher = "torch" THEN {"narrow"} ELSE {}}
<1>1. work = [i \in B \cup DOMAIN cores \cup A |->
                 CASE i[2] = "pad"    -> Item(PadFlow(l, ins), {})
                   [] i[2] = "weight" -> Item(WeightFlow(l), {})
                   [] i[2] = "narrow" -> Item(NarrowFlow(l, outs), DOMAIN cores)
                   [] OTHER           -> [cores[i] EXCEPT !.after = @ \cup B]]
    BY DEF LauncherProgram
<1>2. B = WeightCopy(l) /\ A = {}
    BY DEF WeightCopy
<1> HIDE DEF work, A, B
<1>3. DOMAIN work = WeightCopy(l) \cup CoresStages(k)
    BY <1>1, <1>2 DEF StagesOf
<1>4. ASSUME NEW id \in WeightCopy(l) PROVE work[id] = Item(WeightFlow(l), {})
    <2>1. id[2] = "weight"
        BY DEF WeightCopy
    <2> QED BY <2>1, <1>1, <1>2
<1>5. ASSUME NEW id \in CoresStages(k)
      PROVE  /\ id[2] \in {"load", "in", "compute", "out"}
             /\ work[id].flow = cores[id].flow
             /\ work[id].after = cores[id].after \cup WeightCopy(l)
             /\ work[id].yields = {{}}
    <2>1. id[2] \in {"load", "in", "compute", "out"}
        BY StageItems
    <2>2. work[id] = [cores[id] EXCEPT !.after = @ \cup B]
        BY <2>1, <1>1, <1>2 DEF StagesOf
    <2>3. cores[id] = Item(cores[id].flow, cores[id].after)
        BY DEF StagesOf
    <2>4. cores[id] \in [flow : {cores[id].flow}, after : {cores[id].after}, yields : {{{}}}]
        BY <2>3 DEF Item
    <2> QED BY <2>1, <2>2, <2>4, <1>2
<1> QED BY <1>3, <1>4, <1>5 DEF work, IsLaunch

(* A launch orders every two items that touch one cell.                    *)
LEMMA LauncherOrdered ==
    ASSUME NEW l, l.launcher = "infini", NEW ins, NEW outs, NEW queues, NEW from,
           NEW k, NEW io, KernelCall(k, io), NEW cores, StagesOf(k, io, cores)
    PROVE  OrderedBy(LauncherProgram(l, ins, outs, queues, cores, from), LaunchBefore(l, k))
<1> DEFINE p == LauncherProgram(l, ins, outs, queues, cores, from)
           before == LaunchBefore(l, k)
<1>1. /\ DOMAIN p.work = WeightCopy(l) \cup CoresStages(k)
      /\ \A id \in CoresStages(k) :
            /\ id[2] \in {"load", "in", "compute", "out"}
            /\ p.work[id].flow = cores[id].flow
            /\ p.work[id].after = cores[id].after \cup WeightCopy(l)
    <2>1. IsLaunch(p.work, l, k, cores)
        BY LauncherWork
    <2> QED BY <2>1 DEF IsLaunch
<1>2. /\ \A id \in WeightCopy(l) : id[2] = "weight" /\ before[id] = {}
      /\ \A id \in CoresStages(k) :
            before[id] = WeightCopy(l) \cup CoreBefore(k, id[1], id[2], id[3])
    BY <1>1 DEF LaunchBefore, WeightCopy
<1>3. \A id \in CoresStages(k) : /\ Writes(p.work[id]) = Writes(cores[id])
                                 /\ Reads(p.work[id]) = Reads(cores[id])
    BY <1>1 DEF Writes, Reads
<1>4. \A id \in CoresStages(k) : p.work[id].after = StageAfter(k, id[1], id[2], id[3])
                                                    \cup WeightCopy(l)
    BY <1>1 DEF StagesOf
<1> HIDE DEF p, before
<1>5. ASSUME NEW id \in CoresStages(k), NEW m \in StageAfter(k, id[1], id[2], id[3])
      PROVE  m \in CoresStages(k)
    BY AfterInside
<1>6. ASSUME NEW i \in DOMAIN p.work, NEW j \in before[i]
      PROVE  j \in p.work[i].after \/ \E m \in p.work[i].after : j \in before[m]
    <2>1. i \in CoresStages(k) /\ i \notin WeightCopy(l)
        BY <1>1, <1>2
    <2>2. CASE j \in WeightCopy(l)
        BY <2>1, <2>2, <1>4
    <2>3. CASE j \notin WeightCopy(l)
        <3>1. j \in CoreBefore(k, i[1], i[2], i[3])
            BY <2>1, <2>3, <1>2
        <3>2. \/ j \in StageAfter(k, i[1], i[2], i[3])
              \/ \E m \in StageAfter(k, i[1], i[2], i[3]) :
                    j \in CoreBefore(k, m[1], m[2], m[3])
            BY <2>1, <3>1, CoreChains
        <3> QED BY <2>1, <3>2, <1>2, <1>4, <1>5
    <2> QED BY <2>2, <2>3
<1>7. ASSUME NEW i \in DOMAIN p.work, NEW j \in DOMAIN p.work, i # j,
             Conflict(p.work[i], p.work[j])
      PROVE  i \in before[j] \/ j \in before[i]
    <2>1. CASE i \in CoresStages(k) /\ j \in CoresStages(k)
        <3>1. \/ \E x \in Writes(cores[i]) : x \in Reads(cores[j]) \cup Writes(cores[j])
              \/ \E x \in Writes(cores[j]) : x \in Reads(cores[i]) \cup Writes(cores[i])
            BY <2>1, <1>3, <1>7 DEF Conflict
        <3>2. \/ i \in CoreBefore(k, j[1], j[2], j[3])
              \/ j \in CoreBefore(k, i[1], i[2], i[3])
            BY <2>1, <3>1, <1>7, CoreConflicts
        <3> QED BY <2>1, <3>2, <1>2
    <2>2. CASE i \in WeightCopy(l) /\ j \in CoresStages(k)
        BY <2>2, <1>2
    <2>3. CASE j \in WeightCopy(l) /\ i \in CoresStages(k)
        BY <2>3, <1>2
    <2>4. ~(i \in WeightCopy(l) /\ j \in WeightCopy(l))
        BY <1>7 DEF WeightCopy
    <2> QED BY <2>1, <2>2, <2>3, <2>4, <1>1
<1>8. OrderedBy(p, before)
    BY <1>6, <1>7 DEF OrderedBy
<1> QED BY <1>8 DEF p, before

-------------------------------------------------------------------------------
(* The kernel's arguments are those of the launch.                         *)
Passes(l, ins, outs, queues, k, io) ==
    /\ k.rows = Rows(l) /\ k.align = Align(l) /\ k.cores = l.cores
    /\ k.type = l.input.dtype /\ k.weight = WeightBuffer(l)
    /\ io.ins = {t.buffer : t \in ins} /\ io.outs = {t.buffer : t \in outs}
    /\ io.inqs \cup io.outqs = queues
    /\ queues \subseteq OnChip \ {"weight_buf", "weight_fp32"}
    /\ io.inqs \cap io.outqs = {}

(* What a launch passes is a proper call of the kernel.                    *)
LEMMA PassedCall ==
    ASSUME NEW l, NEW ins, NEW outs, NEW queues, NEW k, NEW io,
           LibraryLaunch(l, ins, outs), Passes(l, ins, outs, queues, k, io)
    PROVE  KernelCall(k, io)
<1>1. k.type \in DOMAIN DataTypeSize
    BY DEF LibraryLaunch, Passes, DataTypeCode, DataTypeSize
<1>2. k.rows \in Nat \ {0} /\ k.cores \in Nat \ {0} /\ k.align \in Nat
    BY DEF LibraryLaunch, Passes
<1>3. (io.ins \cup io.outs) \cap OnChip = {}
    BY DEF LibraryLaunch, Passes
<1>4. k.weight = "weight_fp32" \/ (k.weight = l.weight.buffer /\ k.weight \notin OnChip)
    BY DEF LibraryLaunch, Passes, WeightBuffer
<1>5. k.weight \notin io.outs
    BY <1>3, <1>4 DEF LibraryLaunch, Passes, OnChip
<1>6. /\ io.inqs \cup io.outqs \subseteq OnChip \ {"weight_buf", "weight_fp32"}
      /\ io.inqs \cap io.outqs = {}
    BY DEF Passes
<1>7. "weight_buf" \in OnChip
    BY DEF OnChip
<1>8. (io.ins \cup io.outs \cup {k.weight})
         \cap (io.inqs \cup io.outqs \cup {"weight_buf"}) = {}
    BY <1>3, <1>4, <1>6, <1>7
<1> QED BY <1>1, <1>2, <1>5, <1>6, <1>8 DEF KernelCall

(* The memory of a launch has room for all its items touch.                *)
LEMMA PositionInside ==
    ASSUME NEW k, NEW io, KernelCall(k, io), NEW c \in Cores(k.rows, k.cores),
           NEW r \in CoreRows(k, c), NEW e \in Elements(k)
    PROVE  RowPosition(k, c, r, e) \in 0..(k.rows * k.align - 1)
<1> DEFINE R == RowOffset(k.rows, k.cores, c) + r
<1>1. /\ k.rows \in Nat \ {0} /\ k.cores \in Nat \ {0} /\ k.align \in Nat
      /\ r \in Nat /\ c \in Nat
    BY StageItems DEF KernelCall
<1>2. R \in Nat /\ R < k.rows
    <2>1. /\ RowOffset(k.rows, k.cores, c) \in Nat /\ BlockRows(k.rows, k.cores, c) \in Nat
          /\ RowOffset(k.rows, k.cores, c) + BlockRows(k.rows, k.cores, c) <= k.rows
        BY <1>1, OffsetType, CoresStayInside
    <2> QED BY <2>1, <1>1 DEF CoreRows
<1>3. RowPosition(k, c, r, e) = R * k.align + e
    BY DEF RowPosition
<1> HIDE DEF R
<1>4. k.align * R + k.align <= k.align * k.rows
    BY <1>1, <1>2, LessTimes
<1>5. /\ k.align * R = R * k.align /\ k.align * k.rows = k.rows * k.align
      /\ R * k.align \in Nat /\ k.rows * k.align \in Nat
    BY <1>1, <1>2
<1> QED BY <1>1, <1>3, <1>4, <1>5 DEF Elements

(* No more cores run than the launch asks for.                             *)
LEMMA CoresCounted ==
    ASSUME NEW k, NEW io, KernelCall(k, io)
    PROVE  Cores(k.rows, k.cores) \subseteq 0..(k.cores - 1)
BY DEF KernelCall, Cores, UsedCores

(* No item of a launch touches memory the launch does not have.            *)
LEMMA LauncherConfined ==
    ASSUME NEW l, NEW ins, NEW outs, NEW queues, NEW from, NEW k, NEW io, NEW cores,
           LibraryLaunch(l, ins, outs), Passes(l, ins, outs, queues, k, io),
           StagesOf(k, io, cores)
    PROVE  Confined(LauncherProgram(l, ins, outs, queues, cores, from))
<1> DEFINE p == LauncherProgram(l, ins, outs, queues, cores, from)
           ub == {Slot(q, c, r, e) : q \in queues, c \in 0..(l.cores - 1),
                                     r \in 0..(kBufferNum - 1), e \in 0..(Align(l) - 1)}
           wb == {WeightCell(c, e) : c \in 0..(l.cores - 1), e \in 0..(Align(l) - 1)}
<1>1. KernelCall(k, io) /\ l.launcher = "infini"
    BY PassedCall DEF LibraryLaunch
<1>2. IsLaunch(p.work, l, k, cores)
    BY <1>1, LauncherWork
<1>3. /\ \A t \in ins \cup outs : KernelUnits(l, t) \subseteq p.alloc
      /\ TensorUnits(l.weight) \subseteq p.alloc
      /\ DOMAIN WeightFlow(l) \subseteq p.alloc
      /\ ub \cup wb \subseteq p.alloc
    BY DEF LauncherProgram
<1> HIDE DEF p
<1>4. ASSUME NEW c \in Cores(k.rows, k.cores), NEW r \in CoreRows(k, c),
             NEW S, S \subseteq io.ins \cup io.outs
      PROVE  RowUnits(k, S, c, r) \subseteq p.alloc
    <2> SUFFICES ASSUME NEW x \in RowUnits(k, S, c, r) PROVE x \in p.alloc
        OBVIOUS
    <2>1. PICK b \in S, e \in Elements(k) : x \in Units(b, k.type, RowPosition(k, c, r, e))
        BY DEF RowUnits
    <2>2. PICK t \in ins \cup outs : t.buffer = b
        BY <1>4 DEF Passes
    <2>3. RowPosition(k, c, r, e) \in 0..(Rows(l) * Align(l) - 1)
        BY <1>1, PositionInside DEF Passes
    <2>4. KernelBuffer(l, t) = b /\ t.dtype = k.type
        BY <1>1, <2>2 DEF KernelBuffer, LibraryLaunch, Passes
    <2>5. x \in KernelUnits(l, t)
        BY <2>1, <2>3, <2>4 DEF KernelUnits
    <2> QED BY <2>5, <1>3
<1>5. ASSUME NEW c \in Cores(k.rows, k.cores), NEW r \in CoreRows(k, c),
             NEW Q, Q \subseteq queues
      PROVE  Slots(k, Q, c, r) \subseteq p.alloc
    <2> SUFFICES ASSUME NEW q \in Q, NEW e \in Elements(k) PROVE Slot(q, c, r, e) \in p.alloc
        BY DEF Slots
    <2>1. c \in 0..(l.cores - 1) /\ e \in 0..(Align(l) - 1) /\ r \in Nat
        BY <1>1, CoresCounted, StageItems DEF Passes, Elements
    <2>2. r % 2 \in 0..1 /\ (r % 2) % 2 = r % 2
        BY <2>1
    <2>3. Slot(q, c, r, e) = Slot(q, c, r % 2, e)
        BY <2>2 DEF Slot, kBufferNum
    <2>4. Slot(q, c, r % 2, e) \in ub
        BY <1>5, <2>1, <2>2 DEF kBufferNum
    <2> QED BY <2>3, <2>4, <1>3
<1>6. ASSUME NEW c \in Cores(k.rows, k.cores) PROVE WeightCells(k, c) \subseteq p.alloc
    <2>1. c \in 0..(l.cores - 1) /\ Elements(k) = 0..(Align(l) - 1)
        BY <1>1, CoresCounted DEF Passes, Elements
    <2> QED BY <2>1, <1>3 DEF WeightCells
<1>7. WeightUnits(k) \subseteq p.alloc
    <2>1. CASE WeightIsCopied(l)
        <3>1. WeightUnits(k) = DOMAIN WeightFlow(l)
            BY <2>1 DEF WeightUnits, WeightFlow, WeightBuffer, Passes, Elements
        <3> QED BY <3>1, <1>3
    <2>2. CASE ~WeightIsCopied(l)
        <3>1. k.weight = l.weight.buffer /\ l.weight.dtype = "float32"
            BY <2>2 DEF WeightIsCopied, WeightBuffer, Passes, LibraryLaunch
        <3>2. Elements(k) = 0..(Numel(l.weight) - 1)
            BY DEF Passes, LibraryLaunch, Elements
        <3>3. WeightUnits(k) = TensorUnits(l.weight)
            BY <3>1, <3>2 DEF WeightUnits, TensorUnits
        <3> QED BY <3>3, <1>3
    <2> QED BY <2>1, <2>2
<1>8. UNION Range(WeightFlow(l)) \subseteq p.alloc
    <2>1. ASSUME NEW u \in DOMAIN WeightFlow(l) PROVE WeightFlow(l)[u] \subseteq p.alloc
        <3>1. PICK e \in 0..(Align(l) - 1), v \in 0..(Width("float32") - 1) :
                 u = <<"weight_fp32", e * Width("float32") + v>>
            BY DEF WeightFlow, Units
        <3>2. Width("float32") = 2
            BY DEF Width, DataTypeSize
        <3>3. u[2] \div 2 = e
            BY <3>1, <3>2
        <3>4. WeightFlow(l)[u] \subseteq Units(l.weight.buffer, l.weight.dtype, e)
            BY <2>1, <3>3 DEF WeightFlow
        <3>5. e \in 0..(Numel(l.weight) - 1)
            BY DEF LibraryLaunch
        <3> QED BY <3>4, <3>5, <1>3 DEF TensorUnits
    <2> QED BY <2>1 DEF Range
<1>9. ASSUME NEW id \in CoresStages(k)
      PROVE  /\ p.work[id].after \subseteq DOMAIN p.work
             /\ Reads(p.work[id]) \cup Writes(p.work[id]) \subseteq p.alloc
    <2>1. p.work[id].after \subseteq DOMAIN p.work
        BY <1>1, <1>2, AfterInside DEF IsLaunch, StagesOf
    <2>2. /\ Writes(p.work[id]) \subseteq StageWrites(k, io, id[1], id[2], id[3])
          /\ Reads(p.work[id]) \subseteq StageReads(k, io, id[1], id[2], id[3])
        BY <1>2 DEF IsLaunch, StagesOf, Reads, Writes
    <2>3. PICK c \in Cores(k.rows, k.cores) :
             \/ id = <<c, "load", 0>>
             \/ \E r \in CoreRows(k, c), s \in {"in", "compute", "out"} : id = <<c, s, r>>
        BY <1>1, StageItems
    <2>4. io.inqs \subseteq queues /\ io.outqs \subseteq queues
        BY DEF Passes
    <2>5. CASE id = <<c, "load", 0>>
        BY <2>1, <2>2, <2>5, <1>6, <1>7 DEF StageWrites, StageReads
    <2>6. ASSUME NEW r \in CoreRows(k, c), NEW s \in {"in", "compute", "out"}, id = <<c, s, r>>
          PROVE  /\ StageWrites(k, io, c, s, r) \subseteq p.alloc
                 /\ StageReads(k, io, c, s, r) \subseteq p.alloc
        <3>1. /\ RowUnits(k, io.ins, c, r) \cup RowUnits(k, io.outs, c, r) \subseteq p.alloc
              /\ Slots(k, io.inqs, c, r) \cup Slots(k, io.outqs, c, r) \subseteq p.alloc
              /\ WeightCells(k, c) \subseteq p.alloc
            BY <2>4, <1>4, <1>5, <1>6
        <3> QED BY <3>1 DEF StageWrites, StageReads
    <2> QED BY <2>1, <2>2, <2>3, <2>5, <2>6
<1>10. ASSUME NEW id \in WeightCopy(l)
       PROVE  /\ p.work[id].after \subseteq DOMAIN p.work
              /\ Reads(p.work[id]) \cup Writes(p.work[id]) \subseteq p.alloc
    <2>1. p.work[id] = Item(WeightFlow(l), {})
        BY <1>2 DEF IsLaunch
    <2>2. /\ Writes(p.work[id]) = DOMAIN WeightFlow(l)
          /\ Reads(p.work[id]) = UNION Range(WeightFlow(l))
          /\ p.work[id].after = {}
        BY <2>1 DEF Item, Reads, Writes
    <2> QED BY <2>2, <1>3, <1>8
<1>11. DOMAIN p.work = WeightCopy(l) \cup CoresStages(k)
    BY <1>2 DEF IsLaunch
<1>12. Confined(p)
    BY <1>9, <1>10, <1>11 DEF Confined
<1> QED BY <1>12 DEF p

(* The launchers pass the kernels what their operands say.                 *)
LEMMA ArgumentsPassed ==
    ASSUME NEW l
    PROVE  /\ LibraryLaunch(l, {l.input}, {l.out}) =>
                 LET k == RmsNormArguments(l)
                 IN  Passes(l, {l.input}, {l.out}, {"in_queue_input", "out_queue_out"},
                            k, RmsNormIO(k))
           /\ LibraryLaunch(l, {l.input, l.residual}, {l.out, l.residual_out}) =>
                 LET k == AddRmsNormArguments(l)
                 IN  Passes(l, {l.input, l.residual}, {l.out, l.residual_out},
                            {"in_queue_input", "in_queue_residual", "out_queue_out",
                             "out_queue_residual_out"}, k, AddRmsNormIO(k))
<1>1. ASSUME l.launcher = "infini", l.input.dtype \in DOMAIN DataTypeCode
      PROVE  KernelType(TypeCode(l)) = l.input.dtype
    BY <1>1 DEF KernelType, TypeCode, DataTypeCode
<1>2. ASSUME l.launcher = "infini" PROVE \A t : KernelBuffer(l, t) = t.buffer
    BY <1>2 DEF KernelBuffer
<1>3. ASSUME LibraryLaunch(l, {l.input}, {l.out})
      PROVE  LET k == RmsNormArguments(l)
             IN  Passes(l, {l.input}, {l.out}, {"in_queue_input", "out_queue_out"},
                        k, RmsNormIO(k))
    BY <1>1, <1>2, <1>3 DEF LibraryLaunch, Passes, RmsNormArguments, RmsNormIO, OnChip
<1>4. ASSUME LibraryLaunch(l, {l.input, l.residual}, {l.out, l.residual_out})
      PROVE  LET k == AddRmsNormArguments(l)
             IN  Passes(l, {l.input, l.residual}, {l.out, l.residual_out},
                        {"in_queue_input", "in_queue_residual", "out_queue_out",
                         "out_queue_residual_out"}, k, AddRmsNormIO(k))
    <2> DEFINE k == AddRmsNormArguments(l)
               io == AddRmsNormIO(k)
               ins == {l.input, l.residual}
               outs == {l.out, l.residual_out}
               queues == {"in_queue_input", "in_queue_residual", "out_queue_out",
                          "out_queue_residual_out"}
    <2>1. l.launcher = "infini" /\ l.input.dtype \in DOMAIN DataTypeCode
        BY <1>4 DEF LibraryLaunch
    <2>2. KernelType(TypeCode(l)) = l.input.dtype
        BY <1>1, <2>1
    <2>3. k.rows = Rows(l) /\ k.align = Align(l) /\ k.cores = l.cores
          /\ k.type = l.input.dtype /\ k.weight = WeightBuffer(l)
        BY <2>2 DEF AddRmsNormArguments
    <2>4. /\ KernelBuffer(l, l.input) = l.input.buffer
          /\ KernelBuffer(l, l.residual) = l.residual.buffer
          /\ KernelBuffer(l, l.out) = l.out.buffer
          /\ KernelBuffer(l, l.residual_out) = l.residual_out.buffer
        BY <1>2, <2>1
    <2>5. /\ k.input = l.input.buffer /\ k.residual = l.residual.buffer
          /\ k.out = l.out.buffer /\ k.residual_out = l.residual_out.buffer
        BY <2>4 DEF AddRmsNormArguments
    <2> HIDE DEF k
    <2>6. /\ io.ins = {k.input, k.residual} /\ io.outs = {k.out, k.residual_out}
          /\ io.inqs = {"in_queue_input", "in_queue_residual"}
          /\ io.outqs = {"out_queue_out", "out_queue_residual_out"}
        BY DEF AddRmsNormIO
    <2> HIDE DEF io
    <2>7. io.ins = {t.buffer : t \in ins} /\ io.outs = {t.buffer : t \in outs}
        BY <2>5, <2>6
    <2>8. /\ io.inqs \cup io.outqs = queues /\ io.inqs \cap io.outqs = {}
          /\ queues \subseteq OnChip \ {"weight_buf", "weight_fp32"}
        BY <2>6 DEF OnChip
    <2> HIDE DEF ins, outs, queues
    <2>9. Passes(l, ins, outs, queues, k, io)
        BY <2>3, <2>7, <2>8 DEF Passes
    <2> QED BY <2>9 DEF ins, outs, queues, k, io
<1> QED BY <1>3, <1>4

(* Both kernels, as the library launches them, order what touches one cell *)
(* and stay inside the memory they have.                                   *)
LEMMA CustomNormsOrdered ==
    ASSUME NEW l, CustomNormLaunch(l)
    PROVE  (\E before : OrderedBy(CustomNorm(l), before)) /\ Confined(CustomNorm(l))
<1>1. CASE l.op = "rms_norm"
    <2> DEFINE k == RmsNormArguments(l)
               io == RmsNormIO(k)
               queues == {"in_queue_input", "out_queue_out"}
               cores == [id \in CoresStages(k) |-> RmsNormStage(k, id[1], id[2], id[3])]
               p == LauncherProgram(l, {l.input}, {l.out}, queues, cores, RmsNormFrom(l))
    <2>1. /\ LibraryLaunch(l, {l.input}, {l.out})
          /\ Passes(l, {l.input}, {l.out}, queues, k, io)
        BY <1>1, ArgumentsPassed DEF CustomNormLaunch
    <2>2. KernelCall(k, io) /\ l.launcher = "infini"
        BY <2>1, PassedCall DEF LibraryLaunch
    <2>3. StagesOf(k, io, cores)
        BY <2>2, RmsNormStages
    <2>4. CustomNorm(l) = p
        BY <1>1 DEF CustomNorm, AscendRmsNorm
    <2> HIDE DEF k, io, cores, queues
    <2>5. OrderedBy(p, LaunchBefore(l, k))
        BY <2>2, <2>3, LauncherOrdered
    <2>6. Confined(p)
        BY <2>1, <2>3, LauncherConfined
    <2> QED BY <2>4, <2>5, <2>6
<1>2. CASE l.op = "add_rms_norm"
    <2> DEFINE k == AddRmsNormArguments(l)
               io == AddRmsNormIO(k)
               ins == {l.input, l.residual}
               outs == {l.out, l.residual_out}
               queues == {"in_queue_input", "in_queue_residual", "out_queue_out",
                          "out_queue_residual_out"}
               cores == [id \in CoresStages(k) |-> AddRmsNormStage(k, id[1], id[2], id[3])]
               p == LauncherProgram(l, ins, outs, queues, cores, AddRmsNormFrom(l))
    <2>1. LibraryLaunch(l, ins, outs) /\ Passes(l, ins, outs, queues, k, io)
        BY <1>2, ArgumentsPassed DEF CustomNormLaunch
    <2>2. KernelCall(k, io) /\ l.launcher = "infini"
        BY <2>1, PassedCall DEF LibraryLaunch
    <2>3. StagesOf(k, io, cores)
        BY <2>2, AddRmsNormStages
    <2>4. CustomNorm(l) = p
        BY <1>2 DEF CustomNorm, AscendAddRmsNorm
    <2> HIDE DEF k, io, cores, queues, ins, outs
    <2>5. OrderedBy(p, LaunchBefore(l, k))
        BY <2>2, <2>3, LauncherOrdered
    <2>6. Confined(p)
        BY <2>1, <2>3, LauncherConfined
    <2> QED BY <2>4, <2>5, <2>6
<1> QED BY <1>1, <1>2 DEF CustomNormLaunch

(* RmsNorm and AddRmsNorm on custom AscendC kernels: whatever the rows,    *)
(* the dimension and the cores, and in place too, the DMA units and the    *)
(* vector unit of no two cores, and of one, touch a row or a buffer of a   *)
(* queue at the same time, and none touches what is not theirs.            *)
THEOREM CustomNormsDoNotRace ==
    ASSUME \A l \in Launches : CustomNormLaunch(l) /\ ProgramOf(l) = CustomNorm(l)
    PROVE  Spec => [](NoRace /\ InBounds)
<1>1. \A l \in Launches : /\ \E before : OrderedBy(ProgramOf(l), before)
                          /\ Confined(ProgramOf(l))
    BY CustomNormsOrdered
<1>2. Spec => []NoRace
    BY <1>1, OrderedLaunchesDoNotRace
<1>3. Spec => [](TypeOK /\ InBounds)
    BY <1>1, ConfinedLaunchesStayTyped
<1> QED BY <1>2, <1>3, PTL

-------------------------------------------------------------------------------
(* What each item of a launch writes, as the elements of the operands it   *)
(* comes from.                                                             *)
WeightOf(l, e) == Units(l.weight.buffer, l.weight.dtype, e)

\* Element e of a row of queue q, in and out.
InValue(k, io, q, c, r, e) == Units(io.source[q], k.type, RowPosition(k, c, r, e))

OutValue(l, k, io, q, c, r, e) ==
    (UNION {InValue(k, io, n[1], c, r, n[2]) : n \in io.needs[q][e]})
    \cup (UNION {WeightOf(l, e) : z \in io.weighted \cap {q}})

StageValue(l, k, io, c, stage, r, x) ==
    CASE stage = "weight"  -> WeightOf(l, x[2] \div 2)
      [] stage = "load"    -> WeightOf(l, x[2][2])
      [] stage = "in"      -> InValue(k, io, x[1], c, r, x[2][3])
      [] stage = "compute" -> OutValue(l, k, io, x[1], c, r, x[2][3])
      [] stage = "out"     -> OutValue(l, k, io, io.sink[x[1]], c, r,
                                       x[2] \div Width(k.type) - RowPosition(k, c, r, 0))

LaunchValue(l, k, io, work) ==
    [id \in DOMAIN work |->
        [x \in Writes(work[id]) |-> StageValue(l, k, io, id[1], id[2], id[3], x)]]

(* What the stages write, and from what.                                   *)
RowsCopiedIn(k, io, work) ==
    \A c \in Cores(k.rows, k.cores) : \A r \in CoreRows(k, c) :
    \A e \in Elements(k), q \in io.inqs :
        work[<<c, "in", r>>].flow[Slot(q, c, r, e)] = InValue(k, io, q, c, r, e)

RowsComputed(k, io, work) ==
    \A c \in Cores(k.rows, k.cores) : \A r \in CoreRows(k, c) :
    \A e \in Elements(k), q \in io.outqs :
        work[<<c, "compute", r>>].flow[Slot(q, c, r, e)]
           = {Slot(n[1], c, r, n[2]) : n \in io.needs[q][e]}
             \cup {WeightCell(c, e) : z \in io.weighted \cap {q}}

RowsCopiedOut(k, io, work) ==
    \A c \in Cores(k.rows, k.cores) : \A r \in CoreRows(k, c) :
    \A e \in Elements(k), t \in io.outs : \A u \in Units(t, k.type, RowPosition(k, c, r, e)) :
        work[<<c, "out", r>>].flow[u] = {Slot(io.sink[t], c, r, e)}

FlowsOf(k, io, work) ==
    /\ \A id \in CoresStages(k) :
          Writes(work[id]) = StageWrites(k, io, id[1], id[2], id[3])
    /\ \A c \in Cores(k.rows, k.cores), e \in Elements(k) :
          work[<<c, "load", 0>>].flow[WeightCell(c, e)] = Units(k.weight, "float32", e)
    /\ RowsCopiedIn(k, io, work) /\ RowsComputed(k, io, work) /\ RowsCopiedOut(k, io, work)

(* A launch of such a kernel, with memory for it.                          *)
Runs(p, l, k, io) ==
    /\ KernelCall(k, io) /\ Confined(p)
    /\ DOMAIN p.work = WeightCopy(l) \cup CoresStages(k)
    /\ \A id \in DOMAIN p.work : p.work[id].yields = {{}}
    /\ FlowsOf(k, io, p.work)
    /\ \A q \in io.outqs : \A e \in Elements(k) : io.needs[q][e] \subseteq io.inqs \X Elements(k)
    /\ \A t \in io.outs : io.sink[t] \in io.outqs
    /\ \A q \in io.inqs : io.source[q] \in io.ins
    /\ "weight_fp32" \notin io.ins \cup io.outs \cup io.inqs \cup io.outqs
    /\ \A c \in Cores(k.rows, k.cores) : \A r \in CoreRows(k, c), e \in Elements(k) :
          \A q \in io.inqs : InValue(k, io, q, c, r, e) \subseteq p.inputs
    /\ \A e \in Elements(k) : WeightOf(l, e) \subseteq p.inputs
    /\ \A id \in WeightCopy(l) :
          /\ k.weight = "weight_fp32"
          /\ Writes(p.work[id]) = WeightUnits(k)
          /\ \A e \in Elements(k) : \A u \in Units(k.weight, "float32", e) :
                p.work[id].flow[u] = WeightOf(l, e)
    /\ WeightCopy(l) = {} =>
          \A e \in Elements(k) : WeightOf(l, e) = Units(k.weight, "float32", e)

(* Units of different elements are different, and each tells its element.  *)
LEMMA UnitElement ==
    ASSUME NEW dtype \in DOMAIN DataTypeSize, NEW t, NEW e \in Nat, NEW u \in Units(t, dtype, e)
    PROVE  u[1] = t /\ u[2] \div Width(dtype) = e
<1>1. Width(dtype) \in {1, 2}
    BY DEF Width, DataTypeSize
<1>2. PICK v \in 0..(Width(dtype) - 1) : u = <<t, e * Width(dtype) + v>>
    BY DEF Units
<1>3. (e * Width(dtype) + v) \div Width(dtype) = e
    BY <1>1
<1> QED BY <1>2, <1>3

(* Every element has units.                                                *)
LEMMA UnitsExist ==
    ASSUME NEW dtype \in DOMAIN DataTypeSize, NEW t, NEW e \in Nat
    PROVE  Units(t, dtype, e) # {}
<1>1. Width(dtype) \in {1, 2}
    BY DEF Width, DataTypeSize
<1>2. <<t, e * Width(dtype) + 0>> \in Units(t, dtype, e)
    BY <1>1 DEF Units
<1> QED BY <1>2

(* A unit of a row tells the element of the row it is of.                  *)
LEMMA UnitOffset ==
    ASSUME NEW k, NEW io, KernelCall(k, io), NEW c \in Cores(k.rows, k.cores),
           NEW r \in CoreRows(k, c), NEW e \in Elements(k), NEW t,
           NEW u \in Units(t, k.type, RowPosition(k, c, r, e))
    PROVE  u[1] = t /\ u[2] \div Width(k.type) - RowPosition(k, c, r, 0) = e
<1>1. RowPosition(k, c, r, e) \in Nat /\ k.type \in DOMAIN DataTypeSize
    <2>1. k.rows * k.align - 1 \in Int
        BY DEF KernelCall
    <2> QED BY <2>1, PositionInside DEF KernelCall
<1>2. u[1] = t /\ u[2] \div Width(k.type) = RowPosition(k, c, r, e)
    BY <1>1, UnitElement
<1>3. RowPosition(k, c, r, e) - RowPosition(k, c, r, 0) = e
    <2>1. (RowOffset(k.rows, k.cores, c) + r) * k.align \in Nat
        <3>1. RowOffset(k.rows, k.cores, c) \in Nat /\ r \in Nat /\ k.align \in Nat
            BY OffsetType, StageItems DEF KernelCall
        <3> QED BY <3>1
    <2> QED BY <2>1 DEF RowPosition, Elements
<1> QED BY <1>2, <1>3

(* Who writes a cell.                                                      *)
LEMMA Writers ==
    ASSUME NEW p, NEW l, NEW k, NEW io, Runs(p, l, k, io), NEW id \in DOMAIN p.work,
           NEW x \in Writes(p.work[id])
    PROVE  \/ id \in WeightCopy(l) /\ x[1] = "weight_fp32"
           \/ \E c \in Cores(k.rows, k.cores) :
                \/ id = <<c, "load", 0>> /\ x[1] = "weight_buf" /\ x[2][1] = c
                \/ \E r \in CoreRows(k, c) :
                     \/ /\ id = <<c, "in", r>> /\ x[1] \in io.inqs
                        /\ x[2][1] = c /\ x[2][2] = r % kBufferNum
                     \/ /\ id = <<c, "compute", r>> /\ x[1] \in io.outqs
                        /\ x[2][1] = c /\ x[2][2] = r % kBufferNum
                     \/ /\ id = <<c, "out", r>> /\ x[1] \in io.outs
                        /\ x \in RowUnits(k, io.outs, c, r)
<1>1. CASE id \in WeightCopy(l)
    <2>1. x \in WeightUnits(k) /\ k.weight = "weight_fp32"
        BY <1>1 DEF Runs
    <2> QED BY <1>1, <2>1, WeightPlaces
<1>2. CASE id \in CoresStages(k)
    <2>1. x \in StageWrites(k, io, id[1], id[2], id[3])
        BY <1>2 DEF Runs, FlowsOf
    <2>2. PICK c \in Cores(k.rows, k.cores) :
             \/ id = <<c, "load", 0>>
             \/ \E r \in CoreRows(k, c), s \in {"in", "compute", "out"} : id = <<c, s, r>>
        BY <1>2, StageItems DEF Runs
    <2>3. CASE id = <<c, "load", 0>>
        <3>1. x \in WeightCells(k, c)
            BY <2>1, <2>3 DEF StageWrites
        <3> QED BY <2>3, <3>1, WeightPlaces
    <2>4. ASSUME NEW r \in CoreRows(k, c), NEW s \in {"in", "compute", "out"}, id = <<c, s, r>>
          PROVE  \/ /\ id = <<c, "in", r>> /\ x[1] \in io.inqs
                    /\ x[2][1] = c /\ x[2][2] = r % kBufferNum
                 \/ /\ id = <<c, "compute", r>> /\ x[1] \in io.outqs
                    /\ x[2][1] = c /\ x[2][2] = r % kBufferNum
                 \/ /\ id = <<c, "out", r>> /\ x[1] \in io.outs
                    /\ x \in RowUnits(k, io.outs, c, r)
        <3>1. CASE s = "in"
            BY <2>1, <2>4, <3>1, Places DEF StageWrites
        <3>2. CASE s = "compute"
            BY <2>1, <2>4, <3>2, Places DEF StageWrites
        <3>3. CASE s = "out"
            BY <2>1, <2>4, <3>3, Places DEF StageWrites
        <3> QED BY <3>1, <3>2, <3>3
    <2> QED BY <2>2, <2>3, <2>4
<1> QED BY <1>1, <1>2 DEF Runs

(* The values of LaunchValue, cell by cell.                                *)
ValuesAre(p, l, k, io, V) ==
    /\ \A id \in WeightCopy(l), e \in Elements(k) : \A u \in Units(k.weight, "float32", e) :
          u \in Writes(p.work[id]) /\ V[id][u] = WeightOf(l, e)
    /\ \A c \in Cores(k.rows, k.cores), e \in Elements(k) :
          /\ WeightCell(c, e) \in Writes(p.work[<<c, "load", 0>>])
          /\ V[<<c, "load", 0>>][WeightCell(c, e)] = WeightOf(l, e)
    /\ \A c \in Cores(k.rows, k.cores) : \A r \in CoreRows(k, c), e \in Elements(k) :
          /\ \A q \in io.inqs :
                /\ Slot(q, c, r, e) \in Writes(p.work[<<c, "in", r>>])
                /\ V[<<c, "in", r>>][Slot(q, c, r, e)] = InValue(k, io, q, c, r, e)
          /\ \A q \in io.outqs :
                /\ Slot(q, c, r, e) \in Writes(p.work[<<c, "compute", r>>])
                /\ V[<<c, "compute", r>>][Slot(q, c, r, e)] = OutValue(l, k, io, q, c, r, e)
          /\ \A t \in io.outs : \A u \in Units(t, k.type, RowPosition(k, c, r, e)) :
                /\ u \in Writes(p.work[<<c, "out", r>>])
                /\ V[<<c, "out", r>>][u] = OutValue(l, k, io, io.sink[t], c, r, e)

(* LaunchValue gives each stage's cells what the stage's inputs name.      *)
LEMMA Values ==
    ASSUME NEW p, NEW l, NEW k, NEW io, Runs(p, l, k, io), NEW V, V = LaunchValue(l, k, io, p.work)
    PROVE  ValuesAre(p, l, k, io, V)
<1>1. \A id \in DOMAIN p.work : \A x \in Writes(p.work[id]) :
         V[id][x] = StageValue(l, k, io, id[1], id[2], id[3], x)
    BY DEF LaunchValue
<1>2. /\ KernelCall(k, io) /\ DOMAIN p.work = WeightCopy(l) \cup CoresStages(k)
      /\ \A id \in CoresStages(k) :
            Writes(p.work[id]) = StageWrites(k, io, id[1], id[2], id[3])
    BY DEF Runs, FlowsOf
<1>3. Elements(k) \subseteq Nat
    BY DEF Elements
<1>4. ASSUME NEW id \in WeightCopy(l), NEW e \in Elements(k), NEW u \in Units(k.weight, "float32", e)
      PROVE  u \in Writes(p.work[id]) /\ V[id][u] = WeightOf(l, e)
    <2>1. u \in Writes(p.work[id])
        BY DEF Runs, WeightUnits
    <2>2. u[2] \div 2 = e
        BY <1>3, UnitElement DEF DataTypeSize, Width
    <2>3. id[2] = "weight"
        BY DEF WeightCopy
    <2> QED BY <2>1, <2>2, <2>3, <1>1, <1>2 DEF StageValue
<1>5. ASSUME NEW c \in Cores(k.rows, k.cores), NEW e \in Elements(k)
      PROVE  /\ WeightCell(c, e) \in Writes(p.work[<<c, "load", 0>>])
             /\ V[<<c, "load", 0>>][WeightCell(c, e)] = WeightOf(l, e)
    <2>1. <<c, "load", 0>> \in CoresStages(k)
        BY <1>2, StageItems
    <2>2. WeightCell(c, e) \in Writes(p.work[<<c, "load", 0>>])
        BY <2>1, <1>2 DEF StageWrites, WeightCells
    <2>3. WeightCell(c, e)[2][2] = e
        BY DEF WeightCell
    <2> QED BY <2>1, <2>2, <2>3, <1>1, <1>2 DEF StageValue
<1>6. ASSUME NEW c \in Cores(k.rows, k.cores), NEW r \in CoreRows(k, c), NEW e \in Elements(k),
             NEW q \in io.inqs
      PROVE  /\ Slot(q, c, r, e) \in Writes(p.work[<<c, "in", r>>])
             /\ V[<<c, "in", r>>][Slot(q, c, r, e)] = InValue(k, io, q, c, r, e)
    <2>1. <<c, "in", r>> \in CoresStages(k)
        BY <1>2, StageItems
    <2>2. Slot(q, c, r, e) \in Writes(p.work[<<c, "in", r>>])
        <3>1. Writes(p.work[<<c, "in", r>>]) = Slots(k, io.inqs, c, r)
            BY <2>1, <1>2 DEF StageWrites
        <3> QED BY <3>1 DEF Slots
    <2>3. Slot(q, c, r, e)[1] = q /\ Slot(q, c, r, e)[2][3] = e
        BY DEF Slot
    <2> QED BY <2>1, <2>2, <2>3, <1>1, <1>2 DEF StageValue
<1>7. ASSUME NEW c \in Cores(k.rows, k.cores), NEW r \in CoreRows(k, c), NEW e \in Elements(k),
             NEW q \in io.outqs
      PROVE  /\ Slot(q, c, r, e) \in Writes(p.work[<<c, "compute", r>>])
             /\ V[<<c, "compute", r>>][Slot(q, c, r, e)] = OutValue(l, k, io, q, c, r, e)
    <2>1. <<c, "compute", r>> \in CoresStages(k)
        BY <1>2, StageItems
    <2>2. Slot(q, c, r, e) \in Writes(p.work[<<c, "compute", r>>])
        <3>1. Writes(p.work[<<c, "compute", r>>]) = Slots(k, io.outqs, c, r)
            BY <2>1, <1>2 DEF StageWrites
        <3> QED BY <3>1 DEF Slots
    <2>3. Slot(q, c, r, e)[1] = q /\ Slot(q, c, r, e)[2][3] = e
        BY DEF Slot
    <2> QED BY <2>1, <2>2, <2>3, <1>1, <1>2 DEF StageValue
<1>8. ASSUME NEW c \in Cores(k.rows, k.cores), NEW r \in CoreRows(k, c), NEW e \in Elements(k),
             NEW t \in io.outs, NEW u \in Units(t, k.type, RowPosition(k, c, r, e))
      PROVE  /\ u \in Writes(p.work[<<c, "out", r>>])
             /\ V[<<c, "out", r>>][u] = OutValue(l, k, io, io.sink[t], c, r, e)
    <2>1. <<c, "out", r>> \in CoresStages(k)
        BY <1>2, StageItems
    <2>2. u \in Writes(p.work[<<c, "out", r>>])
        <3>1. Writes(p.work[<<c, "out", r>>]) = RowUnits(k, io.outs, c, r)
            BY <2>1, <1>2 DEF StageWrites
        <3> QED BY <3>1 DEF RowUnits
    <2>3. u[1] = t /\ u[2] \div Width(k.type) - RowPosition(k, c, r, 0) = e
        BY <1>2, UnitOffset
    <2> QED BY <2>1, <2>2, <2>3, <1>1, <1>2 DEF StageValue
<1> QED BY <1>4, <1>5, <1>6, <1>7, <1>8 DEF ValuesAre

(* What comes before an item of a launch.                                  *)
LEMMA BeforeItems ==
    ASSUME NEW l, NEW k, NEW io, KernelCall(k, io)
    PROVE  /\ \A id \in WeightCopy(l) : LaunchBefore(l, k)[id] = {}
           /\ \A id \in CoresStages(k) :
                 LaunchBefore(l, k)[id] = WeightCopy(l) \cup CoreBefore(k, id[1], id[2], id[3])
<1>1. \A id \in CoresStages(k) : id[2] \in {"load", "in", "compute", "out"}
    BY StageItems
<1>2. \A id \in WeightCopy(l) : id[2] = "weight"
    BY DEF WeightCopy
<1> QED BY <1>1, <1>2 DEF LaunchBefore

(* A stage reads what the stage before it made of its own row: no later    *)
(* row has taken its buffer yet.                                           *)
RowRead(p, l, k, io, V, c, r, e) ==
    LET before == LaunchBefore(l, k)
        After(S, x) == ValueAfter(p, before, V, S, x)
    IN  /\ \A q \in io.inqs : After(before[<<c, "compute", r>>], Slot(q, c, r, e))
                                  = InValue(k, io, q, c, r, e)
        /\ After(before[<<c, "compute", r>>], WeightCell(c, e)) = WeightOf(l, e)
        /\ \A q \in io.outqs : After(before[<<c, "out", r>>], Slot(q, c, r, e))
                                   = OutValue(l, k, io, q, c, r, e)

(* That is what it reads, since kBufferNum rows separate two uses of a slot. *)
LEMMA ReadsItsRow ==
    ASSUME NEW p, NEW l, NEW k, NEW io, Runs(p, l, k, io), NEW V, V = LaunchValue(l, k, io, p.work),
           NEW c \in Cores(k.rows, k.cores), NEW r \in CoreRows(k, c), NEW e \in Elements(k)
    PROVE  RowRead(p, l, k, io, V, c, r, e)
<1> DEFINE before == LaunchBefore(l, k)
           After(S, x) == ValueAfter(p, before, V, S, x)
<1>0. ValuesAre(p, l, k, io, V)
    BY Values
<1>1. KernelCall(k, io) /\ DOMAIN p.work = WeightCopy(l) \cup CoresStages(k)
    BY DEF Runs
<1>2. /\ io.inqs \cap io.outqs = {} /\ "weight_buf" \notin io.inqs \cup io.outqs
      /\ (io.inqs \cup io.outqs \cup {"weight_buf"}) \cap io.outs = {}
      /\ "weight_fp32" \notin io.inqs \cup io.outqs
      /\ CoreRows(k, c) \subseteq Nat
    BY <1>1, StageItems DEF Runs, KernelCall
<1>3. /\ \A s \in {"in", "compute", "out"}, n \in CoreRows(k, c) :
            /\ <<c, s, n>> \in CoresStages(k)
            /\ before[<<c, s, n>>] = WeightCopy(l) \cup CoreBefore(k, c, s, n)
      /\ <<c, "load", 0>> \in CoresStages(k)
      /\ before[<<c, "load", 0>>] = WeightCopy(l)
    <2>1. /\ \A s \in {"in", "compute", "out"}, n \in CoreRows(k, c) :
                <<c, s, n>> \in CoresStages(k)
          /\ <<c, "load", 0>> \in CoresStages(k)
        BY <1>1, StageItems
    <2>2. \A id \in CoresStages(k) :
             before[id] = WeightCopy(l) \cup CoreBefore(k, id[1], id[2], id[3])
        BY <1>1, BeforeItems
    <2>3. CoreBefore(k, c, "load", 0) = {}
        BY DEF CoreBefore
    <2> HIDE DEF before
    <2> QED BY <2>1, <2>2, <2>3
<1>4. /\ \A id \in WeightCopy(l) : id[1] = -1
      /\ c \in Nat
    BY <1>1, StageItems DEF WeightCopy
<1>5. /\ before[<<c, "compute", r>>] \subseteq DOMAIN p.work
      /\ before[<<c, "out", r>>] \subseteq DOMAIN p.work
    BY <1>1, <1>3 DEF CoreBefore
<1> HIDE DEF before
<1>6. ASSUME NEW q \in io.inqs
      PROVE  After(before[<<c, "compute", r>>], Slot(q, c, r, e)) = InValue(k, io, q, c, r, e)
    <2> DEFINE S == before[<<c, "compute", r>>]
               i == <<c, "in", r>>
               x == Slot(q, c, r, e)
    <2>1. i \in S
        BY <1>2, <1>3 DEF CoreBefore
    <2>2. x[1] = q /\ x[2][1] = c /\ x[2][2] = r % kBufferNum
        BY DEF Slot
    <2>3. x \in Writes(p.work[i]) /\ V[i][x] = InValue(k, io, q, c, r, e)
        BY <1>0 DEF ValuesAre
    <2>4. ASSUME NEW m \in S, x \in Writes(p.work[m])
          PROVE  m = i \/ (m \in before[i] /\ i \notin before[m])
        <3>1. PICK n \in CoreRows(k, c) : m = <<c, "in", n>>
            BY <1>2, <1>5, <2>2, <2>4, Writers
        <3>2. n <= r
            BY <3>1, <1>2, <1>3, <1>4 DEF CoreBefore
        <3>3. n < r => m \in before[i]
            BY <3>1, <1>2, <1>3 DEF CoreBefore
        <3>4. n < r => i \notin before[m]
            BY <3>1, <1>2, <1>3, <1>4 DEF CoreBefore
        <3> QED BY <3>1, <3>2, <3>3, <3>4, <1>2
    <2> HIDE DEF S, i, x
    <2>5. LastIn(p, before, S, x, i)
        BY <2>1, <2>3, <2>4 DEF LastIn
    <2>6. After(S, x) = V[i][x]
        BY <2>5, LastWrite
    <2> QED BY <2>3, <2>6 DEF S, x
<1>7. After(before[<<c, "compute", r>>], WeightCell(c, e)) = WeightOf(l, e)
    <2> DEFINE S == before[<<c, "compute", r>>]
               i == <<c, "load", 0>>
               x == WeightCell(c, e)
    <2>1. i \in S
        BY <1>2, <1>3 DEF CoreBefore
    <2>2. x[1] = "weight_buf" /\ x[2][1] = c
        BY DEF WeightCell
    <2>3. x \in Writes(p.work[i]) /\ V[i][x] = WeightOf(l, e)
        BY <1>0 DEF ValuesAre
    <2>4. ASSUME NEW m \in S, x \in Writes(p.work[m]) PROVE m = i
        BY <1>2, <1>5, <2>2, <2>4, Writers
    <2> HIDE DEF S, i, x
    <2>5. LastIn(p, before, S, x, i)
        BY <2>1, <2>3, <2>4 DEF LastIn
    <2>6. After(S, x) = V[i][x]
        BY <2>5, LastWrite
    <2> QED BY <2>3, <2>6 DEF S, x
<1>8. ASSUME NEW q \in io.outqs
      PROVE  After(before[<<c, "out", r>>], Slot(q, c, r, e)) = OutValue(l, k, io, q, c, r, e)
    <2> DEFINE S == before[<<c, "out", r>>]
               i == <<c, "compute", r>>
               x == Slot(q, c, r, e)
    <2>1. i \in S
        BY <1>2, <1>3 DEF CoreBefore
    <2>2. x[1] = q /\ x[2][1] = c /\ x[2][2] = r % kBufferNum
        BY DEF Slot
    <2>3. x \in Writes(p.work[i]) /\ V[i][x] = OutValue(l, k, io, q, c, r, e)
        BY <1>0 DEF ValuesAre
    <2>4. ASSUME NEW m \in S, x \in Writes(p.work[m])
          PROVE  m = i \/ (m \in before[i] /\ i \notin before[m])
        <3>1. PICK n \in CoreRows(k, c) : m = <<c, "compute", n>>
            BY <1>2, <1>5, <2>2, <2>4, Writers
        <3>2. n <= r
            BY <3>1, <1>2, <1>3, <1>4 DEF CoreBefore
        <3>3. n < r => m \in before[i]
            BY <3>1, <1>2, <1>3 DEF CoreBefore
        <3>4. n < r => i \notin before[m]
            BY <3>1, <1>2, <1>3, <1>4 DEF CoreBefore
        <3> QED BY <3>1, <3>2, <3>3, <3>4, <1>2
    <2> HIDE DEF S, i, x
    <2>5. LastIn(p, before, S, x, i)
        BY <2>1, <2>3, <2>4 DEF LastIn
    <2>6. After(S, x) = V[i][x]
        BY <2>5, LastWrite
    <2> QED BY <2>3, <2>6 DEF S, x
<1> QED BY <1>6, <1>7, <1>8 DEF before, RowRead

(* Nothing a launch reads of its operands has been overwritten: a row of   *)
(* an output that is an input, too, is written after it has been read.     *)
OperandsRead(p, l, k, io, V, c, e) ==
    LET before == LaunchBefore(l, k)
        After(S, x) == ValueAfter(p, before, V, S, x)
    IN  /\ \A r \in CoreRows(k, c) : \A q \in io.inqs : \A u \in InValue(k, io, q, c, r, e) :
              After(before[<<c, "in", r>>], u) = {u}
        /\ \A u \in Units(k.weight, "float32", e) :
              After(before[<<c, "load", 0>>], u)
                 = IF WeightCopy(l) = {} THEN {u} ELSE WeightOf(l, e)
        /\ \A id \in WeightCopy(l) : \A u \in WeightOf(l, e) : After(before[id], u) = {u}

(* Operands are read before they are overwritten, if they ever are.        *)
LEMMA ReadsOperands ==
    ASSUME NEW p, NEW l, NEW k, NEW io, Runs(p, l, k, io), NEW V, V = LaunchValue(l, k, io, p.work),
           NEW c \in Cores(k.rows, k.cores), NEW e \in Elements(k)
    PROVE  OperandsRead(p, l, k, io, V, c, e)
<1> DEFINE before == LaunchBefore(l, k)
           After(S, x) == ValueAfter(p, before, V, S, x)
<1>0. ValuesAre(p, l, k, io, V)
    BY Values
<1>1. KernelCall(k, io) /\ DOMAIN p.work = WeightCopy(l) \cup CoresStages(k)
    BY DEF Runs
<1>2. /\ (io.ins \cup io.outs) \cap (io.inqs \cup io.outqs \cup {"weight_buf"}) = {}
      /\ "weight_fp32" \notin io.ins
    BY <1>1 DEF Runs, KernelCall
<1>3. /\ \A r \in CoreRows(k, c) : before[<<c, "in", r>>]
                                       = WeightCopy(l) \cup CoreBefore(k, c, "in", r)
      /\ before[<<c, "load", 0>>] = WeightCopy(l)
      /\ \A id \in WeightCopy(l) : before[id] = {}
    <2>1. /\ \A s \in {"in", "compute", "out"}, n \in CoreRows(k, c) :
                <<c, s, n>> \in CoresStages(k)
          /\ <<c, "load", 0>> \in CoresStages(k)
        BY <1>1, StageItems
    <2>2. /\ \A id \in CoresStages(k) :
                before[id] = WeightCopy(l) \cup CoreBefore(k, id[1], id[2], id[3])
          /\ \A id \in WeightCopy(l) : before[id] = {}
        BY <1>1, BeforeItems
    <2>3. CoreBefore(k, c, "load", 0) = {}
        BY DEF CoreBefore
    <2> HIDE DEF before
    <2> QED BY <2>1, <2>2, <2>3
<1>4. /\ \A r \in CoreRows(k, c), s \in {"in", "compute", "out"} : <<c, s, r>> \in CoresStages(k)
      /\ <<c, "load", 0>> \in CoresStages(k)
    BY <1>1, StageItems
<1> HIDE DEF before
<1>5. ASSUME NEW r \in CoreRows(k, c), NEW q \in io.inqs, NEW u \in InValue(k, io, q, c, r, e)
      PROVE  After(before[<<c, "in", r>>], u) = {u}
    <2>1. u[1] \in io.ins
        BY DEF InValue, Units, Runs
    <2>2. u \in p.inputs
        BY DEF Runs
    <2>3. ASSUME NEW m \in before[<<c, "in", r>>] PROVE u \notin Writes(p.work[m])
        <3>1. m \in WeightCopy(l) \/ m \in CoreBefore(k, c, "in", r)
            BY <1>3
        <3>2. m \in DOMAIN p.work
            BY <3>1, <1>1, <1>4 DEF CoreBefore
        <3>3. m[2] # "out"
            <4>1. CASE m \in WeightCopy(l)
                BY <4>1 DEF WeightCopy
            <4>2. CASE m \in CoreBefore(k, c, "in", r)
                BY <4>2 DEF CoreBefore
            <4> QED BY <3>1, <4>1, <4>2
        <3> QED BY <3>2, <3>3, <2>1, <1>2, Writers
    <2> QED BY <2>2, <2>3, NoWrite
<1>6. ASSUME NEW u \in Units(k.weight, "float32", e)
      PROVE  After(before[<<c, "load", 0>>], u)
                = IF WeightCopy(l) = {} THEN {u} ELSE WeightOf(l, e)
    <2>1. CASE WeightCopy(l) = {}
        <3>1. u \in p.inputs
            BY <2>1 DEF Runs
        <3> QED BY <3>1, <2>1, <1>3, NoWrite
    <2>2. CASE WeightCopy(l) # {}
        <3>1. PICK i : WeightCopy(l) = {i}
            BY <2>2 DEF WeightCopy
        <3>2. u \in Writes(p.work[i]) /\ V[i][u] = WeightOf(l, e)
            BY <3>1, <1>0 DEF ValuesAre
        <3>3. LastIn(p, before, {i}, u, i)
            BY <3>2 DEF LastIn
        <3>4. After({i}, u) = V[i][u]
            BY <3>3, LastWrite
        <3> QED BY <3>1, <3>2, <3>4, <1>3
    <2> QED BY <2>1, <2>2
<1>7. ASSUME NEW id \in WeightCopy(l), NEW u \in WeightOf(l, e)
      PROVE  After(before[id], u) = {u}
    <2>1. u \in p.inputs
        BY DEF Runs
    <2> QED BY <2>1, <1>3, NoWrite
<1> QED BY <1>5, <1>6, <1>7 DEF before, OperandsRead

(* Every unit of an output is written once, by the core that has its row.  *)
LEMMA WrittenOnce ==
    ASSUME NEW p, NEW l, NEW k, NEW io, Runs(p, l, k, io), NEW V, V = LaunchValue(l, k, io, p.work),
           NEW c \in Cores(k.rows, k.cores), NEW r \in CoreRows(k, c), NEW e \in Elements(k),
           NEW t \in io.outs, NEW u \in Units(t, k.type, RowPosition(k, c, r, e))
    PROVE  ValueAfter(p, LaunchBefore(l, k), V, DOMAIN p.work, u)
              = OutValue(l, k, io, io.sink[t], c, r, e)
<1> DEFINE i == <<c, "out", r>>
<1>1. ValuesAre(p, l, k, io, V)
    BY Values
<1>2. KernelCall(k, io) /\ DOMAIN p.work = WeightCopy(l) \cup CoresStages(k)
    BY DEF Runs
<1>3. i \in DOMAIN p.work
    BY <1>2, StageItems
<1>4. u \in Writes(p.work[i]) /\ V[i][u] = OutValue(l, k, io, io.sink[t], c, r, e)
    BY <1>1 DEF ValuesAre
<1>5. u[1] = t /\ u \in RowUnits(k, io.outs, c, r)
    BY DEF Units, RowUnits
<1>6. /\ io.outs \cap (io.inqs \cup io.outqs \cup {"weight_buf"}) = {}
      /\ "weight_fp32" \notin io.outs
    BY <1>2 DEF Runs, KernelCall
<1>7. ASSUME NEW m \in DOMAIN p.work, u \in Writes(p.work[m]) PROVE m = i
    <2>1. PICK d \in Cores(k.rows, k.cores) : \E s \in CoreRows(k, d) :
             m = <<d, "out", s>> /\ u \in RowUnits(k, io.outs, d, s)
        BY <1>5, <1>6, <1>7, Writers
    <2>2. PICK s \in CoreRows(k, d) : m = <<d, "out", s>> /\ u \in RowUnits(k, io.outs, d, s)
        BY <2>1
    <2>3. c = d /\ r = s
        BY <1>2, <1>5, <2>2, RowOfUnit
    <2> QED BY <2>2, <2>3
<1> HIDE DEF i
<1>8. LastIn(p, LaunchBefore(l, k), DOMAIN p.work, u, i)
    BY <1>3, <1>4, <1>7 DEF LastIn
<1> QED BY <1>4, <1>8, LastWrite

(* Each item computes what LaunchValue says.                               *)
LEMMA ItemsCompute ==
    ASSUME NEW p, NEW l, NEW k, NEW io, Runs(p, l, k, io), NEW V, V = LaunchValue(l, k, io, p.work),
           NEW i \in DOMAIN p.work, NEW x \in Writes(p.work[i])
    PROVE  UNION {ValueAfter(p, LaunchBefore(l, k), V, LaunchBefore(l, k)[i], y) :
                     y \in p.work[i].flow[x] \cap p.alloc} = V[i][x]
<1> DEFINE After(y) == ValueAfter(p, LaunchBefore(l, k), V, LaunchBefore(l, k)[i], y)
           flow == p.work[i].flow[x]
<1>1. ValuesAre(p, l, k, io, V)
    BY Values
<1>2. /\ KernelCall(k, io) /\ DOMAIN p.work = WeightCopy(l) \cup CoresStages(k)
      /\ FlowsOf(k, io, p.work)
    BY DEF Runs
<1>3. flow \subseteq p.alloc
    <2>1. flow \subseteq Reads(p.work[i])
        BY DEF Reads, Writes, Range
    <2> QED BY <2>1 DEF Runs, Confined
<1>4. Elements(k) \subseteq Nat /\ "float32" \in DOMAIN DataTypeSize
    BY DEF Elements, DataTypeSize
<1>5. SUFFICES UNION {After(y) : y \in flow} = V[i][x]
    BY <1>3
<1> HIDE DEF After, flow
<1>6. CASE i \in WeightCopy(l)
    <2>1. PICK e \in Elements(k) : x \in Units(k.weight, "float32", e)
        BY <1>6 DEF Runs, WeightUnits
    <2>2. flow = WeightOf(l, e)
        BY <1>6, <2>1 DEF Runs, flow
    <2>3. V[i][x] = WeightOf(l, e)
        BY <1>1, <1>6, <2>1 DEF ValuesAre
    <2>4. PICK c : c \in Cores(k.rows, k.cores)
        <3>1. UsedCores(k.rows, k.cores) \in Nat \ {0}
            BY <1>2, Shares DEF KernelCall
        <3>2. 0 \in Cores(k.rows, k.cores)
            BY <3>1 DEF Cores
        <3> QED BY <3>2
    <2>5. \A y \in WeightOf(l, e) : After(y) = {y}
        <3>1. OperandsRead(p, l, k, io, V, c, e)
            BY <2>4, ReadsOperands
        <3> QED BY <1>6, <3>1 DEF OperandsRead, After
    <2> QED BY <2>2, <2>3, <2>5
<1>7. CASE i \in CoresStages(k)
    <2>1. PICK c \in Cores(k.rows, k.cores) :
             \/ i = <<c, "load", 0>>
             \/ \E r \in CoreRows(k, c), s \in {"in", "compute", "out"} : i = <<c, s, r>>
        BY <1>2, <1>7, StageItems
    <2>2. x \in StageWrites(k, io, i[1], i[2], i[3])
        BY <1>2, <1>7 DEF FlowsOf
    <2>3. CASE i = <<c, "load", 0>>
        <3>1. PICK e \in Elements(k) : x = WeightCell(c, e)
            BY <2>2, <2>3 DEF StageWrites, WeightCells
        <3>2. flow = Units(k.weight, "float32", e)
            BY <1>2, <2>3, <3>1 DEF FlowsOf, flow
        <3>3. V[i][x] = WeightOf(l, e)
            BY <1>1, <2>3, <3>1 DEF ValuesAre
        <3>4. \A y \in flow : After(y) = IF WeightCopy(l) = {} THEN {y} ELSE WeightOf(l, e)
            <4>1. OperandsRead(p, l, k, io, V, c, e)
                BY ReadsOperands
            <4> QED BY <2>3, <3>2, <4>1 DEF OperandsRead, After
        <3>5. CASE WeightCopy(l) = {}
            <4>1. WeightOf(l, e) = flow
                BY <3>2, <3>5 DEF Runs
            <4> QED BY <3>3, <3>4, <3>5, <4>1
        <3>6. CASE WeightCopy(l) # {}
            <4>1. flow # {}
                BY <1>4, <3>2, UnitsExist
            <4> QED BY <3>3, <3>4, <3>6, <4>1
        <3> QED BY <3>5, <3>6
    <2>4. ASSUME NEW r \in CoreRows(k, c), i = <<c, "in", r>>
          PROVE  UNION {After(y) : y \in flow} = V[i][x]
        <3>1. PICK q \in io.inqs, e \in Elements(k) : x = Slot(q, c, r, e)
            BY <2>2, <2>4 DEF StageWrites, Slots
        <3>2. flow = InValue(k, io, q, c, r, e)
            <4>1. p.work[<<c, "in", r>>].flow[Slot(q, c, r, e)] = InValue(k, io, q, c, r, e)
                BY <1>2 DEF FlowsOf, RowsCopiedIn
            <4> QED BY <2>4, <3>1, <4>1 DEF flow
        <3>3. V[i][x] = InValue(k, io, q, c, r, e)
            BY <1>1, <2>4, <3>1 DEF ValuesAre
        <3>4. \A y \in flow : After(y) = {y}
            <4>1. OperandsRead(p, l, k, io, V, c, e)
                BY ReadsOperands
            <4> QED BY <2>4, <3>2, <4>1 DEF OperandsRead, After
        <3> QED BY <3>2, <3>3, <3>4
    <2>5. ASSUME NEW r \in CoreRows(k, c), i = <<c, "compute", r>>
          PROVE  UNION {After(y) : y \in flow} = V[i][x]
        <3>1. PICK q \in io.outqs, e \in Elements(k) : x = Slot(q, c, r, e)
            BY <2>2, <2>5 DEF StageWrites, Slots
        <3> DEFINE needs == io.needs[q][e]
                   weight == io.weighted \cap {q}
        <3>2. flow = {Slot(n[1], c, r, n[2]) : n \in needs} \cup {WeightCell(c, e) : z \in weight}
            <4>1. p.work[<<c, "compute", r>>].flow[Slot(q, c, r, e)]
                     = {Slot(n[1], c, r, n[2]) : n \in needs} \cup {WeightCell(c, e) : z \in weight}
                BY <1>2 DEF FlowsOf, RowsComputed
            <4> QED BY <2>5, <3>1, <4>1 DEF flow
        <3>3. V[i][x] = OutValue(l, k, io, q, c, r, e)
            BY <1>1, <2>5, <3>1 DEF ValuesAre
        <3>4. \A n \in needs : After(Slot(n[1], c, r, n[2])) = InValue(k, io, n[1], c, r, n[2])
            <4>1. needs \subseteq io.inqs \X Elements(k)
                BY DEF Runs
            <4>2. ASSUME NEW q2 \in io.inqs, NEW d \in Elements(k)
                  PROVE  After(Slot(q2, c, r, d)) = InValue(k, io, q2, c, r, d)
                <5>1. RowRead(p, l, k, io, V, c, r, d)
                    BY ReadsItsRow
                <5> QED BY <2>5, <5>1 DEF RowRead, After
            <4> QED BY <4>1, <4>2
        <3>5. After(WeightCell(c, e)) = WeightOf(l, e)
            <4>1. RowRead(p, l, k, io, V, c, r, e)
                BY ReadsItsRow
            <4> QED BY <2>5, <4>1 DEF RowRead, After
        <3>6. OutValue(l, k, io, q, c, r, e)
                = (UNION {InValue(k, io, n[1], c, r, n[2]) : n \in needs})
                  \cup (UNION {WeightOf(l, e) : z \in weight})
            BY DEF OutValue
        <3> HIDE DEF needs, weight
        <3>7. (UNION {After(y) : y \in flow})
                = (UNION {After(Slot(n[1], c, r, n[2])) : n \in needs})
                  \cup (UNION {After(WeightCell(c, e)) : z \in weight})
            BY <3>2
        <3> QED BY <3>3, <3>4, <3>5, <3>6, <3>7
    <2>6. ASSUME NEW r \in CoreRows(k, c), i = <<c, "out", r>>
          PROVE  UNION {After(y) : y \in flow} = V[i][x]
        <3>1. PICK t \in io.outs, e \in Elements(k) : x \in Units(t, k.type, RowPosition(k, c, r, e))
            BY <2>2, <2>6 DEF StageWrites, RowUnits
        <3>2. flow = {Slot(io.sink[t], c, r, e)}
            <4>1. p.work[<<c, "out", r>>].flow[x] = {Slot(io.sink[t], c, r, e)}
                BY <1>2, <3>1 DEF FlowsOf, RowsCopiedOut
            <4> QED BY <2>6, <4>1 DEF flow
        <3>3. V[i][x] = OutValue(l, k, io, io.sink[t], c, r, e)
            BY <1>1, <2>6, <3>1 DEF ValuesAre
        <3>4. io.sink[t] \in io.outqs
            BY DEF Runs
        <3>5. After(Slot(io.sink[t], c, r, e)) = OutValue(l, k, io, io.sink[t], c, r, e)
            <4>1. RowRead(p, l, k, io, V, c, r, e)
                BY ReadsItsRow
            <4> QED BY <2>6, <3>4, <4>1 DEF RowRead, After
        <3> QED BY <3>2, <3>3, <3>5
    <2> QED BY <2>1, <2>3, <2>4, <2>5, <2>6
<1> QED BY <1>2, <1>6, <1>7

(* A launch of such a kernel computes what is required of it.              *)
RequiredByRow(p, l, k, io) ==
    /\ p.allowed = p.required
    /\ \A u \in DOMAIN p.required :
          /\ u \in p.alloc
          /\ \E c \in Cores(k.rows, k.cores) : \E r \in CoreRows(k, c) :
             \E e \in Elements(k), t \in io.outs :
                /\ u \in Units(t, k.type, RowPosition(k, c, r, e))
                /\ p.required[u] = OutValue(l, k, io, io.sink[t], c, r, e)

(* With that, the launch meets the condition Computes of KernelLaunch.     *)
LEMMA LaunchComputes ==
    ASSUME NEW p, NEW l, NEW k, NEW io, Runs(p, l, k, io), RequiredByRow(p, l, k, io),
           NEW V, V = LaunchValue(l, k, io, p.work)
    PROVE  Computes(p, LaunchBefore(l, k), V, V)
<1> DEFINE before == LaunchBefore(l, k)
           From(i, c) == UNION {ValueAfter(p, before, V, before[i], r) :
                                   r \in p.work[i].flow[c] \cap p.alloc}
<1>1. \A i \in DOMAIN p.work : \A c \in Writes(p.work[i]) : From(i, c) = V[i][c]
    BY ItemsCompute
<1>2. \A i \in DOMAIN p.work : UNION p.work[i].yields = {}
    BY DEF Runs
<1>3. ASSUME NEW u \in DOMAIN p.required
      PROVE  /\ u \in p.alloc
             /\ p.required[u] = ValueAfter(p, before, V, DOMAIN p.work, u)
             /\ p.allowed[u] = ValueAfter(p, before, V, DOMAIN p.work, u)
    <2>1. PICK c \in Cores(k.rows, k.cores) : \E r \in CoreRows(k, c) :
             \E e \in Elements(k), t \in io.outs :
                /\ u \in Units(t, k.type, RowPosition(k, c, r, e))
                /\ p.required[u] = OutValue(l, k, io, io.sink[t], c, r, e)
        BY DEF RequiredByRow
    <2>2. p.required[u] = ValueAfter(p, before, V, DOMAIN p.work, u)
        BY <2>1, WrittenOnce
    <2> QED BY <2>2 DEF RequiredByRow
<1> HIDE DEF before
<1>4. Computes(p, before, V, V)
    BY <1>1, <1>2, <1>3 DEF Computes
<1> QED BY <1>4 DEF before

-------------------------------------------------------------------------------
(* What the two kernels' stages write, and from what.                      *)
LEMMA RmsNormFlows ==
    ASSUME NEW k, KernelCall(k, RmsNormIO(k)), NEW work,
           work = [id \in CoresStages(k) |-> RmsNormStage(k, id[1], id[2], id[3])]
    PROVE  FlowsOf(k, RmsNormIO(k), work)
<1> DEFINE io == RmsNormIO(k)
<1>0. KernelCall(k, io)
    OBVIOUS
<1>1. /\ io.ins = {k.input} /\ io.outs = {k.out}
      /\ io.inqs = {"in_queue_input"} /\ io.outqs = {"out_queue_out"}
      /\ io.source["in_queue_input"] = k.input /\ io.sink[k.out] = "out_queue_out"
      /\ \A e \in Elements(k) : io.needs["out_queue_out"][e] = {"in_queue_input"} \X Elements(k)
      /\ io.weighted = {"out_queue_out"}
    BY DEF RmsNormIO
<1> HIDE DEF io
<1>2. ASSUME NEW f, NEW a
      PROVE  Writes(Item(f, a)) = DOMAIN f /\ Item(f, a).flow = f
    BY DEF Writes, Item
<1>3. ASSUME NEW c \in Cores(k.rows, k.cores)
      PROVE  /\ Writes(work[<<c, "load", 0>>]) = WeightCells(k, c)
             /\ work[<<c, "load", 0>>].flow = LoadWeightFlow(k, c)
    <2>1. work[<<c, "load", 0>>] = Item(LoadWeightFlow(k, c), {})
        BY <1>3, <1>0, StageItems DEF RmsNormStage
    <2> QED BY <2>1, <1>2, LoadWeightTouches
<1>4. ASSUME NEW c \in Cores(k.rows, k.cores), NEW r \in CoreRows(k, c)
      PROVE  /\ Writes(work[<<c, "in", r>>]) = Slots(k, io.inqs, c, r)
             /\ work[<<c, "in", r>>].flow = CopyInFlow(k, c, r, k.input, "in_queue_input")
    <2> DEFINE f == CopyInFlow(k, c, r, k.input, "in_queue_input")
    <2>1. work[<<c, "in", r>>] = Item(f, CopyInAfter(k, c, r))
        BY <1>4, <1>0, StageItems DEF RmsNormStage
    <2>2. k.input \in io.ins /\ "in_queue_input" \in io.inqs
        BY <1>1
    <2>3. DOMAIN f = Slots(k, {"in_queue_input"}, c, r)
        BY <2>2, CopyInTouches
    <2> HIDE DEF f
    <2>4. Writes(work[<<c, "in", r>>]) = DOMAIN f /\ work[<<c, "in", r>>].flow = f
        BY <2>1, <1>2
    <2> QED BY <2>3, <2>4, <1>1 DEF f
<1>5. ASSUME NEW c \in Cores(k.rows, k.cores), NEW r \in CoreRows(k, c)
      PROVE  /\ Writes(work[<<c, "compute", r>>]) = Slots(k, io.outqs, c, r)
             /\ work[<<c, "compute", r>>].flow = RmsNormCompute(k, c, r)
    <2>1. work[<<c, "compute", r>>] = Item(RmsNormCompute(k, c, r), ComputeAfter(k, c, r))
        BY <1>5, <1>0, StageItems DEF RmsNormStage
    <2> QED BY <2>1, <1>1, <1>2, RmsNormComputeTouches
<1>6. ASSUME NEW c \in Cores(k.rows, k.cores), NEW r \in CoreRows(k, c)
      PROVE  /\ Writes(work[<<c, "out", r>>]) = RowUnits(k, io.outs, c, r)
             /\ work[<<c, "out", r>>].flow = CopyOutFlow(k, c, r, "out_queue_out", k.out)
    <2> DEFINE f == CopyOutFlow(k, c, r, "out_queue_out", k.out)
    <2>1. work[<<c, "out", r>>] = Item(f, CopyOutAfter(k, c, r))
        BY <1>6, <1>0, StageItems DEF RmsNormStage
    <2>2. k.out \in io.outs /\ "out_queue_out" \in io.outqs
        BY <1>1
    <2>3. DOMAIN f = RowUnits(k, {k.out}, c, r)
        BY <2>2, <1>0, <1>6, CopyOutTouches
    <2> HIDE DEF f
    <2>4. Writes(work[<<c, "out", r>>]) = DOMAIN f /\ work[<<c, "out", r>>].flow = f
        BY <2>1, <1>2
    <2> QED BY <2>3, <2>4, <1>1 DEF f
<1>7. ASSUME NEW id \in CoresStages(k)
      PROVE  Writes(work[id]) = StageWrites(k, io, id[1], id[2], id[3])
    <2>1. PICK c \in Cores(k.rows, k.cores) :
             \/ id = <<c, "load", 0>>
             \/ \E r \in CoreRows(k, c), s \in {"in", "compute", "out"} : id = <<c, s, r>>
        BY <1>0, StageItems
    <2> QED BY <2>1, <1>3, <1>4, <1>5, <1>6 DEF StageWrites
<1>8. ASSUME NEW c \in Cores(k.rows, k.cores), NEW e \in Elements(k)
      PROVE  work[<<c, "load", 0>>].flow[WeightCell(c, e)] = Units(k.weight, "float32", e)
    <2>1. LoadWeightFlow(k, c)[WeightCell(c, e)] = Units(k.weight, "float32", e)
        BY DEF LoadWeightFlow, WeightCell, Elements
    <2> QED BY <2>1, <1>3
<1>9. RowsCopiedIn(k, io, work)
    <2> SUFFICES ASSUME NEW c \in Cores(k.rows, k.cores), NEW r \in CoreRows(k, c),
                        NEW e \in Elements(k)
                 PROVE  work[<<c, "in", r>>].flow[Slot("in_queue_input", c, r, e)]
                           = InValue(k, io, "in_queue_input", c, r, e)
        BY <1>1 DEF RowsCopiedIn
    <2>1. CopyInFlow(k, c, r, k.input, "in_queue_input")[Slot("in_queue_input", c, r, e)]
            = Units(k.input, k.type, RowPosition(k, c, r, e))
        BY DEF CopyInFlow, Slot, Elements
    <2> QED BY <2>1, <1>1, <1>4 DEF InValue
<1>10. RowsComputed(k, io, work)
    <2> SUFFICES ASSUME NEW c \in Cores(k.rows, k.cores), NEW r \in CoreRows(k, c),
                        NEW e \in Elements(k), NEW q \in io.outqs
                 PROVE  work[<<c, "compute", r>>].flow[Slot(q, c, r, e)]
                           = {Slot(n[1], c, r, n[2]) : n \in io.needs[q][e]}
                             \cup {WeightCell(c, e) : z \in io.weighted \cap {q}}
        BY DEF RowsComputed
    <2>1. q = "out_queue_out" /\ io.weighted \cap {q} = {"out_queue_out"}
        BY <1>1
    <2>2. RmsNormCompute(k, c, r)[Slot("out_queue_out", c, r, e)]
            = {Slot("in_queue_input", c, r, d) : d \in Elements(k)} \cup {WeightCell(c, e)}
        BY DEF RmsNormCompute, Slot, Elements
    <2>3. io.needs[q][e] = {"in_queue_input"} \X Elements(k)
        BY <1>1, <2>1
    <2>4. {Slot("in_queue_input", c, r, d) : d \in Elements(k)}
            = {Slot(n[1], c, r, n[2]) : n \in {"in_queue_input"} \X Elements(k)}
        <3> DEFINE N == {"in_queue_input"} \X Elements(k)
        <3>1. ASSUME NEW d \in Elements(k)
              PROVE  Slot("in_queue_input", c, r, d) \in {Slot(n[1], c, r, n[2]) : n \in N}
            <4>1. <<"in_queue_input", d>> \in N
                OBVIOUS
            <4> QED BY <4>1
        <3>2. ASSUME NEW n \in N
              PROVE  Slot(n[1], c, r, n[2]) \in {Slot("in_queue_input", c, r, d) : d \in Elements(k)}
            <4>1. n[1] = "in_queue_input" /\ n[2] \in Elements(k)
                OBVIOUS
            <4> QED BY <4>1
        <3> QED BY <3>1, <3>2
    <2>5. {WeightCell(c, e)} = {WeightCell(c, e) : z \in {"out_queue_out"}}
        OBVIOUS
    <2> QED BY <2>1, <2>2, <2>3, <2>4, <2>5, <1>5
<1>11. RowsCopiedOut(k, io, work)
    <2> SUFFICES ASSUME NEW c \in Cores(k.rows, k.cores), NEW r \in CoreRows(k, c),
                        NEW e \in Elements(k), NEW t \in io.outs,
                        NEW u \in Units(t, k.type, RowPosition(k, c, r, e))
                 PROVE  work[<<c, "out", r>>].flow[u] = {Slot(io.sink[t], c, r, e)}
        BY DEF RowsCopiedOut
    <2>1. t = k.out /\ io.sink[t] = "out_queue_out"
        BY <1>1
    <2>2. u[2] \div Width(k.type) - RowPosition(k, c, r, 0) = e
        BY <1>0, UnitOffset
    <2>3. CopyOutFlow(k, c, r, "out_queue_out", k.out)[u] = {Slot("out_queue_out", c, r, e)}
        <3>1. u \in Units(k.out, k.type, RowPosition(k, c, r, e))
            BY <2>1
        <3> QED BY <2>2, <3>1 DEF CopyOutFlow, Elements
    <2> QED BY <2>1, <2>3, <1>6
<1>12. FlowsOf(k, io, work)
    BY <1>7, <1>8, <1>9, <1>10, <1>11 DEF FlowsOf
<1> QED BY <1>12 DEF io

(* Two copies of one stage write what each writes.                         *)
LEMMA BothValues ==
    ASSUME NEW f, NEW g
    PROVE  /\ DOMAIN Both(f, g) = DOMAIN f \cup DOMAIN g
           /\ \A x \in DOMAIN f : Both(f, g)[x] = f[x]
           /\ \A x \in DOMAIN g : x \notin DOMAIN f => Both(f, g)[x] = g[x]
BY DEF Both

(* A copy in fills a slot with its element of the row.                     *)
LEMMA CopyInValue ==
    ASSUME NEW k, NEW c, NEW r, NEW t, NEW q, NEW e \in Elements(k)
    PROVE  /\ DOMAIN CopyInFlow(k, c, r, t, q) = {Slot(q, c, r, d) : d \in Elements(k)}
           /\ CopyInFlow(k, c, r, t, q)[Slot(q, c, r, e)]
                = Units(t, k.type, RowPosition(k, c, r, e))
BY DEF CopyInFlow, Slot, Elements

(* A copy out fills a row's element from its slot.                         *)
LEMMA CopyOutValue ==
    ASSUME NEW k, NEW io, KernelCall(k, io), NEW c \in Cores(k.rows, k.cores),
           NEW r \in CoreRows(k, c), NEW e \in Elements(k), NEW q, NEW t,
           NEW u \in Units(t, k.type, RowPosition(k, c, r, e))
    PROVE  CopyOutFlow(k, c, r, q, t)[u] = {Slot(q, c, r, e)}
<1>1. u[2] \div Width(k.type) - RowPosition(k, c, r, 0) = e
    BY UnitOffset
<1> QED BY <1>1 DEF CopyOutFlow, Elements

(* A copy out writes one row.                                              *)
LEMMA CopyOutDomain ==
    ASSUME NEW k, NEW c, NEW r, NEW q, NEW t
    PROVE  DOMAIN CopyOutFlow(k, c, r, q, t) = RowUnits(k, {t}, c, r)
BY DEF CopyOutFlow, RowUnits, Elements

(* As RmsNormFlows, with two rows in and two out, which must not be one.   *)
LEMMA AddRmsNormFlows ==
    ASSUME NEW k, KernelCall(k, AddRmsNormIO(k)), k.out # k.residual_out, NEW work,
           work = [id \in CoresStages(k) |-> AddRmsNormStage(k, id[1], id[2], id[3])]
    PROVE  FlowsOf(k, AddRmsNormIO(k), work)
<1> DEFINE io == AddRmsNormIO(k)
<1>0. KernelCall(k, io)
    OBVIOUS
<1>1. /\ io.ins = {k.input, k.residual} /\ io.outs = {k.out, k.residual_out}
      /\ io.inqs = {"in_queue_input", "in_queue_residual"}
      /\ io.outqs = {"out_queue_out", "out_queue_residual_out"}
      /\ io.source["in_queue_input"] = k.input /\ io.source["in_queue_residual"] = k.residual
      /\ io.sink[k.out] = "out_queue_out" /\ io.sink[k.residual_out] = "out_queue_residual_out"
      /\ \A e \in Elements(k) : io.needs["out_queue_out"][e] = io.inqs \X Elements(k)
      /\ \A e \in Elements(k) : io.needs["out_queue_residual_out"][e] = io.inqs \X {e}
      /\ io.weighted = {"out_queue_out"}
    BY DEF AddRmsNormIO
<1> HIDE DEF io
<1>2. ASSUME NEW f, NEW a
      PROVE  Writes(Item(f, a)) = DOMAIN f /\ Item(f, a).flow = f
    BY DEF Writes, Item
<1>3. ASSUME NEW c \in Cores(k.rows, k.cores)
      PROVE  /\ Writes(work[<<c, "load", 0>>]) = WeightCells(k, c)
             /\ work[<<c, "load", 0>>].flow = LoadWeightFlow(k, c)
    <2>1. work[<<c, "load", 0>>] = Item(LoadWeightFlow(k, c), {})
        BY <1>3, <1>0, StageItems DEF AddRmsNormStage
    <2> QED BY <2>1, <1>2, LoadWeightTouches
<1>4. ASSUME NEW c \in Cores(k.rows, k.cores), NEW r \in CoreRows(k, c)
      PROVE  /\ Writes(work[<<c, "in", r>>]) = Slots(k, io.inqs, c, r)
             /\ \A e \in Elements(k), q \in io.inqs :
                   work[<<c, "in", r>>].flow[Slot(q, c, r, e)] = InValue(k, io, q, c, r, e)
    <2> DEFINE f == CopyInFlow(k, c, r, k.input, "in_queue_input")
               g == CopyInFlow(k, c, r, k.residual, "in_queue_residual")
    <2>1. work[<<c, "in", r>>] = Item(Both(f, g), CopyInAfter(k, c, r))
        BY <1>4, <1>0, StageItems DEF AddRmsNormStage
    <2>2. /\ k.input \in io.ins /\ "in_queue_input" \in io.inqs
          /\ k.residual \in io.ins /\ "in_queue_residual" \in io.inqs
        BY <1>1
    <2>3. DOMAIN f = Slots(k, {"in_queue_input"}, c, r)
        BY <2>2, CopyInTouches
    <2>4. DOMAIN g = Slots(k, {"in_queue_residual"}, c, r)
        BY <2>2, CopyInTouches
    <2>5. ASSUME NEW e \in Elements(k)
          PROVE  /\ f[Slot("in_queue_input", c, r, e)] = InValue(k, io, "in_queue_input", c, r, e)
                 /\ g[Slot("in_queue_residual", c, r, e)]
                      = InValue(k, io, "in_queue_residual", c, r, e)
        <3>1. f[Slot("in_queue_input", c, r, e)] = Units(k.input, k.type, RowPosition(k, c, r, e))
            BY CopyInValue
        <3>2. g[Slot("in_queue_residual", c, r, e)]
                = Units(k.residual, k.type, RowPosition(k, c, r, e))
            BY CopyInValue
        <3> QED BY <3>1, <3>2, <1>1 DEF InValue
    <2> HIDE DEF f, g
    <2>6. /\ DOMAIN Both(f, g) = DOMAIN f \cup DOMAIN g
          /\ \A x \in DOMAIN f : Both(f, g)[x] = f[x]
          /\ \A x \in DOMAIN g : x \notin DOMAIN f => Both(f, g)[x] = g[x]
        BY BothValues
    <2>7. DOMAIN Both(f, g) = Slots(k, io.inqs, c, r)
        BY <2>3, <2>4, <2>6, <1>1 DEF Slots
    <2>8. ASSUME NEW e \in Elements(k)
          PROVE  /\ Slot("in_queue_input", c, r, e) \in DOMAIN f
                 /\ Slot("in_queue_residual", c, r, e) \in DOMAIN g
                 /\ Slot("in_queue_residual", c, r, e) \notin DOMAIN f
        BY <2>3, <2>4 DEF Slots, Slot
    <2>9. Writes(work[<<c, "in", r>>]) = DOMAIN Both(f, g) /\ work[<<c, "in", r>>].flow = Both(f, g)
        BY <2>1, <1>2
    <2>10. ASSUME NEW e \in Elements(k), NEW q \in io.inqs
           PROVE  work[<<c, "in", r>>].flow[Slot(q, c, r, e)] = InValue(k, io, q, c, r, e)
        <3>1. q = "in_queue_input" \/ q = "in_queue_residual"
            BY <1>1
        <3> QED BY <3>1, <2>5, <2>6, <2>8, <2>9
    <2> QED BY <2>7, <2>9, <2>10
<1>5. ASSUME NEW c \in Cores(k.rows, k.cores), NEW r \in CoreRows(k, c)
      PROVE  /\ Writes(work[<<c, "compute", r>>]) = Slots(k, io.outqs, c, r)
             /\ \A e \in Elements(k), q \in io.outqs :
                   work[<<c, "compute", r>>].flow[Slot(q, c, r, e)]
                      = {Slot(n[1], c, r, n[2]) : n \in io.needs[q][e]}
                        \cup {WeightCell(c, e) : z \in io.weighted \cap {q}}
    <2> DEFINE pair(e) == {Slot("in_queue_input", c, r, e), Slot("in_queue_residual", c, r, e)}
               needed(N) == {Slot(n[1], c, r, n[2]) : n \in N}
               f == [o \in {Slot("out_queue_out", c, r, e) : e \in Elements(k)} |->
                        (UNION {pair(e) : e \in Elements(k)}) \cup {WeightCell(c, o[2][3])}]
               g == [o \in {Slot("out_queue_residual_out", c, r, e) : e \in Elements(k)} |->
                        pair(o[2][3])]
    <2>1. work[<<c, "compute", r>>] = Item(AddRmsNormCompute(k, c, r), ComputeAfter(k, c, r))
        BY <1>5, <1>0, StageItems DEF AddRmsNormStage
    <2>2. AddRmsNormCompute(k, c, r) = Both(f, g)
        BY DEF AddRmsNormCompute, Elements
    <2>3. DOMAIN AddRmsNormCompute(k, c, r) = Slots(k, io.outqs, c, r)
        BY <1>1, AddRmsNormComputeTouches
    <2>4. /\ Writes(work[<<c, "compute", r>>]) = Slots(k, io.outqs, c, r)
          /\ work[<<c, "compute", r>>].flow = Both(f, g)
        BY <2>1, <2>2, <2>3, <1>2
    <2>5. ASSUME NEW S PROVE UNION {pair(e) : e \in S} = needed(io.inqs \X S)
        <3>1. ASSUME NEW e \in S PROVE pair(e) \subseteq needed(io.inqs \X S)
            <4>1. <<"in_queue_input", e>> \in io.inqs \X S /\ <<"in_queue_residual", e>> \in io.inqs \X S
                BY <1>1
            <4> QED BY <4>1
        <3>2. ASSUME NEW n \in io.inqs \X S
              PROVE  Slot(n[1], c, r, n[2]) \in UNION {pair(e) : e \in S}
            <4>1. n[2] \in S /\ (n[1] = "in_queue_input" \/ n[1] = "in_queue_residual")
                BY <1>1
            <4> QED BY <4>1
        <3> QED BY <3>1, <3>2
    <2>6. ASSUME NEW e \in Elements(k)
          PROVE  /\ Slot("out_queue_out", c, r, e) \in DOMAIN f
                 /\ f[Slot("out_queue_out", c, r, e)]
                      = (UNION {pair(d) : d \in Elements(k)}) \cup {WeightCell(c, e)}
                 /\ Slot("out_queue_residual_out", c, r, e) \in DOMAIN g
                 /\ Slot("out_queue_residual_out", c, r, e) \notin DOMAIN f
                 /\ g[Slot("out_queue_residual_out", c, r, e)] = pair(e)
        <3>1. /\ Slot("out_queue_out", c, r, e)[2][3] = e
              /\ Slot("out_queue_residual_out", c, r, e)[2][3] = e
            BY DEF Slot
        <3>2. \A d \in Elements(k) : Slot("out_queue_residual_out", c, r, e)
                                        # Slot("out_queue_out", c, r, d)
            BY DEF Slot
        <3> HIDE DEF pair
        <3> QED BY <3>1, <3>2
    <2>7. ASSUME NEW e \in Elements(k) PROVE pair(e) = UNION {pair(d) : d \in {e}}
        OBVIOUS
    <2> HIDE DEF f, g, pair
    <2>8. /\ \A x \in DOMAIN f : Both(f, g)[x] = f[x]
          /\ \A x \in DOMAIN g : x \notin DOMAIN f => Both(f, g)[x] = g[x]
        BY BothValues
    <2>9. ASSUME NEW e \in Elements(k), NEW q \in io.outqs
          PROVE  Both(f, g)[Slot(q, c, r, e)]
                    = needed(io.needs[q][e]) \cup {WeightCell(c, e) : z \in io.weighted \cap {q}}
        <3>1. CASE q = "out_queue_out"
            <4>1. io.weighted \cap {q} = {q} /\ io.needs[q][e] = io.inqs \X Elements(k)
                BY <3>1, <1>1
            <4>2. Both(f, g)[Slot(q, c, r, e)] = needed(io.inqs \X Elements(k)) \cup {WeightCell(c, e)}
                BY <3>1, <2>5, <2>6, <2>8
            <4> HIDE DEF needed
            <4> QED BY <4>1, <4>2
        <3>2. CASE q = "out_queue_residual_out"
            <4>1. io.weighted \cap {q} = {} /\ io.needs[q][e] = io.inqs \X {e}
                BY <3>2, <1>1
            <4>2. Both(f, g)[Slot(q, c, r, e)] = needed(io.inqs \X {e})
                BY <3>2, <2>5, <2>6, <2>7, <2>8
            <4> HIDE DEF needed
            <4> QED BY <4>1, <4>2
        <3> QED BY <3>1, <3>2, <1>1
    <2> QED BY <2>4, <2>9
<1>6. ASSUME NEW c \in Cores(k.rows, k.cores), NEW r \in CoreRows(k, c)
      PROVE  /\ Writes(work[<<c, "out", r>>]) = RowUnits(k, io.outs, c, r)
             /\ \A e \in Elements(k), t \in io.outs :
                \A u \in Units(t, k.type, RowPosition(k, c, r, e)) :
                   work[<<c, "out", r>>].flow[u] = {Slot(io.sink[t], c, r, e)}
    <2> DEFINE f == CopyOutFlow(k, c, r, "out_queue_out", k.out)
               g == CopyOutFlow(k, c, r, "out_queue_residual_out", k.residual_out)
    <2>1. work[<<c, "out", r>>] = Item(Both(f, g), CopyOutAfter(k, c, r))
        BY <1>6, <1>0, StageItems DEF AddRmsNormStage
    <2>2. /\ k.out \in io.outs /\ "out_queue_out" \in io.outqs
          /\ k.residual_out \in io.outs /\ "out_queue_residual_out" \in io.outqs
        BY <1>1
    <2>3. DOMAIN f = RowUnits(k, {k.out}, c, r)
        BY CopyOutDomain
    <2>4. DOMAIN g = RowUnits(k, {k.residual_out}, c, r)
        BY CopyOutDomain
    <2>5. ASSUME NEW e \in Elements(k)
          PROVE  /\ \A u \in Units(k.out, k.type, RowPosition(k, c, r, e)) :
                       u \in DOMAIN f /\ f[u] = {Slot("out_queue_out", c, r, e)}
                 /\ \A u \in Units(k.residual_out, k.type, RowPosition(k, c, r, e)) :
                       /\ u \in DOMAIN g /\ u \notin DOMAIN f
                       /\ g[u] = {Slot("out_queue_residual_out", c, r, e)}
        <3>1. \A u \in Units(k.out, k.type, RowPosition(k, c, r, e)) :
                 u \in DOMAIN f /\ f[u] = {Slot("out_queue_out", c, r, e)}
            <4>1. \A u \in Units(k.out, k.type, RowPosition(k, c, r, e)) :
                     f[u] = {Slot("out_queue_out", c, r, e)}
                BY <1>0, CopyOutValue
            <4> HIDE DEF f
            <4> QED BY <4>1, <2>3 DEF RowUnits
        <3>2. \A u \in Units(k.residual_out, k.type, RowPosition(k, c, r, e)) :
                 u \in DOMAIN g /\ g[u] = {Slot("out_queue_residual_out", c, r, e)}
            <4>1. \A u \in Units(k.residual_out, k.type, RowPosition(k, c, r, e)) :
                     g[u] = {Slot("out_queue_residual_out", c, r, e)}
                BY <1>0, CopyOutValue
            <4> HIDE DEF g
            <4> QED BY <4>1, <2>4 DEF RowUnits
        <3>3. ASSUME NEW u \in Units(k.residual_out, k.type, RowPosition(k, c, r, e))
              PROVE  u \notin DOMAIN f
            <4>1. u[1] = k.residual_out
                BY DEF Units
            <4>2. \A v \in RowUnits(k, {k.out}, c, r) : v[1] = k.out
                BY DEF RowUnits, Units
            <4> HIDE DEF f
            <4> QED BY <4>1, <4>2, <2>3
        <3> HIDE DEF f, g
        <3> QED BY <3>1, <3>2, <3>3
    <2> HIDE DEF f, g
    <2>6. /\ DOMAIN Both(f, g) = DOMAIN f \cup DOMAIN g
          /\ \A x \in DOMAIN f : Both(f, g)[x] = f[x]
          /\ \A x \in DOMAIN g : x \notin DOMAIN f => Both(f, g)[x] = g[x]
        BY BothValues
    <2>7. DOMAIN Both(f, g) = RowUnits(k, io.outs, c, r)
        BY <2>3, <2>4, <2>6, <1>1 DEF RowUnits
    <2>8. Writes(work[<<c, "out", r>>]) = DOMAIN Both(f, g) /\ work[<<c, "out", r>>].flow = Both(f, g)
        BY <2>1, <1>2
    <2>9. ASSUME NEW e \in Elements(k), NEW t \in io.outs,
                 NEW u \in Units(t, k.type, RowPosition(k, c, r, e))
          PROVE  work[<<c, "out", r>>].flow[u] = {Slot(io.sink[t], c, r, e)}
        <3>1. CASE t = k.out
            BY <3>1, <2>5, <2>6, <2>8, <1>1
        <3>2. CASE t = k.residual_out
            BY <3>2, <2>5, <2>6, <2>8, <1>1
        <3> QED BY <3>1, <3>2, <1>1
    <2> QED BY <2>7, <2>8, <2>9
<1>7. ASSUME NEW id \in CoresStages(k)
      PROVE  Writes(work[id]) = StageWrites(k, io, id[1], id[2], id[3])
    <2>1. PICK c \in Cores(k.rows, k.cores) :
             \/ id = <<c, "load", 0>>
             \/ \E r \in CoreRows(k, c), s \in {"in", "compute", "out"} : id = <<c, s, r>>
        BY <1>0, StageItems
    <2> QED BY <2>1, <1>3, <1>4, <1>5, <1>6, SMTT(30) DEF StageWrites
<1>8. ASSUME NEW c \in Cores(k.rows, k.cores), NEW e \in Elements(k)
      PROVE  work[<<c, "load", 0>>].flow[WeightCell(c, e)] = Units(k.weight, "float32", e)
    <2>1. LoadWeightFlow(k, c)[WeightCell(c, e)] = Units(k.weight, "float32", e)
        BY DEF LoadWeightFlow, WeightCell, Elements
    <2> QED BY <2>1, <1>3
<1>9. RowsCopiedIn(k, io, work) /\ RowsComputed(k, io, work) /\ RowsCopiedOut(k, io, work)
    BY <1>4, <1>5, <1>6 DEF RowsCopiedIn, RowsComputed, RowsCopiedOut
<1>10. FlowsOf(k, io, work)
    BY <1>7, <1>8, <1>9 DEF FlowsOf
<1> QED BY <1>10 DEF io

(* What the launchers' kernels read and make, in terms of their queues.    *)
QueuesOf(k, io) ==
    /\ \A q \in io.outqs : \A e \in Elements(k) : io.needs[q][e] \subseteq io.inqs \X Elements(k)
    /\ \A t \in io.outs : io.sink[t] \in io.outqs
    /\ \A q \in io.inqs : io.source[q] \in io.ins

(* KernelRmsNorm's queues are used so.                                     *)
LEMMA RmsNormQueues ==
    ASSUME NEW k
    PROVE  QueuesOf(k, RmsNormIO(k))
BY DEF QueuesOf, RmsNormIO

(* And KernelAddRmsNorm's.                                                 *)
LEMMA AddRmsNormQueues ==
    ASSUME NEW k
    PROVE  QueuesOf(k, AddRmsNormIO(k))
BY DEF QueuesOf, AddRmsNormIO

(* A launch by the library runs such a kernel.                             *)
LEMMA LauncherRuns ==
    ASSUME NEW l, NEW ins, NEW outs, NEW queues, NEW from, NEW k, NEW io, NEW cores,
           LibraryLaunch(l, ins, outs), Passes(l, ins, outs, queues, k, io),
           StagesOf(k, io, cores), FlowsOf(k, io, cores), QueuesOf(k, io),
           \A t \in ins : Numel(t) = Rows(l) * Align(l)
    PROVE  Runs(LauncherProgram(l, ins, outs, queues, cores, from), l, k, io)
<1> DEFINE p == LauncherProgram(l, ins, outs, queues, cores, from)
<1>1. KernelCall(k, io) /\ l.launcher = "infini"
    BY PassedCall DEF LibraryLaunch
<1>2. IsLaunch(p.work, l, k, cores)
    BY <1>1, LauncherWork
<1>3. Confined(p)
    BY LauncherConfined
<1>4. /\ \A t \in ins : TensorUnits(t) \subseteq p.inputs
      /\ TensorUnits(l.weight) \subseteq p.inputs
    BY DEF LauncherProgram
<1> HIDE DEF p
<1>5. /\ DOMAIN p.work = WeightCopy(l) \cup CoresStages(k)
      /\ \A id \in WeightCopy(l) : p.work[id] = Item(WeightFlow(l), {})
      /\ \A id \in CoresStages(k) :
            p.work[id].flow = cores[id].flow /\ p.work[id].yields = {{}}
    BY <1>2 DEF IsLaunch
<1>6. \A id \in DOMAIN p.work : p.work[id].yields = {{}}
    BY <1>5 DEF Item
<1>7. FlowsOf(k, io, p.work)
    <2>1. \A id \in CoresStages(k) : Writes(p.work[id]) = Writes(cores[id])
        BY <1>5 DEF Writes
    <2>2. ASSUME NEW c \in Cores(k.rows, k.cores)
          PROVE  /\ p.work[<<c, "load", 0>>].flow = cores[<<c, "load", 0>>].flow
                 /\ \A r \in CoreRows(k, c) :
                       /\ p.work[<<c, "in", r>>].flow = cores[<<c, "in", r>>].flow
                       /\ p.work[<<c, "compute", r>>].flow = cores[<<c, "compute", r>>].flow
                       /\ p.work[<<c, "out", r>>].flow = cores[<<c, "out", r>>].flow
        BY <1>1, <1>5, StageItems
    <2>3. RowsCopiedIn(k, io, cores) /\ RowsComputed(k, io, cores) /\ RowsCopiedOut(k, io, cores)
        BY DEF FlowsOf
    <2>4. RowsCopiedIn(k, io, p.work)
        BY <2>2, <2>3 DEF RowsCopiedIn
    <2>5. RowsComputed(k, io, p.work)
        <3> SUFFICES ASSUME NEW c \in Cores(k.rows, k.cores), NEW r \in CoreRows(k, c),
                            NEW e \in Elements(k), NEW q \in io.outqs
                     PROVE  p.work[<<c, "compute", r>>].flow[Slot(q, c, r, e)]
                               = {Slot(n[1], c, r, n[2]) : n \in io.needs[q][e]}
                                 \cup {WeightCell(c, e) : z \in io.weighted \cap {q}}
            BY DEF RowsComputed
        <3>1. cores[<<c, "compute", r>>].flow[Slot(q, c, r, e)]
                 = {Slot(n[1], c, r, n[2]) : n \in io.needs[q][e]}
                   \cup {WeightCell(c, e) : z \in io.weighted \cap {q}}
            BY <2>3 DEF RowsComputed
        <3> QED BY <2>2, <3>1
    <2>6. RowsCopiedOut(k, io, p.work)
        <3> SUFFICES ASSUME NEW c \in Cores(k.rows, k.cores), NEW r \in CoreRows(k, c),
                            NEW e \in Elements(k), NEW t \in io.outs,
                            NEW u \in Units(t, k.type, RowPosition(k, c, r, e))
                     PROVE  p.work[<<c, "out", r>>].flow[u] = {Slot(io.sink[t], c, r, e)}
            BY DEF RowsCopiedOut
        <3>1. cores[<<c, "out", r>>].flow[u] = {Slot(io.sink[t], c, r, e)}
            BY <2>3 DEF RowsCopiedOut
        <3> QED BY <2>2, <3>1
    <2> QED BY <1>5, <2>1, <2>2, <2>4, <2>5, <2>6 DEF FlowsOf
<1>8. "weight_fp32" \notin io.ins \cup io.outs \cup io.inqs \cup io.outqs
    BY DEF Passes, LibraryLaunch, OnChip
<1>9. ASSUME NEW c \in Cores(k.rows, k.cores), NEW r \in CoreRows(k, c), NEW e \in Elements(k),
             NEW q \in io.inqs
      PROVE  InValue(k, io, q, c, r, e) \subseteq p.inputs
    <2>1. io.source[q] \in io.ins
        BY DEF QueuesOf
    <2>2. PICK t \in ins : t.buffer = io.source[q]
        BY <2>1 DEF Passes
    <2>3. RowPosition(k, c, r, e) \in 0..(Rows(l) * Align(l) - 1)
        BY <1>1, PositionInside DEF Passes
    <2>4. t.dtype = k.type
        BY DEF LibraryLaunch, Passes
    <2>5. InValue(k, io, q, c, r, e) \subseteq TensorUnits(t)
        BY <2>2, <2>3, <2>4 DEF InValue, TensorUnits
    <2> QED BY <2>5, <1>4
<1>10. Elements(k) = 0..(Align(l) - 1) /\ Align(l) \in Nat
    BY DEF Passes, LibraryLaunch, Elements
<1>11. ASSUME NEW e \in Elements(k) PROVE WeightOf(l, e) \subseteq p.inputs
    <2>1. e \in 0..(Numel(l.weight) - 1)
        BY <1>10 DEF LibraryLaunch
    <2> QED BY <2>1, <1>4 DEF WeightOf, TensorUnits
<1>12. ASSUME NEW id \in WeightCopy(l)
       PROVE  /\ k.weight = "weight_fp32"
              /\ Writes(p.work[id]) = WeightUnits(k)
              /\ \A e \in Elements(k) : \A u \in Units(k.weight, "float32", e) :
                    p.work[id].flow[u] = WeightOf(l, e)
    <2>1. k.weight = "weight_fp32"
        BY DEF WeightCopy, Passes, WeightBuffer
    <2>2. p.work[id].flow = WeightFlow(l)
        BY <1>5 DEF Item
    <2>3. DOMAIN WeightFlow(l) = WeightUnits(k)
        BY <2>1, <1>10 DEF WeightFlow, WeightUnits
    <2>4. ASSUME NEW e \in Elements(k), NEW u \in Units(k.weight, "float32", e)
          PROVE  WeightFlow(l)[u] = WeightOf(l, e)
        <3>1. u \in DOMAIN WeightFlow(l)
            BY <2>3 DEF WeightUnits
        <3>2. u[2] \div 2 = e
            BY <1>10, UnitElement DEF DataTypeSize, Width
        <3>3. e < NormDim(l.input)
            BY <1>10 DEF LibraryLaunch
        <3>4. WeightFlow(l)[u] = IF u[2] \div 2 < NormDim(l.input)
                                 THEN Units(l.weight.buffer, l.weight.dtype, u[2] \div 2) ELSE {}
            BY <3>1 DEF WeightFlow
        <3> QED BY <3>2, <3>3, <3>4 DEF WeightOf
    <2> QED BY <2>1, <2>2, <2>3, <2>4 DEF Writes
<1>13. ASSUME WeightCopy(l) = {}
       PROVE  \A e \in Elements(k) : WeightOf(l, e) = Units(k.weight, "float32", e)
    <2>1. ~WeightIsCopied(l)
        BY <1>13 DEF WeightCopy
    <2>2. k.weight = l.weight.buffer /\ l.weight.dtype = "float32"
        BY <2>1 DEF WeightIsCopied, WeightBuffer, Passes, LibraryLaunch
    <2> QED BY <2>2 DEF WeightOf
<1>14. Runs(p, l, k, io)
    BY <1>1, <1>3, <1>5, <1>6, <1>7, <1>8, <1>9, <1>11, <1>12, <1>13 DEF Runs, QueuesOf
<1> QED BY <1>14 DEF p

(* What is required of a launch, row by row.                               *)
RequiredOfRows(l, k, io, from) ==
    /\ DOMAIN from = io.outs \X (0..(k.rows * k.align - 1))
    /\ \A i \in 0..(k.rows - 1), e \in Elements(k), t \in io.outs :
          from[<<t, i * k.align + e>>]
             = {<<io.source[n[1]], i * k.align + n[2]>> : n \in io.needs[io.sink[t]][e]}
               \cup {<<l.weight.buffer, e>> : z \in io.weighted \cap {io.sink[t]}}

(* Every position of an output is an element of a row that some core takes. *)
LEMMA PositionTaken ==
    ASSUME NEW k, NEW io, KernelCall(k, io), NEW pos \in 0..(k.rows * k.align - 1)
    PROVE  \E c \in Cores(k.rows, k.cores) : \E r \in CoreRows(k, c) : \E e \in Elements(k) :
              /\ RowOffset(k.rows, k.cores, c) + r \in 0..(k.rows - 1)
              /\ pos = (RowOffset(k.rows, k.cores, c) + r) * k.align + e
<1>1. k.rows \in Nat \ {0} /\ k.cores \in Nat \ {0} /\ k.align \in Nat
    BY DEF KernelCall
<1>2. k.align # 0 /\ pos \in Nat /\ pos < k.align * k.rows
    BY <1>1
<1> DEFINE i == pos \div k.align
           e == pos - k.align * i
<1>3. i \in Nat /\ k.align * i <= pos /\ pos < k.align * i + k.align
    BY <1>1, <1>2, Quotient
<1> HIDE DEF i
<1>4. i < k.rows
    <2>1. CASE k.rows < i
        <3>1. k.align * k.rows + k.align <= k.align * i
            BY <2>1, <1>1, <1>3, LessTimes
        <3> QED BY <3>1, <1>1, <1>2, <1>3
    <2>2. CASE k.rows = i
        BY <2>2, <1>1, <1>2, <1>3
    <2> QED BY <2>1, <2>2, <1>1, <1>3
<1>5. PICK c \in Cores(k.rows, k.cores) : Takes(k.rows, k.cores, c, i)
    <2>1. i \in 0..(k.rows - 1)
        BY <1>1, <1>3, <1>4
    <2> QED BY <1>1, <2>1, EveryRowTaken
<1> DEFINE r == i - RowOffset(k.rows, k.cores, c)
<1>6. RowOffset(k.rows, k.cores, c) \in Nat /\ BlockRows(k.rows, k.cores, c) \in Nat
    <2>1. c \in Nat
        BY DEF Cores
    <2> QED BY <1>1, <2>1, OffsetType
<1>7. r \in CoreRows(k, c) /\ RowOffset(k.rows, k.cores, c) + r = i
    BY <1>3, <1>5, <1>6 DEF Takes, CoreRows
<1>8. k.align * i = i * k.align /\ k.align * i \in Nat
    BY <1>1, <1>3
<1>9. e \in Elements(k) /\ pos = i * k.align + e
    BY <1>1, <1>2, <1>3, <1>8 DEF Elements
<1>10. /\ c \in Cores(k.rows, k.cores) /\ r \in CoreRows(k, c) /\ e \in Elements(k)
       /\ RowOffset(k.rows, k.cores, c) + r \in 0..(k.rows - 1)
       /\ pos = (RowOffset(k.rows, k.cores, c) + r) * k.align + e
    <2> HIDE DEF r, e
    <2> QED BY <1>1, <1>3, <1>4, <1>7, <1>9
<1> HIDE DEF r, e
<1> QED BY <1>10

(* So what is required of each unit is what its element is computed from.  *)
LEMMA RequiredRows ==
    ASSUME NEW l, NEW ins, NEW outs, NEW queues, NEW from, NEW k, NEW io, NEW cores,
           LibraryLaunch(l, ins, outs), Passes(l, ins, outs, queues, k, io), QueuesOf(k, io),
           RequiredOfRows(l, k, io, from)
    PROVE  RequiredByRow(LauncherProgram(l, ins, outs, queues, cores, from), l, k, io)
<1> DEFINE p == LauncherProgram(l, ins, outs, queues, cores, from)
           unitsOf(S) == UNION {Units(x[1], k.type, x[2]) : x \in S}
<1>1. KernelCall(k, io) /\ l.launcher = "infini" /\ k.type = l.input.dtype
    <2>1. KernelCall(k, io)
        BY PassedCall
    <2> QED BY <2>1 DEF LibraryLaunch, Passes
<1>2. /\ p.allowed = p.required
      /\ p.required = [u \in unitsOf(DOMAIN from) |->
                         unitsOf(from[<<u[1], u[2] \div Width(k.type)>>])]
      /\ \A t \in ins \cup outs : KernelUnits(l, t) \subseteq p.alloc
    BY <1>1 DEF LauncherProgram
<1> HIDE DEF p
<1>3. Elements(k) \subseteq Nat /\ k.type \in DOMAIN DataTypeSize
    BY <1>1 DEF Elements, KernelCall
<1>4. ASSUME NEW u \in DOMAIN p.required
      PROVE  /\ u \in p.alloc
             /\ \E c \in Cores(k.rows, k.cores) : \E r \in CoreRows(k, c) :
                \E e \in Elements(k), t \in io.outs :
                   /\ u \in Units(t, k.type, RowPosition(k, c, r, e))
                   /\ p.required[u] = OutValue(l, k, io, io.sink[t], c, r, e)
    <2>1. PICK t \in io.outs, pos \in 0..(k.rows * k.align - 1) : u \in Units(t, k.type, pos)
        <3>1. PICK x \in DOMAIN from : u \in Units(x[1], k.type, x[2])
            BY <1>2
        <3>2. DOMAIN from = io.outs \X (0..(k.rows * k.align - 1))
            BY DEF RequiredOfRows
        <3>3. x[1] \in io.outs /\ x[2] \in 0..(k.rows * k.align - 1)
            BY <3>2
        <3> QED BY <3>1, <3>3
    <2>2. pos \in Nat /\ u[1] = t /\ u[2] \div Width(k.type) = pos
        BY <1>3, <2>1, UnitElement
    <2>3. p.required[u] = unitsOf(from[<<t, pos>>])
        BY <1>2, <2>2
    <2>4. u \in p.alloc
        <3>1. PICK out \in outs : out.buffer = t
            BY DEF Passes
        <3>2. KernelBuffer(l, out) = t /\ out.dtype = k.type
            BY <1>1, <3>1 DEF KernelBuffer, LibraryLaunch
        <3>3. pos \in 0..(Rows(l) * Align(l) - 1)
            BY DEF Passes
        <3>4. u \in KernelUnits(l, out)
            BY <2>1, <3>2, <3>3 DEF KernelUnits
        <3> QED BY <3>4, <1>2
    <2>5. PICK c \in Cores(k.rows, k.cores) : \E r \in CoreRows(k, c) : \E e \in Elements(k) :
              /\ RowOffset(k.rows, k.cores, c) + r \in 0..(k.rows - 1)
              /\ pos = (RowOffset(k.rows, k.cores, c) + r) * k.align + e
        BY <1>1, PositionTaken
    <2>6. PICK r \in CoreRows(k, c), e \in Elements(k) :
              /\ RowOffset(k.rows, k.cores, c) + r \in 0..(k.rows - 1)
              /\ pos = (RowOffset(k.rows, k.cores, c) + r) * k.align + e
        BY <2>5
    <2> DEFINE i == RowOffset(k.rows, k.cores, c) + r
               q == io.sink[t]
               needs == io.needs[q][e]
               weight == io.weighted \cap {q}
    <2>7. i \in 0..(k.rows - 1) /\ pos = i * k.align + e /\ RowPosition(k, c, r, e) = pos
        BY <2>6 DEF RowPosition
    <2>8. \A d : RowPosition(k, c, r, d) = i * k.align + d
        BY DEF RowPosition
    <2> HIDE DEF i
    <2>9. from[<<t, pos>>] = {<<io.source[n[1]], i * k.align + n[2]>> : n \in needs}
                             \cup {<<l.weight.buffer, e>> : z \in weight}
        BY <2>7 DEF RequiredOfRows
    <2> HIDE DEF needs, weight
    <2>10. unitsOf(from[<<t, pos>>])
             = (UNION {Units(io.source[n[1]], k.type, i * k.align + n[2]) : n \in needs})
               \cup (UNION {Units(l.weight.buffer, k.type, e) : z \in weight})
        <3>1. \A A, B : unitsOf(A \cup B) = unitsOf(A) \cup unitsOf(B)
            OBVIOUS
        <3>2. unitsOf({<<io.source[n[1]], i * k.align + n[2]>> : n \in needs})
                = UNION {Units(io.source[n[1]], k.type, i * k.align + n[2]) : n \in needs}
            <4> DEFINE cell(n) == <<io.source[n[1]], i * k.align + n[2]>>
            <4>1. \A n \in needs : /\ cell(n)[1] = io.source[n[1]]
                                   /\ cell(n)[2] = i * k.align + n[2]
                OBVIOUS
            <4> HIDE DEF cell
            <4>2. unitsOf({cell(n) : n \in needs})
                    = UNION {Units(cell(n)[1], k.type, cell(n)[2]) : n \in needs}
                OBVIOUS
            <4>3. unitsOf({cell(n) : n \in needs})
                    = UNION {Units(io.source[n[1]], k.type, i * k.align + n[2]) : n \in needs}
                BY <4>1, <4>2
            <4> QED BY <4>3 DEF cell
        <3>3. unitsOf({<<l.weight.buffer, e>> : z \in weight})
                = UNION {Units(l.weight.buffer, k.type, e) : z \in weight}
            <4> DEFINE cell == <<l.weight.buffer, e>>
            <4>1. cell[1] = l.weight.buffer /\ cell[2] = e
                OBVIOUS
            <4> HIDE DEF cell
            <4>2. unitsOf({cell : z \in weight})
                    = UNION {Units(cell[1], k.type, cell[2]) : z \in weight}
                OBVIOUS
            <4>3. unitsOf({cell : z \in weight})
                    = UNION {Units(l.weight.buffer, k.type, e) : z \in weight}
                BY <4>1, <4>2
            <4> QED BY <4>3 DEF cell
        <3> HIDE DEF unitsOf
        <3> QED BY <2>9, <3>1, <3>2, <3>3
    <2>11. \A n \in needs : Units(io.source[n[1]], k.type, i * k.align + n[2])
                               = InValue(k, io, n[1], c, r, n[2])
        BY <2>8 DEF InValue
    <2>12. Units(l.weight.buffer, k.type, e) = WeightOf(l, e)
        BY <1>1 DEF WeightOf, LibraryLaunch
    <2>13. OutValue(l, k, io, q, c, r, e)
             = (UNION {InValue(k, io, n[1], c, r, n[2]) : n \in needs})
               \cup (UNION {WeightOf(l, e) : z \in weight})
        BY DEF OutValue, needs, weight
    <2>14. unitsOf(from[<<t, pos>>]) = OutValue(l, k, io, q, c, r, e)
        BY <2>10, <2>11, <2>12, <2>13
    <2> HIDE DEF unitsOf, q
    <2>15. p.required[u] = OutValue(l, k, io, q, c, r, e)
        BY <2>3, <2>14
    <2> QED BY <2>1, <2>4, <2>7, <2>15 DEF q
<1>5. RequiredByRow(p, l, k, io)
    BY <1>2, <1>4 DEF RequiredByRow
<1> QED BY <1>5 DEF p

-------------------------------------------------------------------------------
(* Row i of a dense operand, and what OperatorResults makes of dense       *)
(* operands: an element of the output depends on its row and on its        *)
(* weight, an element of the sum on the two elements it adds.              *)
RowOf(l, t, i) == {<<t.buffer, i * Align(l) + e>> : e \in 0..(Align(l) - 1)}

IsRows(l, from, outs) ==
    DOMAIN from = {t.buffer : t \in outs} \X (0..(Rows(l) * Align(l) - 1))

RmsNormByRows(l) ==
    /\ Numel(l.input) = Rows(l) * Align(l)
    /\ IsRows(l, RmsNormFrom(l), {l.out})
    /\ \A i \in 0..(Rows(l) - 1), e \in 0..(Align(l) - 1) :
          RmsNormFrom(l)[<<l.out.buffer, i * Align(l) + e>>]
             = RowOf(l, l.input, i) \cup {<<l.weight.buffer, e>>}

AddRmsNormByRows(l) ==
    LET at(t, i, e) == <<t.buffer, i * Align(l) + e>>
    IN  /\ \A t \in {l.input, l.residual} : Numel(t) = Rows(l) * Align(l)
        /\ l.out.buffer # l.residual_out.buffer
        /\ IsRows(l, AddRmsNormFrom(l), {l.out, l.residual_out})
        /\ \A i \in 0..(Rows(l) - 1), e \in 0..(Align(l) - 1) :
              /\ AddRmsNormFrom(l)[at(l.out, i, e)]
                    = RowOf(l, l.input, i) \cup RowOf(l, l.residual, i)
                      \cup {<<l.weight.buffer, e>>}
              /\ AddRmsNormFrom(l)[at(l.residual_out, i, e)]
                    = {at(l.input, i, e), at(l.residual, i, e)}

NormsByRows(l) ==
    IF l.op = "rms_norm" THEN RmsNormByRows(l) ELSE AddRmsNormByRows(l)

(* What the definitions of the operators require of dense rows.            *)
LEMMA RmsNormRequires ==
    ASSUME NEW l, LibraryLaunch(l, {l.input}, {l.out}), RmsNormByRows(l)
    PROVE  RequiredOfRows(l, RmsNormArguments(l), RmsNormIO(RmsNormArguments(l)), RmsNormFrom(l))
<1> DEFINE k == RmsNormArguments(l)
           io == RmsNormIO(k)
           from == RmsNormFrom(l)
<1>1. /\ k.rows = Rows(l) /\ k.align = Align(l)
      /\ k.input = l.input.buffer /\ k.out = l.out.buffer
    BY DEF RmsNormArguments, KernelBuffer, LibraryLaunch
<1>2. /\ io.outs = {k.out} /\ io.source["in_queue_input"] = k.input
      /\ io.sink[k.out] = "out_queue_out" /\ io.weighted = {"out_queue_out"}
      /\ \A e \in Elements(k) : io.needs["out_queue_out"][e] = {"in_queue_input"} \X Elements(k)
    BY DEF RmsNormIO
<1> HIDE DEF k, io
<1>3. DOMAIN from = io.outs \X (0..(k.rows * k.align - 1))
    <2>1. {t.buffer : t \in {l.out}} = io.outs
        BY <1>1, <1>2
    <2> QED BY <2>1, <1>1 DEF RmsNormByRows, IsRows
<1>4. ASSUME NEW i \in 0..(k.rows - 1), NEW e \in Elements(k), NEW t \in io.outs
      PROVE  from[<<t, i * k.align + e>>]
                = {<<io.source[n[1]], i * k.align + n[2]>> : n \in io.needs[io.sink[t]][e]}
                  \cup {<<l.weight.buffer, e>> : z \in io.weighted \cap {io.sink[t]}}
    <2> DEFINE N == {"in_queue_input"} \X Elements(k)
               row == {<<k.input, i * k.align + d>> : d \in Elements(k)}
               read == {<<io.source[n[1]], i * k.align + n[2]>> : n \in N}
    <2>1. t = k.out /\ io.sink[t] = "out_queue_out"
        BY <1>2
    <2>2. from[<<t, i * k.align + e>>] = RowOf(l, l.input, i) \cup {<<l.weight.buffer, e>>}
        BY <1>1, <2>1 DEF RmsNormByRows, Elements
    <2>3. RowOf(l, l.input, i) = row
        BY <1>1 DEF RowOf, Elements
    <2>4. row = read
        <3>1. ASSUME NEW d \in Elements(k) PROVE <<k.input, i * k.align + d>> \in read
            <4>1. <<"in_queue_input", d>> \in N
                OBVIOUS
            <4> QED BY <4>1, <1>2
        <3>2. ASSUME NEW n \in N PROVE <<io.source[n[1]], i * k.align + n[2]>> \in row
            <4>1. n[1] = "in_queue_input" /\ n[2] \in Elements(k)
                OBVIOUS
            <4> QED BY <4>1, <1>2
        <3> QED BY <3>1, <3>2
    <2>5. io.needs[io.sink[t]][e] = N /\ io.weighted \cap {io.sink[t]} = {"out_queue_out"}
        BY <1>2, <2>1
    <2>6. {<<l.weight.buffer, e>> : z \in {"out_queue_out"}} = {<<l.weight.buffer, e>>}
        OBVIOUS
    <2> QED BY <2>2, <2>3, <2>4, <2>5, <2>6
<1>5. RequiredOfRows(l, k, io, from)
    BY <1>3, <1>4 DEF RequiredOfRows
<1> QED BY <1>5 DEF k, io

(* As RmsNormRequires, with the sum as a second output.                    *)
LEMMA AddRmsNormRequires ==
    ASSUME NEW l, LibraryLaunch(l, {l.input, l.residual}, {l.out, l.residual_out}),
           AddRmsNormByRows(l)
    PROVE  RequiredOfRows(l, AddRmsNormArguments(l), AddRmsNormIO(AddRmsNormArguments(l)),
                          AddRmsNormFrom(l))
<1> DEFINE k == AddRmsNormArguments(l)
           io == AddRmsNormIO(k)
           from == AddRmsNormFrom(l)
<1>1. /\ k.rows = Rows(l) /\ k.align = Align(l)
      /\ k.input = l.input.buffer /\ k.residual = l.residual.buffer
      /\ k.out = l.out.buffer /\ k.residual_out = l.residual_out.buffer
      /\ k.out # k.residual_out
    BY DEF AddRmsNormArguments, KernelBuffer, LibraryLaunch, AddRmsNormByRows
<1>2. /\ io.outs = {k.out, k.residual_out} /\ io.inqs = {"in_queue_input", "in_queue_residual"}
      /\ io.source["in_queue_input"] = k.input /\ io.source["in_queue_residual"] = k.residual
      /\ io.sink[k.out] = "out_queue_out"
      /\ io.sink[k.residual_out] = "out_queue_residual_out"
      /\ io.weighted = {"out_queue_out"}
      /\ \A e \in Elements(k) : io.needs["out_queue_out"][e] = io.inqs \X Elements(k)
      /\ \A e \in Elements(k) : io.needs["out_queue_residual_out"][e] = io.inqs \X {e}
    BY <1>1 DEF AddRmsNormIO
<1> HIDE DEF k, io
<1>3. DOMAIN from = io.outs \X (0..(k.rows * k.align - 1))
    <2>1. {t.buffer : t \in {l.out, l.residual_out}} = io.outs
        BY <1>1, <1>2
    <2> QED BY <2>1, <1>1 DEF AddRmsNormByRows, IsRows
<1>4. ASSUME NEW i \in 0..(k.rows - 1), NEW e \in Elements(k), NEW t \in io.outs
      PROVE  from[<<t, i * k.align + e>>]
                = {<<io.source[n[1]], i * k.align + n[2]>> : n \in io.needs[io.sink[t]][e]}
                  \cup {<<l.weight.buffer, e>> : z \in io.weighted \cap {io.sink[t]}}
    <2> DEFINE both(S) == {<<k.input, i * k.align + d>> : d \in S}
                          \cup {<<k.residual, i * k.align + d>> : d \in S}
               read(N) == {<<io.source[n[1]], i * k.align + n[2]>> : n \in N}
    <2>1. ASSUME NEW S PROVE both(S) = read(io.inqs \X S)
        <3>1. ASSUME NEW d \in S
              PROVE  /\ <<k.input, i * k.align + d>> \in read(io.inqs \X S)
                     /\ <<k.residual, i * k.align + d>> \in read(io.inqs \X S)
            <4>1. /\ <<"in_queue_input", d>> \in io.inqs \X S
                  /\ <<"in_queue_residual", d>> \in io.inqs \X S
                BY <1>2
            <4> QED BY <4>1, <1>2
        <3>2. ASSUME NEW n \in io.inqs \X S
              PROVE  <<io.source[n[1]], i * k.align + n[2]>> \in both(S)
            <4>1. n[2] \in S /\ (n[1] = "in_queue_input" \/ n[1] = "in_queue_residual")
                BY <1>2
            <4> QED BY <4>1, <1>2
        <3> QED BY <3>1, <3>2, ZenonT(60)
    <2>2. RowOf(l, l.input, i) \cup RowOf(l, l.residual, i) = both(Elements(k))
        BY <1>1 DEF RowOf, Elements
    <2>3. i \in 0..(Rows(l) - 1) /\ e \in 0..(Align(l) - 1)
        BY <1>1 DEF Elements
    <2>4. CASE t = k.out
        <3>1. io.sink[t] = "out_queue_out" /\ io.needs[io.sink[t]][e] = io.inqs \X Elements(k)
            BY <1>2, <2>4
        <3>2. io.weighted \cap {io.sink[t]} = {"out_queue_out"}
            BY <1>2, <3>1
        <3>3. from[<<t, i * k.align + e>>]
                = RowOf(l, l.input, i) \cup RowOf(l, l.residual, i) \cup {<<l.weight.buffer, e>>}
            BY <1>1, <2>3, <2>4 DEF AddRmsNormByRows
        <3>4. {<<l.weight.buffer, e>> : z \in {"out_queue_out"}} = {<<l.weight.buffer, e>>}
            OBVIOUS
        <3> HIDE DEF both
        <3> QED BY <2>1, <2>2, <3>1, <3>2, <3>3, <3>4
    <2>5. CASE t = k.residual_out
        <3>1. io.sink[t] = "out_queue_residual_out" /\ io.needs[io.sink[t]][e] = io.inqs \X {e}
            BY <1>2, <2>5
        <3>2. io.weighted \cap {io.sink[t]} = {}
            BY <1>2, <3>1
        <3>3. both({e}) = {<<k.input, i * k.align + e>>, <<k.residual, i * k.align + e>>}
            OBVIOUS
        <3> HIDE DEF both, read
        <3>4. from[<<t, i * k.align + e>>] = both({e})
            BY <1>1, <2>3, <2>5, <3>3 DEF AddRmsNormByRows
        <3>5. from[<<t, i * k.align + e>>] = read(io.needs[io.sink[t]][e])
            BY <2>1, <3>1, <3>4
        <3> QED BY <3>2, <3>5 DEF read
    <2> QED BY <1>2, <2>4, <2>5
<1>5. RequiredOfRows(l, k, io, from)
    BY <1>3, <1>4 DEF RequiredOfRows
<1> QED BY <1>5 DEF k, io

-------------------------------------------------------------------------------
(* Row r of a dense tensor of n columns starts at r * n.                   *)
LEMMA DenseRows ==
    ASSUME NEW l, RowTensor(l.out, l.out.shape), NEW t, RowTensor(t, l.out.shape), DenseTensor(t)
    PROVE  /\ \A r \in NormGrid(l) : \A k \in 0..(NormDim(l.out) - 1) :
                 Cell(t, NormIndices(l)[r][k]) = <<t.buffer, r * NormDim(l.out) + k>>
           /\ NormBatch(l.out) * NormHeads(l.out) \in Nat \ {0}
           /\ Numel(t) = (NormBatch(l.out) * NormHeads(l.out)) * NormDim(l.out)
<1> DEFINE n == NormDim(l.out)
           heads == NormHeads(l.out)
           batch == NormBatch(l.out)
           X == NormIndices(l)
           grid == NormGrid(l)
<1>1. /\ WellFormed(t) /\ t.shape = l.out.shape /\ NDim(t) = NDim(l.out) /\ NDim(t) \in {2, 3}
      /\ RowTensor(t, t.shape) /\ t.shape \in Shapes /\ IsContiguous(t) /\ t.base = 0
      /\ Len(t.shape) = NDim(t)
    BY WellFormedStrides DEF RowTensor, NDim, DenseTensor
<1>2. grid = 0..(batch * heads - 1)
    BY DEF NormGrid
<1>3. \A r \in grid : \A k \in 0..(n - 1) : Cell(t, X[r][k]) = NormElement(t, r \div heads, r % heads, k)
    BY NormRowCells DEF AlongRows, NormRows, NormRow
<1>4. \A k \in 1..NDim(t) : t.strides[k] = Rest(t.shape, k)
    BY <1>1, ContiguousStrides
<1>5. \A k \in 1..NDim(t) : Rest(t.shape, k - 1) = t.shape[k] * Rest(t.shape, k)
    BY <1>1, RestStep
<1>6. Rest(t.shape, NDim(t)) = 1 /\ Rest(t.shape, 0) = Numel(t)
    BY <1>1, RestEnds DEF Numel
<1>7. CASE NDim(t) = 2
    <2>1. /\ heads = 1 /\ batch = t.shape[1] /\ n = t.shape[2]
          /\ t.shape[1] \in Nat \ {0} /\ t.shape[2] \in Nat \ {0}
        BY <1>1, <1>7, RowTensorSizes DEF NormDim, NormBatch, NormHeads
    <2>2. Stride(t, 0) = t.strides[1] /\ Stride(t, 1) = t.strides[2] /\ t.strides[2] = 1
        BY <1>1, <1>7, RowTensorSizes
    <2>3. t.strides[1] = n /\ Numel(t) = batch * n
        <3>1. /\ t.strides[1] = Rest(t.shape, 1) /\ Rest(t.shape, 2) = 1
              /\ Rest(t.shape, 2 - 1) = t.shape[2] * Rest(t.shape, 2)
              /\ Rest(t.shape, 1 - 1) = t.shape[1] * Rest(t.shape, 1)
              /\ Rest(t.shape, 0) = Numel(t)
            BY <1>4, <1>5, <1>6, <1>7
        <3>2. Rest(t.shape, 1) = t.shape[2] * 1 /\ Rest(t.shape, 0) = t.shape[1] * Rest(t.shape, 1)
            BY <3>1
        <3> QED BY <2>1, <3>1, <3>2
    <2> HIDE DEF n, heads, batch, X, grid
    <2>4. ASSUME NEW r \in grid, NEW k \in 0..(n - 1)
          PROVE  Cell(t, X[r][k]) = <<t.buffer, r * n + k>>
        <3>1. r \in Nat /\ k \in Nat /\ n \in Nat
            BY <1>2, <2>1
        <3>2. r \div 1 = r /\ r % 1 = 0
            BY <3>1
        <3>3. Cell(t, X[r][k]) = NormElement(t, r, 0, k)
            BY <1>3, <2>1, <3>2
        <3>4. NormElement(t, r, 0, k) = At(t, r * n + 0 * 1 + k)
            BY <1>7, <2>2, <2>3 DEF NormElement
        <3>5. 0 + (r * n + 0 * 1 + k) = r * n + k
            BY <3>1
        <3> QED BY <1>1, <3>3, <3>4, <3>5 DEF At
    <2>5. batch * heads = batch /\ batch \in Nat \ {0}
        BY <2>1
    <2> QED BY <2>3, <2>4, <2>5 DEF n, heads, batch, X, grid
<1>8. CASE NDim(t) = 3
    <2>1. /\ heads = t.shape[2] /\ batch = t.shape[1] /\ n = t.shape[3]
          /\ t.shape[1] \in Nat \ {0} /\ t.shape[2] \in Nat \ {0} /\ t.shape[3] \in Nat \ {0}
        BY <1>1, <1>8, RowTensorSizes, SMTT(30) DEF NormDim, NormBatch, NormHeads
    <2>2. Stride(t, 0) = t.strides[1] /\ Stride(t, 1) = t.strides[2]
        BY <1>1, <1>8, RowTensorSizes
    <2>3. t.strides[1] = heads * n /\ t.strides[2] = n /\ Numel(t) = batch * (heads * n)
        <3>1. /\ t.strides[1] = Rest(t.shape, 1) /\ t.strides[2] = Rest(t.shape, 2)
              /\ Rest(t.shape, 3) = 1
              /\ Rest(t.shape, 3 - 1) = t.shape[3] * Rest(t.shape, 3)
              /\ Rest(t.shape, 2 - 1) = t.shape[2] * Rest(t.shape, 2)
              /\ Rest(t.shape, 1 - 1) = t.shape[1] * Rest(t.shape, 1)
              /\ Rest(t.shape, 0) = Numel(t)
            BY <1>4, <1>5, <1>6, <1>8
        <3>2. /\ Rest(t.shape, 2) = t.shape[3] * 1
              /\ Rest(t.shape, 1) = t.shape[2] * Rest(t.shape, 2)
              /\ Rest(t.shape, 0) = t.shape[1] * Rest(t.shape, 1)
            BY <3>1
        <3>3. Rest(t.shape, 2) = t.shape[3]
            BY <2>1, <3>2
        <3> QED BY <2>1, <3>1, <3>2, <3>3
    <2> HIDE DEF n, heads, batch, X, grid
    <2>4. n \in Nat \ {0} /\ heads \in Nat \ {0} /\ batch \in Nat \ {0}
        BY <2>1
    <2>5. ASSUME NEW r \in grid, NEW k \in 0..(n - 1)
          PROVE  Cell(t, X[r][k]) = <<t.buffer, r * n + k>>
        <3> DEFINE b == r \div heads
                   h == r % heads
        <3>1. r \in Nat /\ k \in Nat
            BY <1>2, <2>4
        <3>2. b \in Nat /\ h \in Nat /\ r = heads * b + h
            <4>1. /\ r \div heads \in Nat /\ r % heads \in 0..(heads - 1)
                  /\ r = heads * (r \div heads) + (r % heads)
                BY ONLY <2>4, <3>1, Division
            <4>2. r % heads \in Nat
                BY ONLY <4>1, <2>4
            <4> QED BY <4>1, <4>2
        <3>3. Cell(t, X[r][k]) = NormElement(t, b, h, k)
            BY <1>3
        <3> HIDE DEF b, h
        <3>4. NormElement(t, b, h, k) = At(t, b * (heads * n) + h * n + k)
            BY <1>8, <2>2, <2>3 DEF NormElement
        <3>5. b * (heads * n) + h * n = r * n
            <4>1. r * n = (heads * b + h) * n
                BY <3>2
            <4>2. (heads * b + h) * n = (heads * b) * n + h * n
                BY <2>4, <3>2
            <4>3. (heads * b) * n = b * (heads * n)
                BY <2>4, <3>2
            <4> QED BY <4>1, <4>2, <4>3
        <3>6. 0 + (r * n + k) = r * n + k
            <4>1. r * n \in Nat
                BY <2>4, <3>1
            <4> HIDE DEF n
            <4> QED BY <3>1, <4>1
        <3>7. At(t, r * n + k) = <<t.buffer, r * n + k>>
            BY <1>1, <3>6 DEF At
        <3> QED BY <3>3, <3>4, <3>5, <3>7
    <2>6. batch * heads \in Nat \ {0} /\ batch * (heads * n) = (batch * heads) * n
        <3>1. \A x, y, z \in Nat : x * (y * z) = (x * y) * z
            OBVIOUS
        <3>2. \A x, y \in Nat \ {0} : x * y \in Nat \ {0}
            OBVIOUS
        <3> QED BY <2>4, <3>1, <3>2
    <2> QED BY <2>3, <2>5, <2>6 DEF n, heads, batch, X, grid
<1> QED BY <1>1, <1>7, <1>8

\* The rows of such operands: r * n + k is element k of row r.
RowsOfDense(l, tensors, n, R, X) ==
    /\ n \in Nat \ {0} /\ R \in Nat \ {0}
    /\ RowIndices(l.out.shape, n, 0..(R - 1), X)
    /\ \A t \in tensors :
          /\ t.shape = l.out.shape /\ DistinctElements(t)
          /\ NormDim(t) = n /\ Numel(t) = R * n
          /\ Cells(t) = {t.buffer} \X (0..(R * n - 1))
          /\ \A i \in 0..(R - 1) : \A k \in 0..(n - 1) :
                /\ Cell(t, X[i][k]) = <<t.buffer, i * n + k>>
                /\ Cell(t, X[i][k]) \in Cells(t)
    /\ \A k \in 0..(n - 1) : Cell(l.weight, <<k>>) = <<l.weight.buffer, k>>

(* Contiguous operands of one shape lie in rows, one after the other, and  *)
(* the rows are named by the first coordinates.                            *)
LEMMA DenseOperandsInRows ==
    ASSUME NEW l, NEW tensors, l.out \in tensors, DenseRowOperands(l, tensors)
    PROVE  RowsOfDense(l, tensors, NormDim(l.out), NormBatch(l.out) * NormHeads(l.out),
                       NormIndices(l))
<1> DEFINE n == NormDim(l.out)
           R == NormBatch(l.out) * NormHeads(l.out)
           X == NormIndices(l)
<1>1. RowTensor(l.out, l.out.shape)
    BY DEF DenseRowOperands
<1>2. n \in Nat \ {0} /\ RowIndices(l.out.shape, n, 0..(R - 1), X)
    BY <1>1, NormRowIndices DEF NormGrid
<1>3. R \in Nat \ {0}
    <2>1. /\ l.out.shape \in Shapes /\ NDim(l.out) \in {2, 3}
          /\ \A k \in 1..NDim(l.out) : l.out.shape[k] \in Nat \ {0}
        BY <1>1, RowTensorSizes DEF RowTensor
    <2>2. NormBatch(l.out) \in Nat \ {0} /\ NormHeads(l.out) \in Nat \ {0}
        <3>1. CASE NDim(l.out) = 2
            BY <1>1, <2>1, <3>1, RowTensorSizes DEF NormBatch, NormHeads
        <3>2. CASE NDim(l.out) = 3
            BY <1>1, <2>1, <3>2, RowTensorSizes DEF NormBatch, NormHeads
        <3> QED BY <2>1, <3>1, <3>2
    <2>3. \A a, b \in Nat \ {0} : a * b \in Nat \ {0}
        OBVIOUS
    <2> QED BY <2>2, <2>3
<1>4. ASSUME NEW t \in tensors
      PROVE  /\ t.shape = l.out.shape /\ DistinctElements(t)
             /\ NormDim(t) = n /\ Numel(t) = R * n
             /\ Cells(t) = {t.buffer} \X (0..(R * n - 1))
             /\ \A i \in 0..(R - 1) : \A k \in 0..(n - 1) :
                   /\ Cell(t, X[i][k]) = <<t.buffer, i * n + k>>
                   /\ Cell(t, X[i][k]) \in Cells(t)
    <2>1. RowTensor(t, l.out.shape) /\ DenseTensor(t) /\ WellFormed(t) /\ t.shape = l.out.shape
        BY DEF DenseRowOperands, RowTensor
    <2>2. NormDim(t) = n
        BY <2>1 DEF NormDim, Size, NDim
    <2>3. /\ \A i \in NormGrid(l) : \A k \in 0..(n - 1) :
                Cell(t, X[i][k]) = <<t.buffer, i * n + k>>
          /\ Numel(t) = R * n
        BY <1>1, <2>1, DenseRows
    <2>4. DistinctElements(t) /\ Cells(t) = {t.buffer} \X (0..(Numel(t) - 1))
        BY <2>1, DenseElements
    <2>5. NormGrid(l) = 0..(R - 1)
        BY DEF NormGrid
    <2>6. \A i \in 0..(R - 1) : \A k \in 0..(n - 1) : X[i][k] \in Indices(t.shape)
        BY <1>2, <2>1 DEF RowIndices
    <2> HIDE DEF n, R, X
    <2>7. \A i \in 0..(R - 1) : \A k \in 0..(n - 1) : Cell(t, X[i][k]) \in Cells(t)
        BY <2>6 DEF Cells
    <2> QED BY <2>1, <2>2, <2>3, <2>4, <2>5, <2>7
<1>5. ASSUME NEW k \in 0..(n - 1) PROVE Cell(l.weight, <<k>>) = <<l.weight.buffer, k>>
    <2>1. VectorTensor(l.weight, n) /\ l.weight.base = 0
        BY DEF DenseRowOperands
    <2> HIDE DEF n
    <2>2. Cell(l.weight, <<k>>) = At(l.weight, k)
        BY <1>2, <2>1, VectorElements
    <2>3. 0 + k = k
        BY <1>2
    <2> QED BY <2>1, <2>2, <2>3 DEF At
<1> QED BY <1>2, <1>3, <1>4, <1>5 DEF RowsOfDense

NormRowAt(l, ins, n, i, e, ix) ==
    /\ {x \in Indices(l.out.shape) : Cell(l.out, x) = <<l.out.buffer, i * n + e>>} = {ix}
    /\ <<l.out.buffer, i * n + e>> \in Cells(l.out)
    /\ \A t \in ins : \A k \in 0..(n - 1) :
          Cell(t, With(ix, -1, k)) = <<t.buffer, i * n + k>>
    /\ Cell(l.weight, <<ix[Len(ix)]>>) = <<l.weight.buffer, e>>

(* An element of the norm of a sum of ins: its row of them and its weight. *)
LEMMA NormOfRows ==
    ASSUME NEW l, NEW ins, NEW tensors, ins \subseteq tensors, l.out \in tensors,
           NEW n, NEW R, NEW X, RowsOfDense(l, tensors, n, R, X),
           NEW i \in 0..(R - 1), NEW e \in 0..(n - 1), NEW ix, ix = X[i][e]
    PROVE  NormRowAt(l, ins, n, i, e, ix)
<1> DEFINE columns == 0..(n - 1)
<1>1. /\ ix \in Indices(l.out.shape) /\ ix[Len(ix)] = e
      /\ \A k \in columns : With(ix, -1, k) = X[i][k]
    <2>1. /\ ix \in Indices(l.out.shape)
          /\ Len(ix) = Len(l.out.shape) /\ ix[Len(l.out.shape)] = e
          /\ \A k \in columns : With(ix, -1, k) = X[i][k]
        <3>1. RowIndices(l.out.shape, n, 0..(R - 1), X)
            BY DEF RowsOfDense
        <3>2. /\ X[i][e] \in Indices(l.out.shape)
              /\ Len(X[i][e]) = Len(l.out.shape) /\ X[i][e][Len(l.out.shape)] = e
              /\ \A k \in columns : With(X[i][e], -1, k) = X[i][k]
            BY <3>1 DEF RowIndices
        <3> QED BY <3>2
    <2> QED BY <2>1
<1>2. /\ DistinctElements(l.out)
      /\ Cell(l.out, ix) = <<l.out.buffer, i * n + e>> /\ Cell(l.out, ix) \in Cells(l.out)
    BY DEF RowsOfDense
<1>3. {x \in Indices(l.out.shape) : Cell(l.out, x) = Cell(l.out, ix)} = {ix}
    BY <1>1, <1>2, OneIndex
<1>4. \A t \in ins : \A k \in columns : Cell(t, X[i][k]) = <<t.buffer, i * n + k>>
    BY DEF RowsOfDense
<1>5. \A t \in ins : \A k \in columns : Cell(t, With(ix, -1, k)) = <<t.buffer, i * n + k>>
    BY <1>1, <1>4
<1>6. Cell(l.weight, <<ix[Len(ix)]>>) = <<l.weight.buffer, e>>
    BY <1>1 DEF RowsOfDense
<1>7. <<l.out.buffer, i * n + e>> \in Cells(l.out)
    BY <1>2
<1>8. {x \in Indices(l.out.shape) : Cell(l.out, x) = <<l.out.buffer, i * n + e>>} = {ix}
    BY <1>2, <1>3
<1> QED BY <1>5, <1>6, <1>7, <1>8 DEF NormRowAt

(* On contiguous operands that need no padding, the reference of rms_norm  *)
(* is the one by rows.                                                     *)
LEMMA RmsNormOfRows ==
    ASSUME NEW l, DenseRowOperands(l, {l.input, l.out}), Align(l) = NormDim(l.input)
    PROVE  RmsNormByRows(l) /\ Rows(l) \in Nat \ {0} /\ Align(l) \in Nat
<1> DEFINE n == NormDim(l.out)
           R == NormBatch(l.out) * NormHeads(l.out)
           X == NormIndices(l)
           columns == 0..(n - 1)
           ixs == Indices(l.out.shape)
           from == RmsNormFrom(l)
           From(ix) == {Cell(l.input, With(ix, -1, k)) : k \in columns}
                       \cup {Cell(l.weight, <<ix[Len(ix)]>>)}
<1>1. RowsOfDense(l, {l.input, l.out}, n, R, X)
    BY DenseOperandsInRows
<1>2. from = [c \in Cells(l.out) |-> UNION {From(ix) : ix \in {x \in ixs : Cell(l.out, x) = c}}]
    BY DEF RmsNormFrom, Elementwise
<1> HIDE DEF n, R, X, from, ixs
<1>3. /\ n \in Nat \ {0} /\ R \in Nat \ {0} /\ NormDim(l.input) = n
      /\ Numel(l.input) = R * n /\ Cells(l.out) = {l.out.buffer} \X (0..(R * n - 1))
    BY <1>1 DEF RowsOfDense
<1>4. Rows(l) = R /\ Align(l) = n
    <2>1. (R * n) \div n = R
        BY <1>3
    <2> QED BY <1>3, <2>1 DEF Rows
<1>5. IsRows(l, from, {l.out})
    <2>1. {t.buffer : t \in {l.out}} = {l.out.buffer}
        OBVIOUS
    <2> QED BY <1>2, <1>3, <1>4, <2>1 DEF IsRows
<1>6. ASSUME NEW i \in 0..(R - 1), NEW e \in columns
      PROVE  from[<<l.out.buffer, i * n + e>>]
               = RowOf(l, l.input, i) \cup {<<l.weight.buffer, e>>}
    <2> DEFINE u == X[i][e]
               c == <<l.out.buffer, i * n + e>>
    <2>1. /\ {x \in ixs : Cell(l.out, x) = c} = {u} /\ c \in Cells(l.out)
          /\ \A t \in {l.input} : \A k \in columns :
                Cell(t, With(u, -1, k)) = <<t.buffer, i * n + k>>
          /\ Cell(l.weight, <<u[Len(u)]>>) = <<l.weight.buffer, e>>
        <3>1. {l.input} \subseteq {l.input, l.out} /\ l.out \in {l.input, l.out} /\ u = X[i][e]
            OBVIOUS
        <3>2. e \in 0..(n - 1) /\ i \in 0..(R - 1)
            OBVIOUS
        <3> HIDE DEF u
        <3>3. NormRowAt(l, {l.input}, n, i, e, u)
            BY ONLY <1>1, <3>1, <3>2, NormOfRows
        <3> QED BY <3>3 DEF NormRowAt, ixs
    <2>2. {Cell(l.input, With(u, -1, k)) : k \in columns}
             = {<<l.input.buffer, i * n + k>> : k \in columns}
        BY <2>1
    <2>4. RowOf(l, l.input, i) = {<<l.input.buffer, i * n + k>> : k \in columns}
        BY <1>4 DEF RowOf
    <2>5. From(u) = RowOf(l, l.input, i) \cup {<<l.weight.buffer, e>>}
        BY <2>1, <2>2, <2>4
    <2> HIDE DEF From, u, c
    <2>6. from[c] = UNION {From(ix) : ix \in {u}}
        BY <1>2, <2>1
    <2>7. UNION {From(ix) : ix \in {u}} = From(u)
        OBVIOUS
    <2> QED BY <2>5, <2>6, <2>7 DEF c
<1>7. RmsNormByRows(l)
    BY <1>3, <1>4, <1>5, <1>6 DEF RmsNormByRows, from
<1> QED BY <1>3, <1>4, <1>7

(* The same for add_rms_norm, whose two results are in different buffers.  *)
LEMMA AddRmsNormOfRows ==
    ASSUME NEW l, DenseRowOperands(l, {l.input, l.residual, l.out, l.residual_out}),
           l.out.buffer # l.residual_out.buffer, Align(l) = NormDim(l.input)
    PROVE  AddRmsNormByRows(l) /\ Rows(l) \in Nat \ {0} /\ Align(l) \in Nat
<1> DEFINE n == NormDim(l.out)
           R == NormBatch(l.out) * NormHeads(l.out)
           X == NormIndices(l)
           columns == 0..(n - 1)
           ixs == Indices(l.out.shape)
           ins == {l.input, l.residual}
           tensors == {l.input, l.residual, l.out, l.residual_out}
           from == AddRmsNormFrom(l)
           From(ix) == {Cell(t, With(ix, -1, k)) : t \in ins, k \in columns}
                       \cup {Cell(l.weight, <<ix[Len(ix)]>>)}
           Add(ix) == {Cell(t, ix) : t \in ins}
           f == [c \in Cells(l.out) |-> UNION {From(ix) : ix \in {x \in ixs : Cell(l.out, x) = c}}]
           g == [c \in Cells(l.residual_out) |->
                    UNION {Add(ix) : ix \in {x \in ixs : Cell(l.residual_out, x) = c}}]
           at(t, i, e) == <<t.buffer, i * n + e>>
<1>1. RowsOfDense(l, tensors, n, R, X)
    BY DenseOperandsInRows
<1>2. from = Both(f, g)
    <2>1. l.residual_out.shape = l.out.shape
        BY <1>1 DEF RowsOfDense
    <2>2. ElementwiseFrom(ins, l.residual_out) = g
        BY <2>1 DEF ElementwiseFrom, Elementwise
    <2> HIDE DEF g
    <2>3. from = Both(f, ElementwiseFrom(ins, l.residual_out))
        BY DEF AddRmsNormFrom, Elementwise
    <2> QED BY <2>2, <2>3
<1> HIDE DEF n, R, X, from, ixs
<1>3. /\ n \in Nat \ {0} /\ R \in Nat \ {0} /\ NormDim(l.input) = n
      /\ \A t \in tensors : /\ Numel(t) = R * n /\ Cells(t) = {t.buffer} \X (0..(R * n - 1))
                            /\ DistinctElements(t) /\ t.shape = l.out.shape
    BY <1>1 DEF RowsOfDense
<1>4. Rows(l) = R /\ Align(l) = n
    <2>1. (R * n) \div n = R
        BY <1>3
    <2>2. Numel(l.input) = R * n
        BY <1>3
    <2> QED BY <1>3, <2>1, <2>2 DEF Rows
<1>5. /\ DOMAIN from = Cells(l.out) \cup Cells(l.residual_out)
      /\ \A c \in Cells(l.out) : from[c] = f[c]
      /\ \A c \in Cells(l.residual_out) : c \notin Cells(l.out) => from[c] = g[c]
    BY <1>2 DEF Both
<1>6. IsRows(l, from, {l.out, l.residual_out})
    <2>1. /\ Cells(l.out) = {l.out.buffer} \X (0..(R * n - 1))
          /\ Cells(l.residual_out) = {l.residual_out.buffer} \X (0..(R * n - 1))
        BY <1>3
    <2>2. {t.buffer : t \in {l.out, l.residual_out}} = {l.out.buffer, l.residual_out.buffer}
        OBVIOUS
    <2>3. \A A : ({l.out.buffer} \X A) \cup ({l.residual_out.buffer} \X A)
                    = {l.out.buffer, l.residual_out.buffer} \X A
        OBVIOUS
    <2> QED BY <1>4, <1>5, <2>1, <2>2, <2>3 DEF IsRows
<1>7. ASSUME NEW t \in ins, NEW i PROVE RowOf(l, t, i) = {at(t, i, k) : k \in columns}
    BY <1>4 DEF RowOf
<1>8. ASSUME NEW i \in 0..(R - 1), NEW e \in columns
      PROVE  /\ from[at(l.out, i, e)]
                   = RowOf(l, l.input, i) \cup RowOf(l, l.residual, i)
                     \cup {<<l.weight.buffer, e>>}
             /\ from[at(l.residual_out, i, e)] = {at(l.input, i, e), at(l.residual, i, e)}
    <2> DEFINE u == X[i][e]
               c == at(l.out, i, e)
               d == at(l.residual_out, i, e)
    <2>1. /\ {x \in ixs : Cell(l.out, x) = c} = {u} /\ c \in Cells(l.out)
          /\ \A t \in ins : \A k \in columns : Cell(t, With(u, -1, k)) = at(t, i, k)
          /\ Cell(l.weight, <<u[Len(u)]>>) = <<l.weight.buffer, e>>
        <3>1. ins \subseteq tensors /\ l.out \in tensors /\ u = X[i][e]
            OBVIOUS
        <3>2. e \in 0..(n - 1) /\ i \in 0..(R - 1)
            OBVIOUS
        <3> HIDE DEF u, ins, tensors
        <3>3. NormRowAt(l, ins, n, i, e, u)
            BY ONLY <1>1, <3>1, <3>2, NormOfRows
        <3> QED BY <3>3 DEF NormRowAt, ixs
    <2>2. {Cell(t, With(u, -1, k)) : t \in ins, k \in columns}
             = {at(l.input, i, k) : k \in columns} \cup {at(l.residual, i, k) : k \in columns}
        <3> DEFINE A == {Cell(t, With(u, -1, k)) : t \in ins, k \in columns}
                   B == {at(l.input, i, k) : k \in columns}
                        \cup {at(l.residual, i, k) : k \in columns}
        <3>1. ASSUME NEW t \in ins, NEW k \in columns PROVE Cell(t, With(u, -1, k)) \in B
            BY <2>1
        <3>2. A \subseteq B
            BY <3>1
        <3>3. ASSUME NEW t \in ins, NEW k \in columns PROVE at(t, i, k) \in A
            BY <2>1
        <3>4. B \subseteq A
            BY <3>3
        <3> QED BY <3>2, <3>4
    <2>3. From(u) = RowOf(l, l.input, i) \cup RowOf(l, l.residual, i) \cup {<<l.weight.buffer, e>>}
        BY <1>7, <2>1, <2>2, SMTT(30)
    <2>4. /\ u \in ixs /\ \A t \in tensors : Cell(t, u) = at(t, i, e)
          /\ d \in Cells(l.residual_out)
        <3>1. RowIndices(l.out.shape, n, 0..(R - 1), X)
            BY <1>1 DEF RowsOfDense
        <3>2. u \in ixs
            BY <3>1 DEF RowIndices, ixs
        <3>3. \A t \in tensors : Cell(t, u) = at(t, i, e) /\ Cell(t, u) \in Cells(t)
            BY <1>1 DEF RowsOfDense
        <3>4. l.residual_out \in tensors
            OBVIOUS
        <3> HIDE DEF u, tensors
        <3> QED BY <3>2, <3>3, <3>4
    <2>5. {x \in ixs : Cell(l.residual_out, x) = d} = {u}
        BY <1>3, <2>4, OneIndex DEF ixs
    <2>6. Add(u) = {at(l.input, i, e), at(l.residual, i, e)}
        BY <2>4
    <2>7. d \notin Cells(l.out)
        BY <1>3
    <2> HIDE DEF From, Add, u, c, d
    <2>8. from[c] = UNION {From(ix) : ix \in {u}}
        BY <1>5, <2>1
    <2>9. from[d] = UNION {Add(ix) : ix \in {u}}
        BY <1>5, <2>4, <2>5, <2>7
    <2>10. UNION {From(ix) : ix \in {u}} = From(u) /\ UNION {Add(ix) : ix \in {u}} = Add(u)
        OBVIOUS
    <2> QED BY <2>3, <2>6, <2>8, <2>9, <2>10 DEF c, d
<1>9. AddRmsNormByRows(l)
    <2>1. \A t \in {l.input, l.residual} : Numel(t) = Rows(l) * Align(l)
        BY <1>3, <1>4
    <2> QED BY <1>4, <1>6, <1>8, <2>1 DEF AddRmsNormByRows, from
<1> QED BY <1>3, <1>4, <1>9

(* Either norm, on dense operands, asks for rows.                          *)
LEMMA OperandsByRows ==
    ASSUME NEW l, CustomNormLaunch(l), CustomNormOperands(l)
    PROVE  NormsByRows(l)
<1>1. Align(l) = NormDim(l.input) /\ l.op \in {"rms_norm", "add_rms_norm"}
    BY DEF CustomNormLaunch, LibraryLaunch
<1>2. CASE l.op = "rms_norm"
    <2>1. DenseRowOperands(l, {l.input, l.out})
        BY <1>2 DEF CustomNormOperands
    <2>2. RmsNormByRows(l)
        BY <1>1, <2>1, RmsNormOfRows
    <2> QED BY <1>2, <2>2 DEF NormsByRows
<1>3. CASE l.op = "add_rms_norm"
    <2>1. /\ DenseRowOperands(l, {l.input, l.residual, l.out, l.residual_out})
          /\ l.out.buffer # l.residual_out.buffer
        BY <1>3 DEF CustomNormOperands
    <2>2. AddRmsNormByRows(l)
        BY <1>1, <2>1, AddRmsNormOfRows
    <2> QED BY <1>3, <2>2 DEF NormsByRows
<1> QED BY <1>1, <1>2, <1>3

-------------------------------------------------------------------------------
(* Both kernels, as the library launches them, compute in the order of     *)
(* their stages what the operators' definitions name.                      *)
LEMMA CustomNormsCompute ==
    ASSUME NEW l, CustomNormLaunch(l), CustomNormOperands(l)
    PROVE  \E before, least, most : /\ OrderedBy(CustomNorm(l), before)
                                    /\ Computes(CustomNorm(l), before, least, most)
<1>0. NormsByRows(l)
    BY OperandsByRows
<1>1. CASE l.op = "rms_norm"
    <2> DEFINE k == RmsNormArguments(l)
               io == RmsNormIO(k)
               queues == {"in_queue_input", "out_queue_out"}
               cores == [id \in CoresStages(k) |-> RmsNormStage(k, id[1], id[2], id[3])]
               from == RmsNormFrom(l)
               p == LauncherProgram(l, {l.input}, {l.out}, queues, cores, from)
               V == LaunchValue(l, k, io, p.work)
    <2>1. /\ LibraryLaunch(l, {l.input}, {l.out})
          /\ Passes(l, {l.input}, {l.out}, queues, k, io)
        BY <1>1, ArgumentsPassed DEF CustomNormLaunch
    <2>2. KernelCall(k, io) /\ l.launcher = "infini"
        BY <2>1, PassedCall DEF LibraryLaunch
    <2>3. StagesOf(k, io, cores) /\ FlowsOf(k, io, cores)
        BY <2>2, RmsNormStages, RmsNormFlows
    <2>4. QueuesOf(k, io)
        BY RmsNormQueues
    <2>5. RequiredOfRows(l, k, io, from)
        BY <1>0, <1>1, <2>1, RmsNormRequires DEF NormsByRows
    <2>6. \A t \in {l.input} : Numel(t) = Rows(l) * Align(l)
        BY <1>0, <1>1 DEF NormsByRows, RmsNormByRows
    <2>7. CustomNorm(l) = p
        BY <1>1 DEF CustomNorm, AscendRmsNorm
    <2> HIDE DEF k, io, cores, queues, from
    <2>8. Runs(p, l, k, io)
        BY <2>1, <2>3, <2>4, <2>6, LauncherRuns
    <2>9. RequiredByRow(p, l, k, io)
        BY <2>1, <2>4, <2>5, RequiredRows
    <2>10. OrderedBy(p, LaunchBefore(l, k))
        BY <2>2, <2>3, LauncherOrdered
    <2> HIDE DEF p
    <2>11. Computes(p, LaunchBefore(l, k), V, V)
        BY <2>8, <2>9, LaunchComputes
    <2> QED BY <2>7, <2>10, <2>11
<1>2. CASE l.op = "add_rms_norm"
    <2> DEFINE k == AddRmsNormArguments(l)
               io == AddRmsNormIO(k)
               ins == {l.input, l.residual}
               outs == {l.out, l.residual_out}
               queues == {"in_queue_input", "in_queue_residual", "out_queue_out",
                          "out_queue_residual_out"}
               cores == [id \in CoresStages(k) |-> AddRmsNormStage(k, id[1], id[2], id[3])]
               from == AddRmsNormFrom(l)
               p == LauncherProgram(l, ins, outs, queues, cores, from)
               V == LaunchValue(l, k, io, p.work)
    <2>1. LibraryLaunch(l, ins, outs) /\ Passes(l, ins, outs, queues, k, io)
        BY <1>2, ArgumentsPassed DEF CustomNormLaunch
    <2>2. KernelCall(k, io) /\ l.launcher = "infini"
        BY <2>1, PassedCall DEF LibraryLaunch
    <2>3. AddRmsNormByRows(l)
        BY <1>0, <1>2 DEF NormsByRows
    <2>4. k.out # k.residual_out
        BY <2>2, <2>3 DEF AddRmsNormByRows, AddRmsNormArguments, KernelBuffer
    <2>5. StagesOf(k, io, cores) /\ FlowsOf(k, io, cores)
        BY <2>2, <2>4, AddRmsNormStages, AddRmsNormFlows
    <2>6. QueuesOf(k, io)
        BY AddRmsNormQueues
    <2>7. RequiredOfRows(l, k, io, from)
        BY <2>1, <2>3, AddRmsNormRequires
    <2>8. \A t \in ins : Numel(t) = Rows(l) * Align(l)
        BY <2>3 DEF AddRmsNormByRows
    <2>9. CustomNorm(l) = p
        BY <1>2 DEF CustomNorm, AscendAddRmsNorm
    <2> HIDE DEF k, io, cores, queues, from, ins, outs
    <2>10. Runs(p, l, k, io)
        BY <2>1, <2>5, <2>6, <2>8, LauncherRuns
    <2>11. RequiredByRow(p, l, k, io)
        BY <2>1, <2>6, <2>7, RequiredRows
    <2>12. OrderedBy(p, LaunchBefore(l, k))
        BY <2>2, <2>5, LauncherOrdered
    <2> HIDE DEF p
    <2>13. Computes(p, LaunchBefore(l, k), V, V)
        BY <2>10, <2>11, LaunchComputes
    <2> QED BY <2>9, <2>12, <2>13
<1> QED BY <1>1, <1>2 DEF CustomNormLaunch

(* Whatever the rows, the dimension and the cores, and in place too: when  *)
(* RmsNorm or AddRmsNorm has run on the custom AscendC kernels, in any     *)
(* order that the queues allow, every element of every output was computed *)
(* from its own row and weight, each read before it was overwritten, and   *)
(* from nothing else.                                                      *)
THEOREM CustomNormsComputeTheirRows ==
    ASSUME \A l \in Launches : /\ CustomNormLaunch(l) /\ CustomNormOperands(l)
                               /\ ProgramOf(l) = CustomNorm(l)
    PROVE  Spec => []ResultsComplete
<1>1. \A l \in Launches : \E before, least, most :
         /\ OrderedBy(ProgramOf(l), before)
         /\ Computes(ProgramOf(l), before, least, most)
    BY CustomNormsCompute
<1> QED BY <1>1, OrderedLaunchesComputeOneResult
===============================================================================
