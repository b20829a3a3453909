------------------------------- MODULE RowTiling -------------------------------
(***************************************************************************)
(* How the launchers of the custom Ascend kernels split the rows of a      *)
(* normalisation over the cores, what each core makes of it, how rows are  *)
(* padded to whole blocks and what a core's buffers take of its unified    *)
(* buffer (UB).                                                            *)
(***************************************************************************)
EXTENDS Integers

UsedCores(rows, cores) == IF rows < cores THEN rows ELSE cores

\* The first former_num cores take former_length rows each, the others
\* tail_length.
FormerLength(rows, cores) ==
    (rows + UsedCores(rows, cores) - 1) \div UsedCores(rows, cores)

TailLength(rows, cores) == FormerLength(rows, cores) - 1

FormerNum(rows, cores) == rows - TailLength(rows, cores) * UsedCores(rows, cores)

\* The rows core c takes: block_rows_ rows from row_offset on.
BlockRows(rows, cores, c) ==
    IF c < FormerNum(rows, cores) THEN FormerLength(rows, cores)
                                  ELSE TailLength(rows, cores)

RowOffset(rows, cores, c) ==
    LET former == FormerNum(rows, cores)
        length == FormerLength(rows, cores)
    IN  IF c < former THEN length * c
        ELSE length * former + TailLength(rows, cores) * (c - former)

-------------------------------------------------------------------------------
\* A row of dim elements padded to whole blocks of `align' elements.
DimAlign(dim, align) == ((dim + align - 1) \div align) * align

\* Bytes of the buffers a core allocates for rows of d elements: two queues
\* (four for AddRmsNorm) of two buffers each, the weight, two fp32 buffers for
\* the 2-byte types, the scratch memory of ReduceSum and its result.
ReduceTmpBytes(d) == ((((d + 63) \div 64) + 7) \div 8) * 8 * 4

RmsNormBufferBytes(d, size) ==
    (2 * 2 * d * size) + (4 * d) + (IF size = 2 THEN 2 * 4 * d ELSE 0)
    + ReduceTmpBytes(d) + 32

AddRmsNormBufferBytes(d, size) ==
    (4 * 2 * d * size) + (4 * d) + (IF size = 2 THEN 2 * 4 * d ELSE 0)
    + ReduceTmpBytes(d) + 32

\* The capacity check of the torch launchers.
MaxDimLength(ub, coefficient) == (((ub - 1024) \div coefficient) \div 8) * 8

RmsNormFits(d, ub) == d <= MaxDimLength(ub, 20)

AddRmsNormFits(d, size, ub) ==
    d <= MaxDimLength(ub, IF size = 2 THEN 28 ELSE 36)
===============================================================================
