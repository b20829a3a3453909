----------------------------- MODULE KernelProgram -----------------------------
(***************************************************************************)
(* What one launch of a kernel does, as a set of work items over memory    *)
(* cells.  A cell is <<buffer, offset>>.  An item reads cells and writes   *)
(* cells once the items it comes `after' are done; items that no chain of  *)
(* `after' orders run concurrently.                                        *)
(*                                                                         *)
(* Values are abstracted to where they come from: a cell holds the set of  *)
(* input cells its value was computed from.  The `flow' of an item gives   *)
(* for each cell it writes the cells it computes the value from.  `yields' *)
(* are the outcomes of an item that draws: a set of token sets, one of     *)
(* which joins what it writes.                                             *)
(***************************************************************************)
EXTENDS TensorLayout

Item(flow, after) == [flow |-> flow, after |-> after, yields |-> {{}}]

Writes(item) == DOMAIN item.flow
Reads(item) == UNION Range(item.flow)

\* Every cell written depends on every cell read.
Step(reads, writes, after) == Item([c \in writes |-> reads], after)

\* n consecutive elements of src, from position `from', to dst at `to'.
Copy(dst, to, src, from, n) ==
    [c \in {At(dst, to + j) : j \in 0..(n - 1)} |->
        {At(src, from + c[2] - dst.base - to)}]

\* A serial loop: each step after the one before.
Serial(steps) ==
    [i \in DOMAIN steps |-> [steps[i] EXCEPT !.after = {i - 1} \ {0}]]

Then(reads, writes) == Step(reads, writes, {})

\* Steps(i) for i = 0 .. n-1, one loop iteration after the other.
Loop(n, Steps(_)) == FlattenSeq([i \in 1..n |-> Steps(i - 1)])

\* A launch reads the tensors ins and writes the tensors outs, beside cells of
\* its own (registers, shared or local memory).  `from' gives for each output
\* cell the input cells its value is a function of.
Program(ins, outs, scratch, work, from) ==
    [alloc    |-> (UNION {Cells(t) : t \in ins \cup outs}) \cup scratch,
     inputs   |-> UNION {Cells(t) : t \in ins},
     work     |-> work,
     required |-> from,
     allowed  |-> from]

\* The reference of an operator: From(ix) for the element of t at each index.
Elementwise(t, From(_)) ==
    LET ixs == Indices(t.shape)
    IN  [c \in Cells(t) |-> UNION {From(ix) : ix \in {x \in ixs : Cell(t, x) = c}}]
===============================================================================
