-------------------------- MODULE KernelLaunchProofs --------------------------
(***************************************************************************)
(* Proofs about KernelLaunch: a program whose synchronisation orders every *)
(* two items that touch one cell runs without races and computes the same  *)
(* whatever the schedule, for any program and any number of items.  The    *)
(* rest shows that the CUDA kernels are such programs, and that the        *)
(* elements they address are those of their operators' definitions; and    *)
(* that the loops of the CPU kernels, which keep each row's intermediate   *)
(* results in the row's own memory, do every row once, in place or not.    *)
(***************************************************************************)
EXTENDS KernelLaunch, CudaKernels, TensorLayoutProofs

Work == DOMAIN program.work

Touches(item) == Reads(item) \cup Writes(item)

(* The items done are closed under what comes before them.                 *)
InOrder(before) ==
    /\ done \subseteq Work
    /\ \A i \in done : before[i] \subseteq done

(* The memory lies between the bounds the last writers of each cell give.  *)
Between(before, least, most) ==
    /\ DOMAIN memory = program.alloc
    /\ \A c \in program.alloc :
          /\ ValueAfter(program, before, least, done, c) \subseteq memory[c]
          /\ memory[c] \subseteq ValueAfter(program, before, most, done, c)

(* What a launch of a given program keeps.                                 *)
FixedProgram == launch \in Launches /\ program = ProgramOf(launch)

-------------------------------------------------------------------------------
(* The steps of a launch.                                                  *)
LEMMA Steps ==
    ASSUME [Next]_vars
    PROVE  \/ UNCHANGED vars
           \/ \E i \in Ready : Run(i)
BY DEF Next, Stop

(* The program of a launch never changes.                                  *)
LEMMA FixedStep == FixedProgram /\ [Next]_vars => FixedProgram'
BY Steps DEF FixedProgram, vars, Run

(* So it is always the program of the launch.                             *)
LEMMA FixedHolds == Spec => []FixedProgram
<1>1. Init => FixedProgram
    BY DEF Init, FixedProgram
<1> QED BY <1>1, FixedStep, PTL DEF Spec

(* An item that is ready has everything that comes before it behind it.    *)
LEMMA ReadyInOrder ==
    ASSUME NEW before, OrderedBy(program, before), InOrder(before), NEW i \in Ready
    PROVE  i \in Work /\ i \notin done /\ before[i] \subseteq done
BY DEF OrderedBy, InOrder, Ready, Work

(* Whatever is done has everything that comes before it done.              *)
LEMMA OrderStep ==
    ASSUME NEW before, OrderedBy(program, before), InOrder(before), [Next]_vars
    PROVE  InOrder(before)'
<1>1. CASE UNCHANGED vars
    BY <1>1 DEF vars, InOrder, Work
<1>2. ASSUME NEW i \in Ready, Run(i) PROVE InOrder(before)'
    <2>1. i \in Work /\ before[i] \subseteq done
        BY ReadyInOrder
    <2>2. done' = done \cup {i} /\ program' = program
        BY <1>2 DEF Run
    <2> QED BY <2>1, <2>2 DEF InOrder, Work
<1> QED BY <1>1, <1>2, Steps

(* An item that is ready comes after every finished one it conflicts with. *)
LEMMA OrderedItems ==
    ASSUME NEW before, OrderedBy(program, before), InOrder(before), NEW i \in Ready,
           NEW k \in done, Conflict(program.work[k], program.work[i])
    PROVE  k \in before[i]
<1>1. i \in Work /\ i \notin done /\ k \in Work /\ before[k] \subseteq done
    BY ReadyInOrder DEF InOrder
<1>2. k \in before[i] \/ i \in before[k]
    BY <1>1 DEF OrderedBy, Work
<1> QED BY <1>1, <1>2

-------------------------------------------------------------------------------
(* Conflicts that are ordered never meet: __syncthreads in the reductions  *)
(* of the CUDA kernels, the queues and the in-order units of the AscendC   *)
(* kernels and the loops of the CPU kernels leave no two items that touch  *)
(* one cell free to run at the same time.                                  *)
THEOREM OrderedLaunchesDoNotRace ==
    ASSUME \A l \in Launches : \E before : OrderedBy(ProgramOf(l), before)
    PROVE  Spec => []NoRace
<1> DEFINE Inv == FixedProgram
                  /\ \E before : OrderedBy(program, before) /\ InOrder(before)
<1>1. Init => Inv
    <2> SUFFICES ASSUME Init PROVE Inv
        OBVIOUS
    <2>1. FixedProgram /\ done = {}
        BY DEF Init, FixedProgram
    <2>2. PICK before : OrderedBy(program, before)
        BY <2>1 DEF FixedProgram
    <2>3. InOrder(before)
        BY <2>1 DEF InOrder
    <2> QED BY <2>1, <2>2, <2>3
<1>2. Inv /\ [Next]_vars => Inv'
    <2> SUFFICES ASSUME Inv, [Next]_vars PROVE Inv'
        OBVIOUS
    <2>1. PICK before : OrderedBy(program, before) /\ InOrder(before)
        OBVIOUS
    <2>2. program' = program
        BY Steps DEF vars, Run
    <2>3. OrderedBy(program, before)'
        BY <2>1, <2>2 DEF OrderedBy
    <2>4. InOrder(before)' /\ FixedProgram'
        BY <2>1, OrderStep, FixedStep
    <2> QED BY <2>3, <2>4
<1>3. Inv => NoRace
    <2> SUFFICES ASSUME Inv, NEW i \in Ready, NEW j \in Ready, i # j,
                        Writes(program.work[i])
                          \cap (Reads(program.work[j]) \cup Writes(program.work[j])) # {}
        PROVE FALSE
        BY DEF NoRace
    <2>1. PICK before : OrderedBy(program, before) /\ InOrder(before)
        OBVIOUS
    <2>2. /\ i \in Work /\ i \notin done /\ before[i] \subseteq done
          /\ j \in Work /\ j \notin done /\ before[j] \subseteq done
        BY <2>1, ReadyInOrder
    <2>3. i \in before[j] \/ j \in before[i]
        BY <2>1, <2>2 DEF OrderedBy, Conflict, Work
    <2> QED BY <2>2, <2>3
<1> QED BY <1>1, <1>2, <1>3, PTL DEF Spec

-------------------------------------------------------------------------------
(* The value of a cell after some items depends on those that write it.    *)
LEMMA SameWriters ==
    ASSUME NEW p, NEW before, NEW value, NEW S, NEW T, NEW c,
           \A k \in S \cup T : c \in Writes(p.work[k]) => k \in S /\ k \in T
    PROVE  ValueAfter(p, before, value, S, c) = ValueAfter(p, before, value, T, c)
<1>1. LastWriters(p, before, S, c) = LastWriters(p, before, T, c)
    BY DEF LastWriters
<1>2. (\E k \in S : c \in Writes(p.work[k])) <=> (\E k \in T : c \in Writes(p.work[k]))
    OBVIOUS
<1> QED BY <1>1, <1>2 DEF ValueAfter

(* What a ready item reads is what the items before it left.               *)
LEMMA ReadsInOrder ==
    ASSUME NEW before, NEW value, OrderedBy(program, before), InOrder(before),
           NEW i \in Ready, NEW r \in Touches(program.work[i])
    PROVE  ValueAfter(program, before, value, done, r)
             = ValueAfter(program, before, value, before[i], r)
<1>1. before[i] \subseteq done
    BY ReadyInOrder
<1>2. ASSUME NEW k \in done, r \in Writes(program.work[k]) PROVE k \in before[i]
    <2>1. Conflict(program.work[k], program.work[i])
        BY <1>2 DEF Conflict, Touches
    <2> QED BY <2>1, OrderedItems
<1> QED BY <1>1, <1>2, SameWriters

(* What a ready item writes is the value from then on.                     *)
LEMMA WritesLast ==
    ASSUME NEW before, NEW value, OrderedBy(program, before), InOrder(before),
           NEW i \in Ready, NEW c \in Writes(program.work[i])
    PROVE  ValueAfter(program, before, value, done \cup {i}, c) = value[i][c]
<1>1. i \in Work /\ i \notin done /\ before[i] \subseteq done
    BY ReadyInOrder
<1>2. ASSUME NEW k \in done, c \in Writes(program.work[k])
      PROVE  k \in before[i] /\ i \notin before[k]
    <2>1. Conflict(program.work[k], program.work[i])
        BY <1>2 DEF Conflict
    <2>2. k \in before[i]
        BY <2>1, OrderedItems
    <2> QED BY <1>1, <2>2 DEF InOrder
<1>3. LastWriters(program, before, done \cup {i}, c) = {i}
    BY <1>1, <1>2 DEF LastWriters
<1>4. UNION {value[k][c] : k \in {i}} = value[i][c]
    OBVIOUS
<1> QED BY <1>3, <1>4 DEF ValueAfter

(* Each step keeps the values between the least and the most.              *)
LEMMA BetweenStep ==
    ASSUME NEW before, NEW least, NEW most,
           OrderedBy(program, before), Computes(program, before, least, most),
           InOrder(before), Between(before, least, most), [Next]_vars
    PROVE  Between(before, least, most)'
<1>1. CASE UNCHANGED vars
    BY <1>1 DEF vars, Between, ValueAfter, LastWriters
<1>2. ASSUME NEW i \in Ready, Run(i) PROVE Between(before, least, most)'
    <2> DEFINE item == program.work[i]
               alloc == program.alloc
               Value(value, S, c) == ValueAfter(program, before, value, S, c)
               From(value, c) ==
                   UNION {Value(value, before[i], r) : r \in item.flow[c] \cap alloc}
    <2>1. PICK drawn \in item.yields :
            /\ memory' = [c \in DOMAIN memory |->
                  IF c \in Writes(item)
                  THEN drawn \cup UNION {memory[r] : r \in item.flow[c] \cap DOMAIN memory}
                  ELSE memory[c]]
            /\ done' = done \cup {i}
            /\ program' = program
        BY <1>2 DEF Run
    <2>2. DOMAIN memory = alloc /\ DOMAIN memory' = alloc
        BY <2>1 DEF Between
    <2>3. \A c \in alloc : Value(least, done, c) \subseteq memory[c]
                           /\ memory[c] \subseteq Value(most, done, c)
        BY DEF Between
    <2>a. i \in Work
        BY ReadyInOrder
    <2>4. ASSUME NEW c \in alloc, c \in Writes(item)
          PROVE  /\ Value(least, done \cup {i}, c) \subseteq memory'[c]
                 /\ memory'[c] \subseteq Value(most, done \cup {i}, c)
        <3>1. memory'[c] = drawn \cup UNION {memory[r] : r \in item.flow[c] \cap alloc}
            BY <2>1, <2>2, <2>4
        <3>2. ASSUME NEW r \in item.flow[c] \cap alloc
              PROVE  /\ Value(least, before[i], r) \subseteq memory[r]
                     /\ memory[r] \subseteq Value(most, before[i], r)
            <4>1. r \in Touches(item)
                BY <2>4 DEF Touches, Reads, Writes, Range
            <4>2. /\ Value(least, done, r) = Value(least, before[i], r)
                  /\ Value(most, done, r) = Value(most, before[i], r)
                BY <4>1, ReadsInOrder
            <4> QED BY <4>2, <2>3
        <3>3. /\ From(least, c) \subseteq UNION {memory[r] : r \in item.flow[c] \cap alloc}
              /\ UNION {memory[r] : r \in item.flow[c] \cap alloc} \subseteq From(most, c)
            BY <3>2
        <3>4. /\ least[i][c] \subseteq From(least, c)
              /\ From(most, c) \cup UNION item.yields \subseteq most[i][c]
            BY <2>4, <2>a DEF Computes, Work
        <3>5. /\ Value(least, done \cup {i}, c) = least[i][c]
              /\ Value(most, done \cup {i}, c) = most[i][c]
            <4>1. c \in Writes(program.work[i])
                BY <2>4
            <4>2. ValueAfter(program, before, least, done \cup {i}, c) = least[i][c]
                BY <4>1, WritesLast
            <4>3. ValueAfter(program, before, most, done \cup {i}, c) = most[i][c]
                BY <4>1, WritesLast
            <4> QED BY <4>2, <4>3
        <3>6. drawn \subseteq UNION item.yields
            BY <2>1
        <3> HIDE DEF From, Value
        <3> QED BY <3>1, <3>3, <3>4, <3>5, <3>6
    <2>5. ASSUME NEW c \in alloc, c \notin Writes(item)
          PROVE  /\ Value(least, done \cup {i}, c) \subseteq memory'[c]
                 /\ memory'[c] \subseteq Value(most, done \cup {i}, c)
        <3>1. memory'[c] = memory[c]
            BY <2>1, <2>2, <2>5
        <3>2. /\ Value(least, done \cup {i}, c) = Value(least, done, c)
              /\ Value(most, done \cup {i}, c) = Value(most, done, c)
            BY <2>5, SameWriters
        <3> QED BY <3>1, <3>2, <2>3
    <2>6. \A c \in alloc : Value(least, done', c) \subseteq memory'[c]
                           /\ memory'[c] \subseteq Value(most, done', c)
        BY <2>1, <2>4, <2>5
    <2>7. ASSUME NEW value, NEW c
          PROVE  ValueAfter(program, before, value, done, c)'
                   = ValueAfter(program', before, value, done', c)
        BY DEF ValueAfter, LastWriters
    <2>8. ASSUME NEW c \in alloc
          PROVE  /\ ValueAfter(program, before, least, done, c)' \subseteq memory'[c]
                 /\ memory'[c] \subseteq ValueAfter(program, before, most, done, c)'
        BY <2>1, <2>6, <2>7
    <2>9. DOMAIN memory' = program'.alloc /\ program'.alloc = alloc
        BY <2>1, <2>2
    <2> HIDE DEF alloc, Value, From, item
    <2> QED BY <2>8, <2>9 DEF Between
<1> QED BY <1>1, <1>2, Steps

-------------------------------------------------------------------------------
(* Every schedule computes what the operator's definition names, if the    *)
(* program orders its conflicts and the values its items are bound to      *)
(* write, in the order of the program, end in the right results: the       *)
(* threads of a block, the cores of a device and the units of a core may   *)
(* take turns as they like.                                                *)
THEOREM OrderedLaunchesComputeOneResult ==
    ASSUME \A l \in Launches : \E before, least, most :
               /\ OrderedBy(ProgramOf(l), before)
               /\ Computes(ProgramOf(l), before, least, most)
    PROVE  Spec => []ResultsComplete
<1> DEFINE Explained(before, least, most) ==
               /\ OrderedBy(program, before) /\ Computes(program, before, least, most)
               /\ InOrder(before) /\ Between(before, least, most)
           Inv == FixedProgram /\ \E before, least, most : Explained(before, least, most)
<1>1. Init => Inv
    <2> SUFFICES ASSUME Init PROVE Inv
        OBVIOUS
    <2>1. /\ FixedProgram /\ done = {}
          /\ memory = [c \in program.alloc |-> IF c \in program.inputs THEN {c} ELSE {}]
        BY DEF Init, FixedProgram
    <2>2. PICK before, least, most :
            OrderedBy(program, before) /\ Computes(program, before, least, most)
        BY <2>1 DEF FixedProgram
    <2>3. InOrder(before)
        BY <2>1 DEF InOrder
    <2>4. Between(before, least, most)
        BY <2>1 DEF Between, ValueAfter
    <2> QED BY <2>1, <2>2, <2>3, <2>4
<1>2. Inv /\ [Next]_vars => Inv'
    <2> SUFFICES ASSUME Inv, [Next]_vars PROVE Inv'
        OBVIOUS
    <2>1. PICK before, least, most : Explained(before, least, most)
        OBVIOUS
    <2>2. program' = program
        BY Steps DEF vars, Run
    <2>3. OrderedBy(program, before)'
        BY <2>1, <2>2 DEF OrderedBy
    <2>4. Computes(program, before, least, most)'
        BY <2>1, <2>2 DEF Computes, ValueAfter, LastWriters
    <2>5. InOrder(before)' /\ FixedProgram'
        BY <2>1, OrderStep, FixedStep
    <2>6. Between(before, least, most)'
        BY <2>1, BetweenStep
    <2> QED BY <2>3, <2>4, <2>5, <2>6
<1>3. Inv => ResultsComplete
    <2> SUFFICES ASSUME Inv, Finished, NEW c \in DOMAIN program.required
        PROVE program.required[c] \subseteq memory[c] /\ memory[c] \subseteq program.allowed[c]
        BY DEF ResultsComplete
    <2>1. PICK before, least, most : Explained(before, least, most)
        OBVIOUS
    <2>2. /\ c \in program.alloc
          /\ program.required[c] \subseteq ValueAfter(program, before, least, done, c)
          /\ ValueAfter(program, before, most, done, c) \subseteq program.allowed[c]
        BY <2>1 DEF Computes, Finished
    <2> QED BY <2>1, <2>2 DEF Between
<1> QED BY <1>1, <1>2, <1>3, PTL DEF Spec

-------------------------------------------------------------------------------
(* A launch whose items stay inside the memory it has keeps its types, and *)
(* no item that may run touches an address outside it.                     *)
THEOREM ConfinedLaunchesStayTyped ==
    ASSUME \A l \in Launches : Confined(ProgramOf(l))
    PROVE  Spec => [](TypeOK /\ InBounds)
<1> DEFINE Inv == FixedProgram /\ TypeOK
           Held == program.inputs
                   \cup UNION UNION {program.work[i].yields : i \in DOMAIN program.work}
<1>1. Init => Inv
    <2> SUFFICES ASSUME Init PROVE Inv
        OBVIOUS
    <2>1. FixedProgram /\ done = {} /\ Confined(program)
        BY DEF Init, FixedProgram
    <2>2. memory \in [program.alloc -> SUBSET Held]
        BY DEF Init
    <2> QED BY <2>1, <2>2 DEF TypeOK, Confined, FixedProgram
<1>2. Inv /\ [Next]_vars => Inv'
    <2> SUFFICES ASSUME Inv, [Next]_vars PROVE Inv'
        OBVIOUS
    <2>1. FixedProgram'
        BY FixedStep
    <2>2. CASE UNCHANGED vars
        BY <2>1, <2>2 DEF vars, TypeOK
    <2>3. ASSUME NEW i \in Ready, Run(i) PROVE TypeOK'
        <3>1. i \in DOMAIN program.work /\ memory \in [program.alloc -> SUBSET Held]
            BY DEF Ready, TypeOK
        <3>2. PICK drawn \in program.work[i].yields :
                /\ memory' = [c \in DOMAIN memory |->
                      IF c \in Writes(program.work[i])
                      THEN drawn \cup UNION {memory[r] :
                                 r \in program.work[i].flow[c] \cap DOMAIN memory}
                      ELSE memory[c]]
                /\ done' = done \cup {i} /\ launch' = launch /\ program' = program
            BY <2>3 DEF Run
        <3>3. drawn \subseteq Held
            BY <3>1, <3>2
        <3> HIDE DEF Held
        <3>4. memory' \in [program.alloc -> SUBSET Held]
            BY <3>1, <3>2, <3>3
        <3> QED BY <3>1, <3>2, <3>4 DEF TypeOK, Held
    <2> QED BY <2>1, <2>2, <2>3, Steps
<1>3. Inv => InBounds
    BY DEF FixedProgram, Confined, InBounds, Ready
<1> QED BY <1>1, <1>2, <1>3, PTL DEF Spec

(* One cell has one value after S when an item of S writes it after all    *)
(* others of S, and its first value when none does.                        *)
LastIn(p, before, S, c, i) ==
    /\ i \in S /\ c \in Writes(p.work[i])
    /\ \A m \in S : c \in Writes(p.work[m]) =>
          m = i \/ (m \in before[i] /\ i \notin before[m])

(* The last write decides.                                                 *)
LEMMA LastWrite ==
    ASSUME NEW p, NEW before, NEW value, NEW S, NEW c, NEW i, LastIn(p, before, S, c, i)
    PROVE  ValueAfter(p, before, value, S, c) = value[i][c]
<1>1. LastWriters(p, before, S, c) = {i}
    BY DEF LastWriters, LastIn
<1>2. UNION {value[m][c] : m \in {i}} = value[i][c]
    OBVIOUS
<1> QED BY <1>1, <1>2 DEF ValueAfter, LastIn

(* A cell nobody wrote holds what it held at first.                        *)
LEMMA NoWrite ==
    ASSUME NEW p, NEW before, NEW value, NEW S, NEW c, \A m \in S : c \notin Writes(p.work[m])
    PROVE  ValueAfter(p, before, value, S, c) = {c} \cap p.inputs
BY DEF ValueAfter

-------------------------------------------------------------------------------
(* And the smaller product has the smaller factor.                        *)
LEMMA LessFactor ==
    ASSUME NEW t \in Nat, NEW m \in Nat, NEW n \in Nat, t * m < t * n
    PROVE  m < n
<1>1. ASSUME n <= m PROVE FALSE
  <2>1. CASE n = m
    BY <2>1
  <2>2. CASE n < m
    <3>1. t * n + t <= t * m
      BY <2>2, LessTimes
    <3>2. t * n \in Nat /\ t * m \in Nat
      OBVIOUS
    <3> QED BY <3>1, <3>2
  <2> QED BY <1>1, <2>1, <2>2
<1> QED BY <1>1

-------------------------------------------------------------------------------
(***************************************************************************)
(* The kernels of src/native/cuda that reduce rows: one block for each     *)
(* row, its threads between two barriers a phase.  F[r][q] is phase q of   *)
(* block r, a function from the phase's items to their steps.              *)
(***************************************************************************)
BlockItems(grid, F) ==
    UNION {UNION {{<<r, q, k>> : k \in DOMAIN F[r][q]} : q \in DOMAIN F[r]} : r \in grid}

\* The step of item id.
StepOf(F, id) == F[id[1]][id[2]][id[3]]

\* What the launch of these blocks runs.
BlocksOf(grid, block, F) == Blocks([r \in grid |-> Phases(r, block, F[r])])

\* What an item waits for: the phase before its own, and its thread.
Barrier(F, id) ==
    IF id[2] = 1 THEN {}
    ELSE {<<id[1], id[2] - 1, k>> : k \in DOMAIN F[id[1]][id[2] - 1]}

\* The item of its phase that its thread did before it.
SameThread(block, F, id) ==
    {<<id[1], id[2], k>> : k \in {id[3] - block} \cap DOMAIN F[id[1]][id[2]]}

\* The barriers put a block's earlier phases first.
BlockBefore(grid, F) ==
    [id \in BlockItems(grid, F) |->
        {j \in BlockItems(grid, F) : j[1] = id[1] /\ j[2] < id[2]}]

(* Items of a launch are triples of a block, a phase and a number.         *)
LEMMA BlockItem ==
    ASSUME NEW grid, NEW F, NEW id \in BlockItems(grid, F)
    PROVE  /\ id = <<id[1], id[2], id[3]>>
           /\ id[1] \in grid /\ id[2] \in DOMAIN F[id[1]] /\ id[3] \in DOMAIN F[id[1]][id[2]]
BY DEF BlockItems

(* What a step that reads and writes given cells touches.                  *)
LEMMA StepTouches ==
    ASSUME NEW reads, NEW writes
    PROVE  LET item == Then(reads, writes)
           IN  /\ Writes(item) = writes
               /\ Reads(item) \subseteq reads
               /\ \A c \in writes : item.flow[c] = reads
               /\ item.yields = {{}}
BY DEF Then, Step, Item, Writes, Reads, Range

(* The items of a launch are those of its blocks.                          *)
LEMMA BlockDomain ==
    ASSUME NEW grid, NEW block, NEW F
    PROVE  DOMAIN BlocksOf(grid, block, F) = BlockItems(grid, F)
<1> DEFINE w == BlocksOf(grid, block, F)
           Of(r) == Phases(r, block, F[r])
           Ids(r) == UNION {{<<r, q, k>> : k \in DOMAIN F[r][q]} : q \in DOMAIN F[r]}
<1>1. \A r \in grid : DOMAIN Of(r) = Ids(r)
    BY DEF Phases
<1>2. DOMAIN w = UNION {DOMAIN Of(r) : r \in grid}
    BY DEF BlocksOf, Blocks
<1>3. BlockItems(grid, F) = UNION {Ids(r) : r \in grid}
    BY DEF BlockItems
<1>4. \A j : j \in DOMAIN w <=> j \in BlockItems(grid, F)
    <2> HIDE DEF w, Of, Ids
    <2> QED BY <1>1, <1>2, <1>3
<1> QED BY <1>4

(* An item of a launch is a step of its phase that waits for the phase     *)
(* before it, and otherwise for items of its own phase.                    *)
LEMMA BlockWork ==
    ASSUME NEW grid, NEW block, NEW F, NEW id \in BlockItems(grid, F)
    PROVE  BlocksOf(grid, block, F)[id]
             = [StepOf(F, id) EXCEPT !.after = Barrier(F, id) \cup SameThread(block, F, id)]
<1> DEFINE w == BlocksOf(grid, block, F)
           Of(r) == Phases(r, block, F[r])
           Ids(r) == UNION {{<<r, q, k>> : k \in DOMAIN F[r][q]} : q \in DOMAIN F[r]}
<1>1. \A r \in grid : DOMAIN Of(r) = Ids(r)
    BY DEF Phases
<1>2. PICK r \in grid : id \in Ids(r)
    BY DEF BlockItems
<1>3. id[1] \in grid /\ id \in DOMAIN Of(id[1])
    <2>1. id \in DOMAIN Of(r)
        BY <1>1, <1>2
    <2>2. id[1] = r
        BY <1>2
    <2> QED BY <2>1, <2>2
<1>4. w[id] = Of(id[1])[id]
    BY <1>3, BlockDomain DEF BlocksOf, Blocks
<1>5. Of(id[1])[id]
        = [StepOf(F, id) EXCEPT !.after = Barrier(F, id) \cup SameThread(block, F, id)]
    BY <1>3 DEF Phases, StepOf, Barrier, SameThread
<1> QED BY <1>4, <1>5

(* Blocks of n phases, of which only the last may be empty.                *)
Phased(grid, n, F) ==
    /\ n \in Nat
    /\ \A r \in grid : DOMAIN F[r] = 1..n
    /\ \A r \in grid : \A q \in 1..(n - 1) : DOMAIN F[r][q] # {}
    /\ \A id \in BlockItems(grid, F) : \E reads, writes : StepOf(F, id) = Then(reads, writes)

(* Only a barrier orders the items of a block; nothing orders two blocks.  *)
Disjoint(grid, F) ==
    \A i, j \in BlockItems(grid, F) :
        i # j /\ (i[1] = j[1] => i[2] = j[2]) => ~Conflict(StepOf(F, i), StepOf(F, j))

(* The item with its step and what it waits for.                           *)
LEMMA BlockStep ==
    ASSUME NEW grid, NEW block, NEW n, NEW F, Phased(grid, n, F),
           NEW id \in BlockItems(grid, F)
    PROVE  LET item == BlocksOf(grid, block, F)[id]
           IN  /\ item.flow = StepOf(F, id).flow
               /\ item.yields = {{}}
               /\ Writes(item) = Writes(StepOf(F, id))
               /\ Reads(item) = Reads(StepOf(F, id))
               /\ item.after \subseteq BlockItems(grid, F)
               /\ Barrier(F, id) \subseteq item.after
<1> DEFINE item == BlocksOf(grid, block, F)[id]
           before == Barrier(F, id)
           own == SameThread(block, F, id)
<1>1. item = [StepOf(F, id) EXCEPT !.after = before \cup own]
    BY BlockWork
<1>2. PICK reads, writes : StepOf(F, id) = Then(reads, writes)
    BY DEF Phased
<1>3. StepOf(F, id) = [flow |-> StepOf(F, id).flow, after |-> {}, yields |-> {{}}]
    BY <1>2 DEF Then, Step, Item
<1>4. /\ item.flow = StepOf(F, id).flow
      /\ item.yields = {{}}
      /\ item.after = before \cup own
    BY <1>1, <1>3
<1>5. /\ id = <<id[1], id[2], id[3]>>
      /\ id[1] \in grid /\ id[2] \in 1..n /\ DOMAIN F[id[1]] = 1..n /\ n \in Nat
    BY BlockItem DEF Phased
<1>6. \A q \in 1..n : \A k \in DOMAIN F[id[1]][q] : <<id[1], q, k>> \in BlockItems(grid, F)
    BY <1>5 DEF BlockItems
<1>7. own \subseteq BlockItems(grid, F)
    BY <1>5, <1>6 DEF SameThread
<1>8. before \subseteq BlockItems(grid, F)
    <2>1. CASE id[2] = 1
        BY <2>1 DEF Barrier
    <2>2. CASE id[2] # 1
        <3>1. id[2] - 1 \in 1..n
            BY <1>5, <2>2
        <3> QED BY <3>1, <1>6, <2>2 DEF Barrier
    <2> QED BY <2>1, <2>2
<1> HIDE DEF item, own
<1>9. item.after \subseteq BlockItems(grid, F) /\ before \subseteq item.after
    BY <1>4, <1>7, <1>8
<1>10. Writes(item) = Writes(StepOf(F, id)) /\ Reads(item) = Reads(StepOf(F, id))
    BY <1>4 DEF Writes, Reads
<1> QED BY <1>4, <1>9, <1>10 DEF item

(* Barriers order whatever conflicts within a block.                       *)
LEMMA BarriersOrder ==
    ASSUME NEW p, NEW grid, NEW block, NEW n, NEW F,
           p.work = BlocksOf(grid, block, F), Phased(grid, n, F), Disjoint(grid, F)
    PROVE  OrderedBy(p, BlockBefore(grid, F))
<1> DEFINE ids == BlockItems(grid, F)
           before == BlockBefore(grid, F)
<1>1. \A i \in ids : before[i] = {j \in ids : j[1] = i[1] /\ j[2] < i[2]}
    BY DEF BlockBefore
<1>2. ASSUME NEW i \in ids
      PROVE  /\ i = <<i[1], i[2], i[3]>>
             /\ i[1] \in grid /\ i[2] \in 1..n /\ DOMAIN F[i[1]] = 1..n /\ n \in Nat
    BY BlockItem DEF Phased
<1>3. ASSUME NEW i \in ids, NEW k \in before[i]
      PROVE  k \in p.work[i].after \/ \E m \in p.work[i].after : k \in before[m]
    <2>1. k \in ids /\ k[1] = i[1] /\ k[2] < i[2]
        BY <1>1, <1>3
    <2>2. /\ i[1] \in grid /\ i[2] \in 1..n /\ DOMAIN F[i[1]] = 1..n /\ n \in Nat
          /\ k = <<k[1], k[2], k[3]>> /\ k[2] \in 1..n
        BY <1>2, <2>1
    <2>3. i[2] # 1 /\ i[2] - 1 \in 1..(n - 1)
        BY <2>1, <2>2
    <2>4. PICK m \in DOMAIN F[i[1]][i[2] - 1] : TRUE
        BY <2>2, <2>3 DEF Phased
    <2>5. {<<i[1], i[2] - 1, x>> : x \in DOMAIN F[i[1]][i[2] - 1]} \subseteq p.work[i].after
        BY <2>3, BlockStep DEF Barrier
    <2>6. CASE k[2] = i[2] - 1
        <3>1. k[3] \in DOMAIN F[i[1]][i[2] - 1]
            BY <2>1, <2>6, BlockItem
        <3> QED BY <3>1, <2>1, <2>2, <2>5, <2>6
    <2>7. CASE k[2] # i[2] - 1
        <3> DEFINE b == <<i[1], i[2] - 1, m>>
        <3>1. b \in p.work[i].after
            BY <2>4, <2>5
        <3>2. p.work[i].after \subseteq ids
            BY BlockStep
        <3>3. k[2] < b[2] /\ k[1] = b[1]
            BY <2>1, <2>2, <2>7
        <3>4. k \in before[b]
            BY <1>1, <2>1, <3>1, <3>2, <3>3
        <3> QED BY <3>1, <3>4
    <2> QED BY <2>6, <2>7
<1>4. ASSUME NEW i \in ids, NEW j \in ids, i # j, Conflict(p.work[i], p.work[j])
      PROVE  i \in before[j] \/ j \in before[i]
    <2>1. Conflict(StepOf(F, i), StepOf(F, j))
        <3>1. /\ Writes(p.work[i]) = Writes(StepOf(F, i)) /\ Reads(p.work[i]) = Reads(StepOf(F, i))
              /\ Writes(p.work[j]) = Writes(StepOf(F, j)) /\ Reads(p.work[j]) = Reads(StepOf(F, j))
            BY BlockStep
        <3> QED BY <3>1, <1>4 DEF Conflict
    <2>2. i[1] = j[1] /\ i[2] # j[2]
        BY <1>4, <2>1 DEF Disjoint
    <2>3. i[2] < j[2] \/ j[2] < i[2]
        BY <1>2, <2>2
    <2> QED BY <1>1, <2>2, <2>3
<1>5. DOMAIN p.work = ids
    BY BlockDomain
<1> QED BY <1>3, <1>4, <1>5 DEF OrderedBy

-------------------------------------------------------------------------------
(* Every cell that item id writes gets the value val[id].                  *)
BlockValues(grid, F, val) ==
    [id \in BlockItems(grid, F) |-> [c \in Writes(StepOf(F, id)) |-> val[id]]]

(* What comes before an item, and what it writes.                          *)
LEMMA BlockOrder ==
    ASSUME NEW grid, NEW block, NEW n, NEW F, Phased(grid, n, F),
           NEW m \in BlockItems(grid, F)
    PROVE  /\ BlockBefore(grid, F)[m]
                = {k \in BlockItems(grid, F) : k[1] = m[1] /\ k[2] < m[2]}
           /\ Writes(BlocksOf(grid, block, F)[m]) = Writes(StepOf(F, m))
           /\ m[2] \in Nat
<1>1. m[1] \in grid /\ m[2] \in DOMAIN F[m[1]]
    BY BlockItem
<1>2. m[2] \in Nat
    BY <1>1 DEF Phased
<1>3. Writes(BlocksOf(grid, block, F)[m]) = Writes(StepOf(F, m))
    BY BlockStep
<1> QED BY <1>2, <1>3 DEF BlockBefore

(* An item reads what the last earlier phase of its block wrote,           *)
LEMMA ReadsPhase ==
    ASSUME NEW p, NEW grid, NEW block, NEW n, NEW F, NEW val, NEW c,
           p.work = BlocksOf(grid, block, F), Phased(grid, n, F),
           NEW i \in BlockItems(grid, F), NEW j \in BlockItems(grid, F),
           j[1] = i[1], j[2] < i[2], c \in Writes(StepOf(F, j)),
           \A m \in BlockItems(grid, F) :
               c \in Writes(StepOf(F, m)) /\ m[1] = i[1] /\ m[2] < i[2] => m = j \/ m[2] < j[2]
    PROVE  ValueAfter(p, BlockBefore(grid, F), BlockValues(grid, F, val),
                      BlockBefore(grid, F)[i], c) = val[j]
<1> DEFINE ids == BlockItems(grid, F)
           before == BlockBefore(grid, F)
           V == BlockValues(grid, F, val)
<1>1. \A m \in ids : /\ before[m] = {k \in ids : k[1] = m[1] /\ k[2] < m[2]}
                      /\ Writes(p.work[m]) = Writes(StepOf(F, m))
                      /\ m[2] \in Nat
    BY BlockOrder
<1>2. LastIn(p, before, before[i], c, j)
    BY <1>1 DEF LastIn
<1>3. V[j][c] = val[j]
    BY DEF BlockValues
<1> HIDE DEF before, V
<1> QED BY <1>2, <1>3, LastWrite DEF before, V

\* No item writes c.
Unwritten(grid, F, c) == \A m \in BlockItems(grid, F) : c \notin Writes(StepOf(F, m))

(* or the input that no item writes.                                       *)
LEMMA ReadsUnwritten ==
    ASSUME NEW p, NEW grid, NEW block, NEW n, NEW F, NEW val, NEW c,
           p.work = BlocksOf(grid, block, F), Phased(grid, n, F),
           NEW i \in BlockItems(grid, F),
           Unwritten(grid, F, c)
    PROVE  ValueAfter(p, BlockBefore(grid, F), BlockValues(grid, F, val),
                      BlockBefore(grid, F)[i], c) = {c} \cap p.inputs
<1>1. \A m \in BlockItems(grid, F) : Writes(p.work[m]) = Writes(StepOf(F, m))
    BY BlockStep
<1>2. BlockBefore(grid, F)[i] \subseteq BlockItems(grid, F)
    BY DEF BlockBefore
<1> QED BY <1>1, <1>2, NoWrite DEF Unwritten

\* Whoever writes c but item j does so in an earlier phase of j's block.
WrittenLast(grid, F, j, c) ==
    \A m \in BlockItems(grid, F) :
        c \in Writes(StepOf(F, m)) => m = j \/ (m[1] = j[1] /\ m[2] < j[2])

(* At the end a cell has the value of the last phase that writes it.       *)
LEMMA EndsWithPhase ==
    ASSUME NEW p, NEW grid, NEW block, NEW n, NEW F, NEW val, NEW c,
           p.work = BlocksOf(grid, block, F), Phased(grid, n, F),
           NEW j \in BlockItems(grid, F), c \in Writes(StepOf(F, j)),
           WrittenLast(grid, F, j, c)
    PROVE  ValueAfter(p, BlockBefore(grid, F), BlockValues(grid, F, val),
                      DOMAIN p.work, c) = val[j]
<1> DEFINE ids == BlockItems(grid, F)
           before == BlockBefore(grid, F)
           V == BlockValues(grid, F, val)
<1>1. \A m \in ids : /\ before[m] = {k \in ids : k[1] = m[1] /\ k[2] < m[2]}
                      /\ Writes(p.work[m]) = Writes(StepOf(F, m))
                      /\ m[2] \in Nat
    BY BlockOrder
<1>2. DOMAIN p.work = ids
    BY BlockDomain
<1>3. LastIn(p, before, DOMAIN p.work, c, j)
    BY <1>1, <1>2 DEF LastIn, WrittenLast
<1>4. V[j][c] = val[j]
    BY DEF BlockValues
<1> HIDE DEF before, V
<1> QED BY <1>3, <1>4, LastWrite DEF before, V

\* Every item computes its value from what it sees.
EachComputes(p, grid, F, val) ==
    \A id \in BlockItems(grid, F) : \A c \in Writes(StepOf(F, id)) :
        UNION {ValueAfter(p, BlockBefore(grid, F), BlockValues(grid, F, val),
                          BlockBefore(grid, F)[id], r) :
                  r \in StepOf(F, id).flow[c] \cap p.alloc} = val[id]

\* What is left at the end lies between what is required and what is allowed.
EndsRight(p, grid, F, val) ==
    \A c \in DOMAIN p.required :
        /\ c \in p.alloc
        /\ LET v == ValueAfter(p, BlockBefore(grid, F), BlockValues(grid, F, val),
                               DOMAIN p.work, c)
           IN  p.required[c] \subseteq v /\ v \subseteq p.allowed[c]

(* So a launch computes what its values say, one item after the other.     *)
LEMMA BlocksCompute ==
    ASSUME NEW p, NEW grid, NEW block, NEW n, NEW F, NEW val,
           p.work = BlocksOf(grid, block, F), Phased(grid, n, F),
           EachComputes(p, grid, F, val), EndsRight(p, grid, F, val)
    PROVE  Computes(p, BlockBefore(grid, F), BlockValues(grid, F, val), BlockValues(grid, F, val))
<1> DEFINE ids == BlockItems(grid, F)
           before == BlockBefore(grid, F)
           V == BlockValues(grid, F, val)
<1>1. DOMAIN p.work = ids
    BY BlockDomain
<1>2. ASSUME NEW i \in DOMAIN p.work, NEW c \in Writes(p.work[i])
      PROVE  LET From == UNION {ValueAfter(p, before, V, before[i], r) :
                                   r \in p.work[i].flow[c] \cap p.alloc}
             IN  /\ V[i][c] \subseteq From
                 /\ From \cup UNION p.work[i].yields \subseteq V[i][c]
    <2>1. i \in ids
        BY <1>1
    <2>2. /\ Writes(p.work[i]) = Writes(StepOf(F, i))
          /\ p.work[i].flow = StepOf(F, i).flow /\ p.work[i].yields = {{}}
        BY <2>1, BlockStep
    <2>3. V[i][c] = val[i]
        BY <2>1, <2>2 DEF BlockValues
    <2>4. UNION {ValueAfter(p, before, V, before[i], r) :
                   r \in p.work[i].flow[c] \cap p.alloc} = val[i]
        BY <2>1, <2>2 DEF EachComputes
    <2> HIDE DEF V, before
    <2> QED BY <2>2, <2>3, <2>4
<1> HIDE DEF V, before
<1>3. \A c \in DOMAIN p.required :
        /\ c \in p.alloc
        /\ p.required[c] \subseteq ValueAfter(p, before, V, DOMAIN p.work, c)
        /\ ValueAfter(p, before, V, DOMAIN p.work, c) \subseteq p.allowed[c]
    BY DEF EndsRight, V, before
<1>4. Computes(p, before, V, V)
    BY <1>2, <1>3 DEF Computes
<1> QED BY <1>4 DEF V, before

-------------------------------------------------------------------------------
(* The three phases of a block of rms_norm.                                *)
NormF(l) == [r \in NormGrid(l) |-> RmsNormPhases(l, r)]

\* Element k of row r of the input and of the output.
NormIn(l, r, k) == NormRow(l, l.input, r)[k]
NormOut(l, r, k) == NormRow(l, l.out, r)[k]

\* The columns of a row.
NormColumns(l) == 0..(NormDim(l.out) - 1)

\* The phases of every block, written out.
NormSteps(l) ==
    /\ \A r \in NormGrid(l) :
          /\ DOMAIN NormF(l)[r] = 1..3
          /\ DOMAIN NormF(l)[r][1] = 0..(l.block - 1)
          /\ DOMAIN NormF(l)[r][2] = {0}
          /\ DOMAIN NormF(l)[r][3] = NormColumns(l)
          /\ \A t \in 0..(l.block - 1) :
                NormF(l)[r][1][t]
                  = Then({NormIn(l, r, c) : c \in ThreadColumns(t, NormDim(l.out), l.block)},
                         {<<"pss", <<r, t>>>>})
          /\ NormF(l)[r][2][0]
                = Then({<<"pss", <<r, t>>>> : t \in 0..(l.block - 1)}, {<<"rms", r>>})
          /\ \A k \in NormColumns(l) :
                NormF(l)[r][3][k]
                  = Then({NormIn(l, r, k), At(l.weight, k), <<"rms", r>>}, {NormOut(l, r, k)})

(* RmsNormPhases, phase by phase.                                          *)
LEMMA NormPhaseSteps ==
    ASSUME NEW l
    PROVE  NormSteps(l)
<1> SUFFICES ASSUME NEW r \in NormGrid(l)
             PROVE  /\ DOMAIN NormF(l)[r] = 1..3
                    /\ DOMAIN NormF(l)[r][1] = 0..(l.block - 1)
                    /\ DOMAIN NormF(l)[r][2] = {0}
                    /\ DOMAIN NormF(l)[r][3] = NormColumns(l)
                    /\ \A t \in 0..(l.block - 1) :
                          NormF(l)[r][1][t]
                            = Then({NormIn(l, r, c) :
                                       c \in ThreadColumns(t, NormDim(l.out), l.block)},
                                   {<<"pss", <<r, t>>>>})
                    /\ NormF(l)[r][2][0]
                          = Then({<<"pss", <<r, t>>>> : t \in 0..(l.block - 1)}, {<<"rms", r>>})
                    /\ \A k \in NormColumns(l) :
                          NormF(l)[r][3][k]
                            = Then({NormIn(l, r, k), At(l.weight, k), <<"rms", r>>},
                                   {NormOut(l, r, k)})
    BY DEF NormSteps
<1> DEFINE x == NormRow(l, l.input, r)
           P1 == PartialResults(r, NormDim(l.out), l.block, "pss", x, {})
           P2 == Combine(r, l.block, "pss", "rms")
           P3 == [k \in 0..(NormDim(l.out) - 1) |->
                    Then({x[k], At(l.weight, k), Local("rms", r)}, {NormRow(l, l.out, r)[k]})]
<1>1. NormF(l)[r] = <<P1, P2, P3>>
    BY DEF NormF, RmsNormPhases
<1>2. /\ DOMAIN P1 = 0..(l.block - 1) /\ DOMAIN P2 = {0} /\ DOMAIN P3 = NormColumns(l)
    BY DEF PartialResults, Combine, NormColumns
<1>3. ASSUME NEW t \in 0..(l.block - 1)
      PROVE  P1[t] = Then({NormIn(l, r, c) : c \in ThreadColumns(t, NormDim(l.out), l.block)},
                          {<<"pss", <<r, t>>>>})
    <2>1. P1[t] = Then({x[c] : c \in ThreadColumns(t, NormDim(l.out), l.block)} \cup {},
                       {<<"pss", <<r, t>>>>})
        BY DEF PartialResults
    <2>2. {x[c] : c \in ThreadColumns(t, NormDim(l.out), l.block)} \cup {}
            = {NormIn(l, r, c) : c \in ThreadColumns(t, NormDim(l.out), l.block)}
        BY DEF NormIn
    <2> QED BY <2>1, <2>2
<1>4. P2[0] = Then({<<"pss", <<r, t>>>> : t \in 0..(l.block - 1)}, {<<"rms", r>>})
    BY DEF Combine, Local
<1>5. ASSUME NEW k \in NormColumns(l)
      PROVE  P3[k] = Then({NormIn(l, r, k), At(l.weight, k), <<"rms", r>>}, {NormOut(l, r, k)})
    BY DEF NormColumns, NormIn, NormOut, Local
<1> HIDE DEF P1, P2, P3
<1>6. /\ DOMAIN NormF(l)[r] = 1..3
      /\ NormF(l)[r][1] = P1 /\ NormF(l)[r][2] = P2 /\ NormF(l)[r][3] = P3
    BY <1>1
<1> QED BY <1>2, <1>3, <1>4, <1>5, <1>6

\* The step of an item, by its phase.
NormStep(l, id) ==
    \/ /\ id[2] = 1 /\ id[3] \in 0..(l.block - 1)
       /\ StepOf(NormF(l), id)
            = Then({NormIn(l, id[1], c) : c \in ThreadColumns(id[3], NormDim(l.out), l.block)},
                   {<<"pss", <<id[1], id[3]>>>>})
    \/ /\ id[2] = 2 /\ id[3] = 0
       /\ StepOf(NormF(l), id)
            = Then({<<"pss", <<id[1], t>>>> : t \in 0..(l.block - 1)}, {<<"rms", id[1]>>})
    \/ /\ id[2] = 3 /\ id[3] \in NormColumns(l)
       /\ StepOf(NormF(l), id)
            = Then({NormIn(l, id[1], id[3]), At(l.weight, id[3]), <<"rms", id[1]>>},
                   {NormOut(l, id[1], id[3])})

(* Every item is a step of one of the three phases.                       *)
LEMMA NormItem ==
    ASSUME NEW l, NEW id \in BlockItems(NormGrid(l), NormF(l))
    PROVE  /\ id = <<id[1], id[2], id[3]>> /\ id[1] \in NormGrid(l) /\ id[2] \in 1..3
           /\ NormStep(l, id)
<1>1. /\ id = <<id[1], id[2], id[3]>> /\ id[1] \in NormGrid(l)
      /\ id[2] \in DOMAIN NormF(l)[id[1]] /\ id[3] \in DOMAIN NormF(l)[id[1]][id[2]]
    BY BlockItem
<1>2. NormSteps(l)
    BY NormPhaseSteps
<1>3. id[2] \in {1, 2, 3}
    <2>1. DOMAIN NormF(l)[id[1]] = 1..3
        BY <1>1, <1>2 DEF NormSteps
    <2>2. 1..3 = {1, 2, 3}
        OBVIOUS
    <2> QED BY <1>1, <2>1, <2>2
<1>4. CASE id[2] = 1
    BY <1>1, <1>2, <1>4, ZenonT(60) DEF NormSteps, NormStep, StepOf
<1>5. CASE id[2] = 2
    BY <1>1, <1>2, <1>5, ZenonT(60) DEF NormSteps, NormStep, StepOf
<1>6. CASE id[2] = 3
    BY <1>1, <1>2, <1>6, ZenonT(60) DEF NormSteps, NormStep, StepOf
<1>7. {1, 2, 3} = 1..3
    OBVIOUS
<1> QED BY <1>1, <1>3, <1>4, <1>5, <1>6, <1>7

(* Every thread, and every column in the last phase, is an item.           *)
LEMMA NormItemsExist ==
    ASSUME NEW l, NEW r \in NormGrid(l)
    PROVE  /\ \A t \in 0..(l.block - 1) : <<r, 1, t>> \in BlockItems(NormGrid(l), NormF(l))
           /\ <<r, 2, 0>> \in BlockItems(NormGrid(l), NormF(l))
           /\ \A k \in NormColumns(l) : <<r, 3, k>> \in BlockItems(NormGrid(l), NormF(l))
<1>1. /\ DOMAIN NormF(l)[r] = 1..3
      /\ DOMAIN NormF(l)[r][1] = 0..(l.block - 1)
      /\ DOMAIN NormF(l)[r][2] = {0}
      /\ DOMAIN NormF(l)[r][3] = NormColumns(l)
    BY NormPhaseSteps DEF NormSteps
<1>2. ASSUME NEW q \in {1, 2, 3}, NEW k \in DOMAIN NormF(l)[r][q]
      PROVE  <<r, q, k>> \in BlockItems(NormGrid(l), NormF(l))
    <2>1. q \in DOMAIN NormF(l)[r]
        BY <1>1
    <2> QED BY <2>1 DEF BlockItems
<1> QED BY <1>1, <1>2

\* The cells of rms_norm: its input, its weight, its output and two shared
\* buffers, of which no two overlap.
NormPlaces(l) ==
    /\ NormDim(l.out) \in Nat \ {0} /\ l.block \in Nat \ {0}
    /\ \A r \in NormGrid(l) : \A k \in NormColumns(l) :
          /\ NormIn(l, r, k) \in Cells(l.input) /\ NormIn(l, r, k)[1] = l.input.buffer
          /\ NormOut(l, r, k) \in Cells(l.out) /\ NormOut(l, r, k)[1] = l.out.buffer
    /\ \A k \in NormColumns(l) :
          At(l.weight, k) \in Cells(l.weight) /\ At(l.weight, k)[1] = l.weight.buffer
    /\ {l.input.buffer, l.weight.buffer} \cap {l.out.buffer, "pss", "rms"} = {}
    /\ l.out.buffer \notin {"pss", "rms"}
    /\ \A r, s \in NormGrid(l) : \A j, k \in NormColumns(l) :
          NormOut(l, r, j) = NormOut(l, s, k) => r = s /\ j = k

\* One block for each row r: in[r][j] and out[r][j] are its n elements.
RowsApart(l, n, in, out) ==
    /\ n \in Nat \ {0} /\ l.block \in Nat \ {0}
    /\ l.out.buffer # l.input.buffer
    /\ {l.input.buffer, l.out.buffer} \cap SharedMemory = {}
    /\ \A r \in DOMAIN out : \A j \in 0..(n - 1) :
          in[r][j] \in Cells(l.input) /\ out[r][j] \in Cells(l.out)
    /\ \A r, s \in DOMAIN out : \A j, k \in 0..(n - 1) :
          out[r][j] = out[s][k] => r = s /\ j = k

NormRows(l, t) == [r \in NormGrid(l) |-> NormRow(l, t, r)]

\* The rows of the norm kernel lie apart.
NormRowsApart(l) ==
    /\ l.op = "rms_norm"
    /\ RowsApart(l, NormDim(l.out), NormRows(l, l.input), NormRows(l, l.out))
    /\ l.weight.buffer \notin SharedMemory \cup {l.out.buffer}
    /\ \A k \in 0..(NormDim(l.out) - 1) : At(l.weight, k) \in Cells(l.weight)

\* And its reference is that of rows.
CudaNormByRows(l) ==
    LET in  == NormRows(l, l.input)
        out == NormRows(l, l.out)
        columns == 0..(NormDim(l.out) - 1)
    IN  /\ DOMAIN RmsNormFrom(l) = UNION {{out[r][k] : k \in columns} : r \in NormGrid(l)}
        /\ \A r \in NormGrid(l) : \A k \in columns :
              RmsNormFrom(l)[out[r][k]]
                 = {in[r][j] : j \in columns} \cup {At(l.weight, k)}

(* What NormRowsApart says of the operands, said of their cells.           *)
LEMMA NormCells ==
    ASSUME NEW l, NormRowsApart(l)
    PROVE  NormPlaces(l)
<1> DEFINE in == NormRows(l, l.input)
           out == NormRows(l, l.out)
<1>1. RowsApart(l, NormDim(l.out), in, out)
    BY DEF NormRowsApart
<1>2. \A r \in NormGrid(l) : \A k \in NormColumns(l) :
        /\ in[r][k] = NormIn(l, r, k) /\ out[r][k] = NormOut(l, r, k)
        /\ NormIn(l, r, k)[1] = l.input.buffer /\ NormOut(l, r, k)[1] = l.out.buffer
    BY DEF NormRows, NormIn, NormOut, NormRow, NormColumns, NormElement, At
<1>3. DOMAIN out = NormGrid(l)
    BY DEF NormRows
<1>4. \A k : At(l.weight, k)[1] = l.weight.buffer
    BY DEF At
<1> HIDE DEF in, out
<1>5. /\ NormDim(l.out) \in Nat \ {0} /\ l.block \in Nat \ {0}
      /\ l.out.buffer # l.input.buffer
      /\ {l.input.buffer, l.out.buffer} \cap SharedMemory = {}
      /\ \A r \in NormGrid(l) : \A k \in NormColumns(l) :
            in[r][k] \in Cells(l.input) /\ out[r][k] \in Cells(l.out)
      /\ \A r, s \in NormGrid(l) : \A j, k \in NormColumns(l) :
            out[r][j] = out[s][k] => r = s /\ j = k
    BY <1>1, <1>3 DEF RowsApart, NormColumns
<1>6. {"pss", "rms"} \subseteq SharedMemory
    BY DEF SharedMemory
<1>7. /\ l.weight.buffer \notin SharedMemory /\ l.weight.buffer # l.out.buffer
      /\ \A k \in NormColumns(l) : At(l.weight, k) \in Cells(l.weight)
    BY DEF NormRowsApart, NormColumns
<1>8. \A r \in NormGrid(l) : \A k \in NormColumns(l) :
        NormIn(l, r, k) \in Cells(l.input) /\ NormOut(l, r, k) \in Cells(l.out)
    BY <1>2, <1>5
<1>9. \A r, s \in NormGrid(l) : \A j, k \in NormColumns(l) :
        NormOut(l, r, j) = NormOut(l, s, k) => r = s /\ j = k
    BY <1>2, <1>5
<1> QED BY <1>2, <1>4, <1>5, <1>6, <1>7, <1>8, <1>9 DEF NormPlaces

\* What an item writes and reads, by its phase.
NormAccess(l, id) ==
    \/ /\ id[2] = 1
       /\ Writes(StepOf(NormF(l), id)) = {<<"pss", <<id[1], id[3]>>>>}
       /\ \A c \in Reads(StepOf(NormF(l), id)) : c[1] = l.input.buffer
    \/ /\ id[2] = 2 /\ id[3] = 0
       /\ Writes(StepOf(NormF(l), id)) = {<<"rms", id[1]>>}
       /\ \A c \in Reads(StepOf(NormF(l), id)) : c[1] = "pss" /\ c[2][1] = id[1]
    \/ /\ id[2] = 3 /\ id[3] \in NormColumns(l)
       /\ Writes(StepOf(NormF(l), id)) = {NormOut(l, id[1], id[3])}
       /\ \A c \in Reads(StepOf(NormF(l), id)) :
             c[1] \in {l.input.buffer, l.weight.buffer} \/ c = <<"rms", id[1]>>

(* An item of rms_norm touches what its phase allows.                      *)
LEMMA NormTouches ==
    ASSUME NEW l, NormPlaces(l), NEW id \in BlockItems(NormGrid(l), NormF(l))
    PROVE  NormAccess(l, id) /\ id = <<id[1], id[2], id[3]>> /\ id[1] \in NormGrid(l)
<1>1. id = <<id[1], id[2], id[3]>> /\ id[1] \in NormGrid(l) /\ NormStep(l, id)
    BY NormItem
<1>2. CASE id[2] = 1
    <2> DEFINE R == {NormIn(l, id[1], c) : c \in ThreadColumns(id[3], NormDim(l.out), l.block)}
               W == {<<"pss", <<id[1], id[3]>>>>}
    <2>1. StepOf(NormF(l), id) = Then(R, W)
        BY <1>1, <1>2 DEF NormStep
    <2>2. \A c \in R : c[1] = l.input.buffer
        BY <1>1 DEF NormPlaces, NormColumns, ThreadColumns
    <2> HIDE DEF R
    <2>3. Writes(Then(R, W)) = W /\ Reads(Then(R, W)) \subseteq R
        BY StepTouches
    <2> QED BY <1>1, <1>2, <2>1, <2>2, <2>3 DEF NormAccess
<1>3. CASE id[2] = 2
    <2> DEFINE R == {<<"pss", <<id[1], t>>>> : t \in 0..(l.block - 1)}
               W == {<<"rms", id[1]>>}
    <2>1. StepOf(NormF(l), id) = Then(R, W) /\ id[3] = 0
        BY <1>1, <1>3 DEF NormStep
    <2>2. \A c \in R : c[1] = "pss" /\ c[2][1] = id[1]
        OBVIOUS
    <2> HIDE DEF R
    <2>3. Writes(Then(R, W)) = W /\ Reads(Then(R, W)) \subseteq R
        BY StepTouches
    <2> QED BY <1>1, <1>3, <2>1, <2>2, <2>3 DEF NormAccess
<1>4. CASE id[2] = 3
    <2> DEFINE R == {NormIn(l, id[1], id[3]), At(l.weight, id[3]), <<"rms", id[1]>>}
               W == {NormOut(l, id[1], id[3])}
    <2>1. StepOf(NormF(l), id) = Then(R, W) /\ id[3] \in NormColumns(l)
        BY <1>1, <1>4 DEF NormStep
    <2>2. \A c \in R : c[1] \in {l.input.buffer, l.weight.buffer} \/ c = <<"rms", id[1]>>
        BY <1>1, <2>1 DEF NormPlaces
    <2> HIDE DEF R
    <2>3. Writes(Then(R, W)) = W /\ Reads(Then(R, W)) \subseteq R
        BY StepTouches
    <2> QED BY <1>1, <1>4, <2>1, <2>2, <2>3 DEF NormAccess
<1> QED BY <1>1, <1>2, <1>3, <1>4 DEF NormStep

\* Who writes cell c.
NormWrites(l, id, c) ==
    \/ id[2] = 1 /\ c[1] = "pss" /\ c[2] = <<id[1], id[3]>>
    \/ id[2] = 2 /\ id[3] = 0 /\ c[1] = "rms" /\ c[2] = id[1]
    \/ /\ id[2] = 3 /\ id[3] \in NormColumns(l)
       /\ c[1] = l.out.buffer /\ c = NormOut(l, id[1], id[3])

\* Who reads cell c.
NormReads(l, id, c) ==
    \/ id[2] = 1 /\ c[1] = l.input.buffer
    \/ id[2] = 2 /\ c[1] = "pss" /\ c[2][1] = id[1]
    \/ /\ id[2] = 3
       /\ c[1] \in {l.input.buffer, l.weight.buffer} \/ (c[1] = "rms" /\ c[2] = id[1])

(* So whoever touches a cell can be told from the cell.                    *)
LEMMA NormUse ==
    ASSUME NEW l, NormPlaces(l), NEW id \in BlockItems(NormGrid(l), NormF(l)), NEW c
    PROVE  /\ c \in Writes(StepOf(NormF(l), id)) => NormWrites(l, id, c)
           /\ c \in Reads(StepOf(NormF(l), id)) => NormReads(l, id, c)
<1>1. NormAccess(l, id) /\ id[1] \in NormGrid(l)
    BY NormTouches
<1>2. \A r \in NormGrid(l) : \A k \in NormColumns(l) : NormOut(l, r, k)[1] = l.out.buffer
    BY DEF NormPlaces
<1>3. CASE id[2] = 1
    BY <1>1, <1>3 DEF NormAccess, NormWrites, NormReads
<1>4. CASE id[2] = 2
    BY <1>1, <1>4 DEF NormAccess, NormWrites, NormReads
<1>5. CASE id[2] = 3
    BY <1>1, <1>2, <1>5 DEF NormAccess, NormWrites, NormReads
<1> QED BY <1>1, <1>3, <1>4, <1>5 DEF NormAccess

(* Each cell is written by one item, and read in later phases of its block *)
(* only.                                                                   *)
LEMMA NormOnce ==
    ASSUME NEW l, NormPlaces(l),
           NEW i \in BlockItems(NormGrid(l), NormF(l)),
           NEW j \in BlockItems(NormGrid(l), NormF(l)),
           NEW c \in Writes(StepOf(NormF(l), i))
    PROVE  /\ c \in Writes(StepOf(NormF(l), j)) => i = j
           /\ c \in Reads(StepOf(NormF(l), j)) => i[1] = j[1] /\ i[2] < j[2]
<1>1. /\ i = <<i[1], i[2], i[3]>> /\ i[1] \in NormGrid(l)
      /\ j = <<j[1], j[2], j[3]>> /\ j[1] \in NormGrid(l)
    BY NormItem
<1>2. /\ NormWrites(l, i, c)
      /\ c \in Writes(StepOf(NormF(l), j)) => NormWrites(l, j, c)
      /\ c \in Reads(StepOf(NormF(l), j)) => NormReads(l, j, c)
    BY NormUse
<1>3. /\ {l.input.buffer, l.weight.buffer} \cap {l.out.buffer, "pss", "rms"} = {}
      /\ l.out.buffer \notin {"pss", "rms"}
      /\ \A r, s \in NormGrid(l) : \A x, y \in NormColumns(l) :
            NormOut(l, r, x) = NormOut(l, s, y) => r = s /\ x = y
    BY DEF NormPlaces
<1>4. NormWrites(l, j, c) => i[1] = j[1] /\ i[2] = j[2] /\ i[3] = j[3]
    BY <1>1, <1>2, <1>3 DEF NormWrites
<1>5. ASSUME NormReads(l, j, c) PROVE i[1] = j[1] /\ i[2] < j[2]
    <2>0. /\ l.input.buffer \notin {l.out.buffer, "pss", "rms"}
          /\ l.weight.buffer \notin {l.out.buffer, "pss", "rms"}
        BY <1>3
    <2>1. CASE i[2] = 1
        <3>1. c[1] = "pss" /\ c[2] = <<i[1], i[3]>>
            BY <1>2, <2>1 DEF NormWrites
        <3>2. c[2][1] = i[1]
            BY <3>1
        <3>3. j[2] = 2 /\ c[2][1] = j[1]
            BY <1>5, <2>0, <3>1 DEF NormReads
        <3> QED BY <2>1, <3>2, <3>3
    <2>2. CASE i[2] = 2
        <3>1. c[1] = "rms" /\ c[2] = i[1]
            BY <1>2, <2>2 DEF NormWrites
        <3>2. j[2] = 3 /\ c[2] = j[1]
            BY <1>5, <2>0, <3>1 DEF NormReads
        <3> QED BY <2>2, <3>1, <3>2
    <2>3. CASE i[2] = 3
        <3>1. c[1] = l.out.buffer
            BY <1>2, <2>3 DEF NormWrites
        <3> QED BY <1>3, <1>5, <2>0, <3>1 DEF NormReads
    <2> QED BY <1>2, <2>1, <2>2, <2>3 DEF NormWrites
<1> QED BY <1>1, <1>2, <1>4, <1>5

(* Items that no barrier orders share no cell.                             *)
LEMMA NormDisjoint ==
    ASSUME NEW l, NormPlaces(l)
    PROVE  Disjoint(NormGrid(l), NormF(l))
<1> DEFINE ids == BlockItems(NormGrid(l), NormF(l))
           At1(i) == StepOf(NormF(l), i)
<1>1. ASSUME NEW i \in ids, NEW j \in ids, i # j, i[1] = j[1] => i[2] = j[2]
      PROVE  /\ Writes(At1(i)) \cap (Writes(At1(j)) \cup Reads(At1(j))) = {}
             /\ i[2] \in Nat
    <2>1. i[2] \in Nat
        BY NormItem
    <2>2. ASSUME NEW c \in Writes(At1(i))
          PROVE  c \notin Writes(At1(j)) /\ c \notin Reads(At1(j))
        <3>1. /\ c \in Writes(At1(j)) => i = j
              /\ c \in Reads(At1(j)) => i[1] = j[1] /\ i[2] < j[2]
            BY NormOnce
        <3>2. j[2] \in Nat
            BY NormItem
        <3> QED BY <1>1, <2>1, <3>1, <3>2
    <2> HIDE DEF At1
    <2> QED BY <2>1, <2>2
<1>2. ASSUME NEW i \in ids, NEW j \in ids, i # j, i[1] = j[1] => i[2] = j[2]
      PROVE  ~Conflict(At1(i), At1(j))
    <2>1. Writes(At1(i)) \cap (Writes(At1(j)) \cup Reads(At1(j))) = {}
        BY <1>1, <1>2
    <2>2. Writes(At1(j)) \cap (Writes(At1(i)) \cup Reads(At1(i))) = {}
        BY <1>1, <1>2
    <2> HIDE DEF At1
    <2> QED BY <2>1, <2>2 DEF Conflict
<1> QED BY <1>2 DEF Disjoint
\* What an item's step reads.
NormReading(l, id) ==
    IF id[2] = 1
    THEN {NormIn(l, id[1], c) : c \in ThreadColumns(id[3], NormDim(l.out), l.block)}
    ELSE IF id[2] = 2
    THEN {<<"pss", <<id[1], t>>>> : t \in 0..(l.block - 1)}
    ELSE {NormIn(l, id[1], id[3]), At(l.weight, id[3]), <<"rms", id[1]>>}

\* The cell it writes.
NormCell(l, id) ==
    IF id[2] = 1 THEN <<"pss", <<id[1], id[3]>>>>
    ELSE IF id[2] = 2 THEN <<"rms", id[1]>>
    ELSE NormOut(l, id[1], id[3])

(* Every item computes one cell from what it reads.                        *)
LEMMA NormThen ==
    ASSUME NEW l, NEW id \in BlockItems(NormGrid(l), NormF(l))
    PROVE  StepOf(NormF(l), id) = Then(NormReading(l, id), {NormCell(l, id)})
<1>1. NormStep(l, id)
    BY NormItem
<1>2. CASE id[2] = 1
    BY <1>1, <1>2 DEF NormStep, NormReading, NormCell
<1>3. CASE id[2] = 2
    BY <1>1, <1>3 DEF NormStep, NormReading, NormCell
<1>4. CASE id[2] = 3
    BY <1>1, <1>4 DEF NormStep, NormReading, NormCell
<1> QED BY <1>1, <1>2, <1>3, <1>4 DEF NormStep

(* Every phase but the last has a thread at work, and every item is one    *)
(* step.                                                                   *)
LEMMA NormPhased ==
    ASSUME NEW l, NormPlaces(l)
    PROVE  Phased(NormGrid(l), 3, NormF(l))
<1> DEFINE grid == NormGrid(l)
           F == NormF(l)
<1>1. \A r \in grid : /\ DOMAIN F[r] = 1..3
                       /\ DOMAIN F[r][1] = 0..(l.block - 1)
                       /\ DOMAIN F[r][2] = {0}
    BY NormPhaseSteps DEF NormSteps
<1>2. l.block \in Nat \ {0}
    BY DEF NormPlaces
<1>3. ASSUME NEW r \in grid, NEW q \in 1..(3 - 1) PROVE DOMAIN F[r][q] # {}
    <2>1. q = 1 \/ q = 2
        OBVIOUS
    <2>2. 0 \in 0..(l.block - 1)
        BY <1>2
    <2> QED BY <1>1, <2>1, <2>2
<1>4. ASSUME NEW id \in BlockItems(grid, F)
      PROVE  \E reads, writes : StepOf(F, id) = Then(reads, writes)
    BY NormThen
<1> HIDE DEF grid, F
<1>5. Phased(grid, 3, F)
    BY <1>1, <1>3, <1>4 DEF Phased
<1> QED BY <1>5 DEF grid, F

(* The memory of a launch.                                                 *)
LEMMA NormMemory ==
    ASSUME NEW l
    PROVE  /\ CudaRmsNorm(l).work = BlocksOf(NormGrid(l), l.block, NormF(l))
           /\ CudaRmsNorm(l).inputs = Cells(l.input) \cup Cells(l.weight)
           /\ CudaRmsNorm(l).alloc
                = (Cells(l.input) \cup Cells(l.weight) \cup Cells(l.out))
                  \cup (({"rms"} \X NormGrid(l))
                        \cup ({"pss"} \X (NormGrid(l) \X (0..(l.block - 1)))))
           /\ CudaRmsNorm(l).required = RmsNormFrom(l)
           /\ CudaRmsNorm(l).allowed = RmsNormFrom(l)
<1> DEFINE F == NormF(l)
           grid == NormGrid(l)
<1>1. [r \in grid |-> Phases(r, l.block, F[r])]
        = [r \in grid |-> Phases(r, l.block, RmsNormPhases(l, r))]
    BY DEF NormF
<1>2. CudaRmsNorm(l).work = BlocksOf(grid, l.block, F)
    BY <1>1 DEF CudaRmsNorm, Program, BlocksOf
<1>3. CudaRmsNorm(l).inputs = Cells(l.input) \cup Cells(l.weight)
    <2>1. UNION {Cells(t) : t \in {l.input, l.weight}} = Cells(l.input) \cup Cells(l.weight)
        OBVIOUS
    <2> QED BY <2>1 DEF CudaRmsNorm, Program
<1>4. CudaRmsNorm(l).alloc
        = (Cells(l.input) \cup Cells(l.weight) \cup Cells(l.out))
          \cup (({"rms"} \X grid) \cup ({"pss"} \X (grid \X (0..(l.block - 1)))))
    <2>1. UNION {Cells(t) : t \in {l.input, l.weight} \cup {l.out}}
            = Cells(l.input) \cup Cells(l.weight) \cup Cells(l.out)
        OBVIOUS
    <2> QED BY <2>1 DEF CudaRmsNorm, Program, Partials
<1>5. /\ CudaRmsNorm(l).required = RmsNormFrom(l)
      /\ CudaRmsNorm(l).allowed = RmsNormFrom(l)
    BY DEF CudaRmsNorm, Program
<1> QED BY <1>2, <1>3, <1>4, <1>5

(* What an item of rms_norm reads and writes is memory of its launch.      *)
LEMMA NormReadsInside ==
    ASSUME NEW l, NormPlaces(l), NEW id \in BlockItems(NormGrid(l), NormF(l))
    PROVE  /\ NormReading(l, id) \subseteq CudaRmsNorm(l).alloc
           /\ NormCell(l, id) \in CudaRmsNorm(l).alloc
<1> DEFINE p == CudaRmsNorm(l)
           grid == NormGrid(l)
<1>0. id[1] \in grid /\ NormStep(l, id)
    BY NormItem
<1>1. /\ Cells(l.input) \subseteq p.alloc /\ Cells(l.weight) \subseteq p.alloc
      /\ Cells(l.out) \subseteq p.alloc
      /\ <<"rms", id[1]>> \in p.alloc
      /\ \A t \in 0..(l.block - 1) : <<"pss", <<id[1], t>>>> \in p.alloc
    <2> HIDE DEF p
    <2> QED BY <1>0, NormMemory DEF p
<1>2. /\ \A k \in NormColumns(l) :
            /\ NormIn(l, id[1], k) \in Cells(l.input)
            /\ NormOut(l, id[1], k) \in Cells(l.out)
            /\ At(l.weight, k) \in Cells(l.weight)
    BY <1>0 DEF NormPlaces
<1>3. NormReading(l, id) \cup {NormCell(l, id)} \subseteq p.alloc
    <2> HIDE DEF p
    <2>1. CASE id[2] = 1
        BY <1>0, <1>1, <1>2, <2>1
           DEF NormStep, NormReading, NormCell, ThreadColumns, NormColumns
    <2>2. CASE id[2] = 2
        BY <1>1, <2>2 DEF NormReading, NormCell
    <2>3. CASE id[2] = 3
        BY <1>0, <1>1, <1>2, <2>3 DEF NormStep, NormReading, NormCell
    <2> QED BY <1>0, <2>1, <2>2, <2>3 DEF NormStep
<1> HIDE DEF p
<1> QED BY <1>3 DEF p

(* No item of rms_norm leaves the memory of its launch.                    *)
LEMMA NormConfined ==
    ASSUME NEW l, NormPlaces(l)
    PROVE  Confined(CudaRmsNorm(l))
<1> DEFINE p == CudaRmsNorm(l)
           F == NormF(l)
           grid == NormGrid(l)
<1>1. p.work = BlocksOf(grid, l.block, F)
    BY NormMemory
<1>2. DOMAIN p.work = BlockItems(grid, F)
    BY <1>1, BlockDomain
<1>3. Phased(grid, 3, F)
    BY NormPhased
<1>4. ASSUME NEW id \in BlockItems(grid, F)
      PROVE  Reads(StepOf(F, id)) \cup Writes(StepOf(F, id)) \subseteq p.alloc
    <2>3. NormReading(l, id) \cup {NormCell(l, id)} \subseteq p.alloc
        BY NormReadsInside
    <2>4. LET item == Then(NormReading(l, id), {NormCell(l, id)})
          IN  Writes(item) = {NormCell(l, id)} /\ Reads(item) \subseteq NormReading(l, id)
        BY StepTouches
    <2>5. StepOf(F, id) = Then(NormReading(l, id), {NormCell(l, id)})
        BY NormThen
    <2> HIDE DEF p
    <2> QED BY <2>3, <2>4, <2>5
<1>5. ASSUME NEW id \in BlockItems(grid, F)
      PROVE  /\ p.work[id].after \subseteq DOMAIN p.work
             /\ Reads(p.work[id]) \cup Writes(p.work[id]) \subseteq p.alloc
    <2>1. LET item == BlocksOf(grid, l.block, F)[id]
          IN  /\ item.after \subseteq BlockItems(grid, F)
              /\ Writes(item) = Writes(StepOf(F, id))
              /\ Reads(item) = Reads(StepOf(F, id))
        BY <1>3, BlockStep
    <2> HIDE DEF p
    <2> QED BY <1>1, <1>2, <1>4, <2>1
<1> QED BY <1>2, <1>5 DEF Confined
\* What the item writes depends on: its thread's columns, the whole row, and
\* in the end the weight of the column too.
NormVal(l, id) ==
    IF id[2] = 1
    THEN {NormIn(l, id[1], c) : c \in ThreadColumns(id[3], NormDim(l.out), l.block)}
    ELSE {NormIn(l, id[1], c) : c \in NormColumns(l)}
         \cup (IF id[2] = 2 THEN {} ELSE {At(l.weight, id[3])})

NormVals(l) == [id \in BlockItems(NormGrid(l), NormF(l)) |-> NormVal(l, id)]

\* What cell c holds for item i.
NormSeen(l, i, c) ==
    ValueAfter(CudaRmsNorm(l), BlockBefore(NormGrid(l), NormF(l)),
               BlockValues(NormGrid(l), NormF(l), NormVals(l)),
               BlockBefore(NormGrid(l), NormF(l))[i], c)

(* An item of phase q reads from an earlier phase what the one item there  *)
(* wrote.                                                                  *)
LEMMA NormSeesPhase ==
    ASSUME NEW l, NormPlaces(l),
           NEW i \in BlockItems(NormGrid(l), NormF(l)),
           NEW j \in BlockItems(NormGrid(l), NormF(l)),
           NEW c \in Writes(StepOf(NormF(l), j)), j[1] = i[1], j[2] < i[2]
    PROVE  NormSeen(l, i, c) = NormVal(l, j)
<1> DEFINE grid == NormGrid(l)
           F == NormF(l)
           p == CudaRmsNorm(l)
           val == NormVals(l)
<1>1. p.work = BlocksOf(grid, l.block, F)
    BY NormMemory
<1>2. Phased(grid, 3, F)
    BY NormPhased
<1>3. \A m \in BlockItems(grid, F) :
        c \in Writes(StepOf(F, m)) /\ m[1] = i[1] /\ m[2] < i[2] => m = j \/ m[2] < j[2]
    BY NormOnce
<1>4. val[j] = NormVal(l, j)
    BY DEF NormVals
<1> HIDE DEF grid, F, p, val
<1>5. ValueAfter(p, BlockBefore(grid, F), BlockValues(grid, F, val),
                 BlockBefore(grid, F)[i], c) = val[j]
    BY <1>1, <1>2, <1>3, ReadsPhase DEF grid, F
<1> QED BY <1>4, <1>5 DEF NormSeen, grid, F, p, val

(* The inputs are what they were.                                          *)
LEMMA NormSeesInput ==
    ASSUME NEW l, NormPlaces(l),
           NEW i \in BlockItems(NormGrid(l), NormF(l)),
           NEW c \in Cells(l.input) \cup Cells(l.weight),
           c[1] \in {l.input.buffer, l.weight.buffer}
    PROVE  NormSeen(l, i, c) = {c}
<1> DEFINE grid == NormGrid(l)
           F == NormF(l)
           p == CudaRmsNorm(l)
           val == NormVals(l)
<1>1. p.work = BlocksOf(grid, l.block, F) /\ c \in p.inputs
    BY NormMemory
<1>2. Phased(grid, 3, F)
    BY NormPhased
<1>3. ASSUME NEW m \in BlockItems(grid, F) PROVE c \notin Writes(StepOf(F, m))
    <2>1. c \in Writes(StepOf(F, m)) => NormWrites(l, m, c)
        BY NormUse
    <2> QED BY <2>1 DEF NormWrites, NormPlaces
<1>5. Unwritten(grid, F, c)
    BY <1>3 DEF Unwritten
<1>6. i \in BlockItems(grid, F)
    OBVIOUS
<1> HIDE DEF grid, F, p, val
<1>4. ValueAfter(p, BlockBefore(grid, F), BlockValues(grid, F, val),
                 BlockBefore(grid, F)[i], c) = {c} \cap p.inputs
    BY <1>1, <1>2, <1>5, <1>6, ReadsUnwritten
<1> QED BY <1>1, <1>4 DEF NormSeen, grid, F, p, val

(* Each item computes its value.                                           *)
LEMMA NormComputesValue ==
    ASSUME NEW l, NormPlaces(l), NEW i \in BlockItems(NormGrid(l), NormF(l))
    PROVE  UNION {NormSeen(l, i, c) : c \in NormReading(l, i)} = NormVal(l, i)
<1> DEFINE ids == BlockItems(NormGrid(l), NormF(l))
           r == i[1]
           n == NormDim(l.out)
<1>1. r \in NormGrid(l) /\ NormStep(l, i)
    BY NormItem
<1>2. /\ \A t \in 0..(l.block - 1) : <<r, 1, t>> \in ids
      /\ <<r, 2, 0>> \in ids
    BY <1>1, NormItemsExist
<1>3. n \in Nat \ {0} /\ l.block \in Nat \ {0}
    BY DEF NormPlaces
<1>4. ASSUME NEW k \in NormColumns(l) PROVE NormSeen(l, i, NormIn(l, r, k)) = {NormIn(l, r, k)}
    BY <1>1, NormSeesInput DEF NormPlaces
<1>5. CASE i[2] = 1
    <2>1. NormReading(l, i) = {NormIn(l, r, c) : c \in ThreadColumns(i[3], n, l.block)}
        BY <1>5 DEF NormReading
    <2>2. NormVal(l, i) = {NormIn(l, r, c) : c \in ThreadColumns(i[3], n, l.block)}
        BY <1>5 DEF NormVal
    <2>3. ThreadColumns(i[3], n, l.block) \subseteq NormColumns(l)
        BY DEF ThreadColumns, NormColumns
    <2> QED BY <1>4, <2>1, <2>2, <2>3
<1>6. CASE i[2] = 2
    <2>1. NormReading(l, i) = {<<"pss", <<r, t>>>> : t \in 0..(l.block - 1)}
        BY <1>6 DEF NormReading
    <2>2. NormVal(l, i) = {NormIn(l, r, c) : c \in NormColumns(l)}
        BY <1>6 DEF NormVal
    <2>3. ASSUME NEW t \in 0..(l.block - 1)
          PROVE  NormSeen(l, i, <<"pss", <<r, t>>>>)
                   = {NormIn(l, r, c) : c \in ThreadColumns(t, n, l.block)}
        <3> DEFINE j == <<r, 1, t>>
        <3>1. j \in ids /\ j[1] = r /\ j[2] = 1 /\ j[3] = t
            BY <1>2
        <3> HIDE DEF j
        <3>2. StepOf(NormF(l), j) = Then(NormReading(l, j), {NormCell(l, j)})
            BY <3>1, NormThen
        <3>3. Writes(Then(NormReading(l, j), {NormCell(l, j)})) = {NormCell(l, j)}
            BY StepTouches
        <3>4. NormCell(l, j) = <<"pss", <<r, t>>>>
            BY <3>1 DEF NormCell
        <3>5. <<"pss", <<r, t>>>> \in Writes(StepOf(NormF(l), j))
            BY <3>2, <3>3, <3>4
        <3>6. NormSeen(l, i, <<"pss", <<r, t>>>>) = NormVal(l, j)
            BY <1>6, <3>1, <3>5, NormSeesPhase
        <3> QED BY <3>1, <3>6 DEF NormVal
    <2>4. \A c \in NormColumns(l) : \E t \in 0..(l.block - 1) : c \in ThreadColumns(t, n, l.block)
        <3> SUFFICES ASSUME NEW c \in NormColumns(l)
                     PROVE  \E t \in 0..(l.block - 1) : c \in ThreadColumns(t, n, l.block)
            OBVIOUS
        <3>1. c \in Nat /\ c % l.block \in 0..(l.block - 1)
            BY <1>3 DEF NormColumns
        <3> QED BY <3>1 DEF ThreadColumns, NormColumns
    <2>5. \A t : ThreadColumns(t, n, l.block) \subseteq NormColumns(l)
        BY DEF ThreadColumns, NormColumns
    <2>6. UNION {NormSeen(l, i, c) : c \in NormReading(l, i)}
            = UNION {NormSeen(l, i, <<"pss", <<r, t>>>>) : t \in 0..(l.block - 1)}
        BY <2>1
    <2>7. UNION {NormSeen(l, i, <<"pss", <<r, t>>>>) : t \in 0..(l.block - 1)}
            = UNION {{NormIn(l, r, c) : c \in ThreadColumns(t, n, l.block)} :
                        t \in 0..(l.block - 1)}
        BY <2>3
    <2>8. UNION {{NormIn(l, r, c) : c \in ThreadColumns(t, n, l.block)} :
                    t \in 0..(l.block - 1)} = {NormIn(l, r, c) : c \in NormColumns(l)}
        BY <2>4, <2>5
    <2> QED BY <2>2, <2>6, <2>7, <2>8
<1>7. CASE i[2] = 3
    <2>0. i[3] \in NormColumns(l)
        BY <1>1, <1>7 DEF NormStep
    <2>1. NormReading(l, i) = {NormIn(l, r, i[3]), At(l.weight, i[3]), <<"rms", r>>}
        BY <1>7 DEF NormReading
    <2>2. NormVal(l, i) = {NormIn(l, r, c) : c \in NormColumns(l)} \cup {At(l.weight, i[3])}
        BY <1>7 DEF NormVal
    <2>3. NormSeen(l, i, <<"rms", r>>) = {NormIn(l, r, c) : c \in NormColumns(l)}
        <3> DEFINE j == <<r, 2, 0>>
        <3>1. j \in ids /\ j[1] = r /\ j[2] = 2 /\ j[3] = 0
            BY <1>2
        <3> HIDE DEF j
        <3>2. StepOf(NormF(l), j) = Then(NormReading(l, j), {NormCell(l, j)})
            BY <3>1, NormThen
        <3>3. Writes(Then(NormReading(l, j), {NormCell(l, j)})) = {NormCell(l, j)}
            BY StepTouches
        <3>4. NormCell(l, j) = <<"rms", r>>
            BY <3>1 DEF NormCell
        <3>5. <<"rms", r>> \in Writes(StepOf(NormF(l), j))
            BY <3>2, <3>3, <3>4
        <3>6. NormSeen(l, i, <<"rms", r>>) = NormVal(l, j)
            BY <1>7, <3>1, <3>5, NormSeesPhase
        <3> QED BY <3>1, <3>6 DEF NormVal
    <2>4. NormSeen(l, i, At(l.weight, i[3])) = {At(l.weight, i[3])}
        BY <2>0, NormSeesInput DEF NormPlaces
    <2>5. NormSeen(l, i, NormIn(l, r, i[3])) = {NormIn(l, r, i[3])}
        BY <1>4, <2>0
    <2> QED BY <2>0, <2>1, <2>2, <2>3, <2>4, <2>5
<1> QED BY <1>1, <1>5, <1>6, <1>7 DEF NormStep
(* Each item of rms_norm computes its value, and the last phase the result *)
(* its definition names.                                                   *)
LEMMA NormComputes ==
    ASSUME NEW l, NormPlaces(l), CudaNormByRows(l)
    PROVE  /\ EachComputes(CudaRmsNorm(l), NormGrid(l), NormF(l), NormVals(l))
           /\ EndsRight(CudaRmsNorm(l), NormGrid(l), NormF(l), NormVals(l))
<1> DEFINE grid == NormGrid(l)
           F == NormF(l)
           p == CudaRmsNorm(l)
           val == NormVals(l)
           ids == BlockItems(grid, F)
           Seen(i, c) == ValueAfter(p, BlockBefore(grid, F), BlockValues(grid, F, val),
                                    BlockBefore(grid, F)[i], c)
<1>1. ASSUME NEW id \in ids, NEW c \in Writes(StepOf(F, id))
      PROVE  UNION {Seen(id, r) : r \in StepOf(F, id).flow[c] \cap p.alloc} = val[id]
    <2>1. StepOf(F, id) = Then(NormReading(l, id), {NormCell(l, id)})
        BY NormThen
    <2>2. LET item == Then(NormReading(l, id), {NormCell(l, id)})
          IN  \A x \in Writes(item) : item.flow[x] = NormReading(l, id)
        BY StepTouches
    <2>3. StepOf(F, id).flow[c] = NormReading(l, id)
        BY <2>1, <2>2
    <2>4. NormReading(l, id) \subseteq p.alloc
        BY NormReadsInside
    <2>5. UNION {NormSeen(l, id, r) : r \in NormReading(l, id)} = NormVal(l, id)
        BY NormComputesValue
    <2>6. val[id] = NormVal(l, id)
        BY DEF NormVals
    <2>7. \A r : Seen(id, r) = NormSeen(l, id, r)
        BY DEF NormSeen
    <2>8. NormReading(l, id) \cap p.alloc = NormReading(l, id)
        BY <2>4
    <2> HIDE DEF p, val, Seen, F, grid
    <2> QED BY <2>3, <2>5, <2>6, <2>7, <2>8
<1>2. ASSUME NEW c \in DOMAIN p.required
      PROVE  /\ c \in p.alloc
             /\ ValueAfter(p, BlockBefore(grid, F), BlockValues(grid, F, val),
                           DOMAIN p.work, c) = p.required[c]
    <2>0. p.required = RmsNormFrom(l) /\ Cells(l.out) \subseteq p.alloc
        <3> HIDE DEF p
        <3> QED BY NormMemory DEF p
    <2>1. PICK r \in grid, k \in NormColumns(l) : c = NormOut(l, r, k)
        <3>1. DOMAIN RmsNormFrom(l)
                = UNION {{NormRows(l, l.out)[r][k] : k \in NormColumns(l)} : r \in grid}
            BY DEF CudaNormByRows, NormColumns
        <3>2. \A r \in grid : NormRows(l, l.out)[r] = NormRow(l, l.out, r)
            BY DEF NormRows
        <3> HIDE DEF p, grid
        <3> QED BY <2>0, <3>1, <3>2 DEF NormOut
    <2> DEFINE j == <<r, 3, k>>
    <2>2. j \in ids /\ j[1] = r /\ j[2] = 3 /\ j[3] = k
        BY NormItemsExist
    <2> HIDE DEF j
    <2>3. StepOf(F, j) = Then(NormReading(l, j), {NormCell(l, j)})
        BY <2>2, NormThen
    <2>4. Writes(Then(NormReading(l, j), {NormCell(l, j)})) = {NormCell(l, j)}
        BY StepTouches
    <2>5. c \in Writes(StepOf(F, j))
        BY <2>1, <2>2, <2>3, <2>4 DEF NormCell
    <2>6. WrittenLast(grid, F, j, c)
        BY <2>2, <2>5, NormOnce DEF WrittenLast
    <2>7. p.work = BlocksOf(grid, l.block, F)
        BY NormMemory
    <2>8. Phased(grid, 3, F)
        BY NormPhased
    <2>9. val[j] = {NormIn(l, r, x) : x \in NormColumns(l)} \cup {At(l.weight, k)}
        BY <2>2 DEF NormVals, NormVal
    <2>10. RmsNormFrom(l)[c]
             = {NormIn(l, r, x) : x \in NormColumns(l)} \cup {At(l.weight, k)}
        <3>1. /\ NormRows(l, l.out)[r][k] = NormOut(l, r, k)
              /\ \A x : NormRows(l, l.input)[r][x] = NormIn(l, r, x)
            BY DEF NormRows, NormOut, NormIn
        <3>2. RmsNormFrom(l)[NormRows(l, l.out)[r][k]]
                = {NormRows(l, l.input)[r][x] : x \in NormColumns(l)} \cup {At(l.weight, k)}
            BY DEF CudaNormByRows, NormColumns
        <3> QED BY <2>1, <3>1, <3>2
    <2>11. c \in p.alloc
        BY <2>0, <2>1 DEF NormPlaces
    <2> HIDE DEF p, val, F, grid
    <2>12. ValueAfter(p, BlockBefore(grid, F), BlockValues(grid, F, val),
                      DOMAIN p.work, c) = val[j]
        BY <2>2, <2>5, <2>6, <2>7, <2>8, EndsWithPhase
    <2> QED BY <2>0, <2>9, <2>10, <2>11, <2>12
<1>3. p.allowed = p.required
    BY NormMemory
<1> HIDE DEF p, F, grid, val
<1>4. EachComputes(p, grid, F, val)
    BY <1>1 DEF EachComputes
<1>5. EndsRight(p, grid, F, val)
    BY <1>2, <1>3 DEF EndsRight
<1> QED BY <1>4, <1>5 DEF p, F, grid, val
-------------------------------------------------------------------------------
(* The six phases of a block of causal_softmax.                            *)
SoftmaxF(l) == [r \in SoftmaxGrid(l) |-> SoftmaxPhases(l, r)]

\* Element j of row r of the input and of the output.
SoftmaxIn(l, r, j) == SoftmaxRow(l, l.input, r)[j]
SoftmaxOut(l, r, j) == SoftmaxRow(l, l.out, r)[j]

\* The columns of a row.
SoftmaxColumns(l) == 0..(TotalSeqLen(l) - 1)

\* The numbers of a phase's items: threads, thread 0 alone, or columns.
SoftmaxNumbers(l, q) ==
    IF q \in {1, 4} THEN 0..(l.block - 1)
    ELSE IF q \in {2, 5} THEN {0}
    ELSE SoftmaxColumns(l)

\* What the step of an item reads.
SoftmaxReading(l, id) ==
    IF id[2] = 1
    THEN {SoftmaxIn(l, id[1], c) : c \in ThreadColumns(id[3], ValidLen(l, id[1][1]), l.block)}
         \cup {SoftmaxIn(l, id[1], 0)}
    ELSE IF id[2] = 2
    THEN {<<"pmax", <<id[1], t>>>> : t \in 0..(l.block - 1)}
    ELSE IF id[2] = 3
    THEN IF id[3] < ValidLen(l, id[1][1])
         THEN {SoftmaxIn(l, id[1], id[3]), <<"max", id[1]>>} ELSE {}
    ELSE IF id[2] = 4
    THEN {SoftmaxOut(l, id[1], c) : c \in ThreadColumns(id[3], TotalSeqLen(l), l.block)}
    ELSE IF id[2] = 5
    THEN {<<"psum", <<id[1], t>>>> : t \in 0..(l.block - 1)}
    ELSE {SoftmaxOut(l, id[1], id[3]), <<"sum", id[1]>>}

\* The cell it writes.
SoftmaxCell(l, id) ==
    IF id[2] = 1 THEN <<"pmax", <<id[1], id[3]>>>>
    ELSE IF id[2] = 2 THEN <<"max", id[1]>>
    ELSE IF id[2] = 4 THEN <<"psum", <<id[1], id[3]>>>>
    ELSE IF id[2] = 5 THEN <<"sum", id[1]>>
    ELSE SoftmaxOut(l, id[1], id[3])

(* SoftmaxPhases, phase by phase.                                          *)
LEMMA SoftmaxPhaseSteps ==
    ASSUME NEW l, NEW r \in SoftmaxGrid(l)
    PROVE  /\ DOMAIN SoftmaxF(l)[r] = 1..6
           /\ \A q \in 1..6 : DOMAIN SoftmaxF(l)[r][q] = SoftmaxNumbers(l, q)
           /\ \A q \in 1..6 : \A k \in SoftmaxNumbers(l, q) :
                 SoftmaxF(l)[r][q][k]
                   = Then(SoftmaxReading(l, <<r, q, k>>), {SoftmaxCell(l, <<r, q, k>>)})
<1> DEFINE n == TotalSeqLen(l)
           valid == ValidLen(l, r[1])
           in == SoftmaxRow(l, l.input, r)
           out == SoftmaxRow(l, l.out, r)
           P1 == PartialResults(r, valid, l.block, "pmax", in, {in[0]})
           P2 == Combine(r, l.block, "pmax", "max")
           P3 == [j \in 0..(n - 1) |->
                    IF j < valid THEN Then({in[j], Local("max", r)}, {out[j]})
                                 ELSE Then({}, {out[j]})]
           P4 == PartialResults(r, n, l.block, "psum", out, {})
           P5 == Combine(r, l.block, "psum", "sum")
           P6 == [j \in 0..(n - 1) |-> Then({out[j], Local("sum", r)}, {out[j]})]
           Is(q, P) == /\ DOMAIN P = SoftmaxNumbers(l, q)
                       /\ \A k \in SoftmaxNumbers(l, q) :
                             P[k] = Then(SoftmaxReading(l, <<r, q, k>>),
                                         {SoftmaxCell(l, <<r, q, k>>)})
<1>1. SoftmaxF(l)[r] = <<P1, P2, P3, P4, P5, P6>>
    BY DEF SoftmaxF, SoftmaxPhases
<1>2. Is(1, P1)
    <2>1. DOMAIN P1 = SoftmaxNumbers(l, 1)
        BY DEF PartialResults, SoftmaxNumbers
    <2>2. ASSUME NEW k \in 0..(l.block - 1)
          PROVE  P1[k] = Then(SoftmaxReading(l, <<r, 1, k>>), {SoftmaxCell(l, <<r, 1, k>>)})
        <3>1. P1[k] = Then({in[c] : c \in ThreadColumns(k, valid, l.block)} \cup {in[0]},
                           {<<"pmax", <<r, k>>>>})
            BY DEF PartialResults
        <3>2. SoftmaxReading(l, <<r, 1, k>>)
                = {in[c] : c \in ThreadColumns(k, valid, l.block)} \cup {in[0]}
            BY DEF SoftmaxReading, SoftmaxIn
        <3>3. SoftmaxCell(l, <<r, 1, k>>) = <<"pmax", <<r, k>>>>
            BY DEF SoftmaxCell
        <3> HIDE DEF P1, in, valid
        <3> QED BY <3>1, <3>2, <3>3
    <2> HIDE DEF P1
    <2> QED BY <2>1, <2>2 DEF SoftmaxNumbers
<1>3. Is(2, P2)
    <2>1. DOMAIN P2 = SoftmaxNumbers(l, 2)
        BY DEF Combine, SoftmaxNumbers
    <2>2. P2[0] = Then(SoftmaxReading(l, <<r, 2, 0>>), {SoftmaxCell(l, <<r, 2, 0>>)})
        <3>1. P2[0] = Then({<<"pmax", <<r, t>>>> : t \in 0..(l.block - 1)}, {<<"max", r>>})
            BY DEF Combine, Local
        <3>2. SoftmaxReading(l, <<r, 2, 0>>) = {<<"pmax", <<r, t>>>> : t \in 0..(l.block - 1)}
            BY DEF SoftmaxReading
        <3>3. SoftmaxCell(l, <<r, 2, 0>>) = <<"max", r>>
            BY DEF SoftmaxCell
        <3> QED BY <3>1, <3>2, <3>3
    <2> HIDE DEF P2
    <2> QED BY <2>1, <2>2 DEF SoftmaxNumbers
<1>4. Is(3, P3)
    <2>1. DOMAIN P3 = SoftmaxNumbers(l, 3)
        BY DEF SoftmaxNumbers, SoftmaxColumns
    <2>2. ASSUME NEW k \in SoftmaxColumns(l)
          PROVE  P3[k] = Then(SoftmaxReading(l, <<r, 3, k>>), {SoftmaxCell(l, <<r, 3, k>>)})
        <3>1. P3[k] = IF k < valid THEN Then({in[k], <<"max", r>>}, {out[k]})
                                   ELSE Then({}, {out[k]})
            BY DEF SoftmaxColumns, Local
        <3>2. SoftmaxReading(l, <<r, 3, k>>) = IF k < valid THEN {in[k], <<"max", r>>} ELSE {}
            BY DEF SoftmaxReading, SoftmaxIn
        <3>3. SoftmaxCell(l, <<r, 3, k>>) = out[k]
            BY DEF SoftmaxCell, SoftmaxOut
        <3> HIDE DEF P3, in, out, valid
        <3> QED BY <3>1, <3>2, <3>3
    <2> HIDE DEF P3
    <2> QED BY <2>1, <2>2 DEF SoftmaxNumbers
<1>5. Is(4, P4)
    <2>1. DOMAIN P4 = SoftmaxNumbers(l, 4)
        BY DEF PartialResults, SoftmaxNumbers
    <2>2. ASSUME NEW k \in 0..(l.block - 1)
          PROVE  P4[k] = Then(SoftmaxReading(l, <<r, 4, k>>), {SoftmaxCell(l, <<r, 4, k>>)})
        <3>1. P4[k] = Then({out[c] : c \in ThreadColumns(k, n, l.block)} \cup {},
                           {<<"psum", <<r, k>>>>})
            BY DEF PartialResults
        <3>2. SoftmaxReading(l, <<r, 4, k>>)
                = {out[c] : c \in ThreadColumns(k, n, l.block)}
            BY DEF SoftmaxReading, SoftmaxOut
        <3>3. SoftmaxCell(l, <<r, 4, k>>) = <<"psum", <<r, k>>>>
            BY DEF SoftmaxCell
        <3> HIDE DEF P4, out, n
        <3>4. {out[c] : c \in ThreadColumns(k, n, l.block)} \cup {}
                = {out[c] : c \in ThreadColumns(k, n, l.block)}
            OBVIOUS
        <3> QED BY <3>1, <3>2, <3>3, <3>4
    <2> HIDE DEF P4
    <2> QED BY <2>1, <2>2 DEF SoftmaxNumbers
<1>6. Is(5, P5)
    <2>1. DOMAIN P5 = SoftmaxNumbers(l, 5)
        BY DEF Combine, SoftmaxNumbers
    <2>2. P5[0] = Then(SoftmaxReading(l, <<r, 5, 0>>), {SoftmaxCell(l, <<r, 5, 0>>)})
        <3>1. P5[0] = Then({<<"psum", <<r, t>>>> : t \in 0..(l.block - 1)}, {<<"sum", r>>})
            BY DEF Combine, Local
        <3>2. SoftmaxReading(l, <<r, 5, 0>>) = {<<"psum", <<r, t>>>> : t \in 0..(l.block - 1)}
            BY DEF SoftmaxReading
        <3>3. SoftmaxCell(l, <<r, 5, 0>>) = <<"sum", r>>
            BY DEF SoftmaxCell
        <3> QED BY <3>1, <3>2, <3>3
    <2> HIDE DEF P5
    <2> QED BY <2>1, <2>2 DEF SoftmaxNumbers
<1>7. Is(6, P6)
    <2>1. DOMAIN P6 = SoftmaxNumbers(l, 6)
        BY DEF SoftmaxNumbers, SoftmaxColumns
    <2>2. ASSUME NEW k \in SoftmaxColumns(l)
          PROVE  P6[k] = Then(SoftmaxReading(l, <<r, 6, k>>), {SoftmaxCell(l, <<r, 6, k>>)})
        <3>1. P6[k] = Then({out[k], <<"sum", r>>}, {out[k]})
            BY DEF SoftmaxColumns, Local
        <3>2. SoftmaxReading(l, <<r, 6, k>>) = {out[k], <<"sum", r>>}
            BY DEF SoftmaxReading, SoftmaxOut
        <3>3. SoftmaxCell(l, <<r, 6, k>>) = out[k]
            BY DEF SoftmaxCell, SoftmaxOut
        <3> HIDE DEF P6, out
        <3> QED BY <3>1, <3>2, <3>3
    <2> HIDE DEF P6
    <2> QED BY <2>1, <2>2 DEF SoftmaxNumbers
<1> HIDE DEF P1, P2, P3, P4, P5, P6
<1>8. /\ DOMAIN SoftmaxF(l)[r] = 1..6
      /\ SoftmaxF(l)[r][1] = P1 /\ SoftmaxF(l)[r][2] = P2 /\ SoftmaxF(l)[r][3] = P3
      /\ SoftmaxF(l)[r][4] = P4 /\ SoftmaxF(l)[r][5] = P5 /\ SoftmaxF(l)[r][6] = P6
    BY <1>1
<1> HIDE DEF Is
<1>9. ASSUME NEW q \in 1..6 PROVE Is(q, SoftmaxF(l)[r][q])
    <2>1. q \in {1, 2, 3, 4, 5, 6}
        OBVIOUS
    <2> QED BY <2>1, <1>2, <1>3, <1>4, <1>5, <1>6, <1>7, <1>8
<1> QED BY <1>8, <1>9 DEF Is

(* Items are triples of a row, a phase and one of its numbers.             *)
LEMMA SoftmaxItem ==
    ASSUME NEW l, NEW id \in BlockItems(SoftmaxGrid(l), SoftmaxF(l))
    PROVE  /\ id = <<id[1], id[2], id[3]>> /\ id[1] \in SoftmaxGrid(l)
           /\ id[2] \in {1, 2, 3, 4, 5, 6} /\ id[2] \in Nat
           /\ id[3] \in SoftmaxNumbers(l, id[2])
           /\ StepOf(SoftmaxF(l), id) = Then(SoftmaxReading(l, id), {SoftmaxCell(l, id)})
<1>1. /\ id = <<id[1], id[2], id[3]>> /\ id[1] \in SoftmaxGrid(l)
      /\ id[2] \in DOMAIN SoftmaxF(l)[id[1]] /\ id[3] \in DOMAIN SoftmaxF(l)[id[1]][id[2]]
    BY BlockItem
<1>2. id[2] \in 1..6 /\ id[3] \in SoftmaxNumbers(l, id[2])
    BY <1>1, SoftmaxPhaseSteps
<1>3. StepOf(SoftmaxF(l), id)
        = Then(SoftmaxReading(l, <<id[1], id[2], id[3]>>),
               {SoftmaxCell(l, <<id[1], id[2], id[3]>>)})
    BY <1>1, <1>2, SoftmaxPhaseSteps DEF StepOf
<1>4. StepOf(SoftmaxF(l), id) = Then(SoftmaxReading(l, id), {SoftmaxCell(l, id)})
    BY <1>1, <1>3
<1>5. id[2] \in {1, 2, 3, 4, 5, 6} /\ id[2] \in Nat
    BY <1>2
<1> QED BY <1>1, <1>2, <1>4, <1>5

(* Every number of every phase is an item.                                 *)
LEMMA SoftmaxItemsExist ==
    ASSUME NEW l, NEW r \in SoftmaxGrid(l), NEW q \in 1..6, NEW k \in SoftmaxNumbers(l, q)
    PROVE  <<r, q, k>> \in BlockItems(SoftmaxGrid(l), SoftmaxF(l))
<1>1. q \in DOMAIN SoftmaxF(l)[r] /\ k \in DOMAIN SoftmaxF(l)[r][q]
    BY SoftmaxPhaseSteps
<1> QED BY <1>1 DEF BlockItems

\* The cells of causal_softmax lie in two buffers and shared memory.
SoftmaxPlaces(l) ==
    /\ TotalSeqLen(l) \in Nat \ {0} /\ l.block \in Nat \ {0}
    /\ \A r \in SoftmaxGrid(l) : ValidLen(l, r[1]) \in 1..TotalSeqLen(l)
    /\ \A r \in SoftmaxGrid(l) : \A k \in SoftmaxColumns(l) :
          /\ SoftmaxIn(l, r, k) \in Cells(l.input) /\ SoftmaxIn(l, r, k)[1] = l.input.buffer
          /\ SoftmaxOut(l, r, k) \in Cells(l.out) /\ SoftmaxOut(l, r, k)[1] = l.out.buffer
    /\ l.input.buffer \notin {l.out.buffer, "pmax", "max", "psum", "sum"}
    /\ l.out.buffer \notin {"pmax", "max", "psum", "sum"}
    /\ \A r, s \in SoftmaxGrid(l) : \A j, k \in SoftmaxColumns(l) :
          SoftmaxOut(l, r, j) = SoftmaxOut(l, s, k) => r = s /\ j = k

SoftmaxRows(l, t) == [r \in SoftmaxGrid(l) |-> SoftmaxRow(l, t, r)]

\* The rows of the softmax kernel lie apart.
SoftmaxRowsApart(l) ==
    /\ l.op = "causal_softmax"
    /\ RowsApart(l, TotalSeqLen(l), SoftmaxRows(l, l.input), SoftmaxRows(l, l.out))
    /\ \A r \in SoftmaxGrid(l) : ValidLen(l, r[1]) \in 1..TotalSeqLen(l)

\* And its reference is that of what the mask leaves of them.
CudaSoftmaxByRows(l) ==
    LET in  == SoftmaxRows(l, l.input)
        out == SoftmaxRows(l, l.out)
        columns == 0..(TotalSeqLen(l) - 1)
        Seen(r) == {in[r][j] : j \in 0..(ValidLen(l, r[1]) - 1)}
    IN  /\ DOMAIN CausalSoftmaxFrom(l)
               = UNION {{out[r][j] : j \in columns} : r \in SoftmaxGrid(l)}
        /\ \A r \in SoftmaxGrid(l) : \A j \in columns :
              /\ CausalSoftmaxFrom(l)[out[r][j]]
                    = IF j < ValidLen(l, r[1]) THEN Seen(r) ELSE {}
              /\ SoftmaxAllowed(l)[out[r][j]] = Seen(r)

(* What SoftmaxRowsApart says of the operands, said of their cells.        *)
LEMMA SoftmaxCells ==
    ASSUME NEW l, SoftmaxRowsApart(l)
    PROVE  SoftmaxPlaces(l)
<1> DEFINE in == SoftmaxRows(l, l.input)
           out == SoftmaxRows(l, l.out)
<1>1. RowsApart(l, TotalSeqLen(l), in, out)
    BY DEF SoftmaxRowsApart
<1>2. \A r \in SoftmaxGrid(l) : \A k \in SoftmaxColumns(l) :
        /\ in[r][k] = SoftmaxIn(l, r, k) /\ out[r][k] = SoftmaxOut(l, r, k)
        /\ SoftmaxIn(l, r, k)[1] = l.input.buffer /\ SoftmaxOut(l, r, k)[1] = l.out.buffer
    BY DEF SoftmaxRows, SoftmaxIn, SoftmaxOut, SoftmaxRow, SoftmaxColumns, CudaRowElement, At
<1>3. DOMAIN out = SoftmaxGrid(l)
    BY DEF SoftmaxRows
<1> HIDE DEF in, out
<1>4. /\ TotalSeqLen(l) \in Nat \ {0} /\ l.block \in Nat \ {0}
      /\ l.out.buffer # l.input.buffer
      /\ {l.input.buffer, l.out.buffer} \cap SharedMemory = {}
      /\ \A r \in SoftmaxGrid(l) : \A k \in SoftmaxColumns(l) :
            in[r][k] \in Cells(l.input) /\ out[r][k] \in Cells(l.out)
      /\ \A r, s \in SoftmaxGrid(l) : \A j, k \in SoftmaxColumns(l) :
            out[r][j] = out[s][k] => r = s /\ j = k
    BY <1>1, <1>3 DEF RowsApart, SoftmaxColumns
<1>5. {"pmax", "max", "psum", "sum"} \subseteq SharedMemory
    BY DEF SharedMemory
<1>6. \A r \in SoftmaxGrid(l) : ValidLen(l, r[1]) \in 1..TotalSeqLen(l)
    BY DEF SoftmaxRowsApart
<1>7. \A r \in SoftmaxGrid(l) : \A k \in SoftmaxColumns(l) :
        SoftmaxIn(l, r, k) \in Cells(l.input) /\ SoftmaxOut(l, r, k) \in Cells(l.out)
    BY <1>2, <1>4
<1>8. \A r, s \in SoftmaxGrid(l) : \A j, k \in SoftmaxColumns(l) :
        SoftmaxOut(l, r, j) = SoftmaxOut(l, s, k) => r = s /\ j = k
    BY <1>2, <1>4
<1> QED BY <1>2, <1>4, <1>5, <1>6, <1>7, <1>8 DEF SoftmaxPlaces
\* Who reads cell c.
SoftmaxReads(l, id, c) ==
    \/ id[2] = 1 /\ c[1] = l.input.buffer
    \/ id[2] = 2 /\ c[1] = "pmax" /\ c[2][1] = id[1]
    \/ id[2] = 3 /\ (c[1] = l.input.buffer \/ (c[1] = "max" /\ c[2] = id[1]))
    \/ /\ id[2] = 4 /\ c[1] = l.out.buffer
       /\ \E k \in SoftmaxColumns(l) : c = SoftmaxOut(l, id[1], k)
    \/ id[2] = 5 /\ c[1] = "psum" /\ c[2][1] = id[1]
    \/ id[2] = 6 /\ (c = SoftmaxOut(l, id[1], id[3]) \/ (c[1] = "sum" /\ c[2] = id[1]))

(* What an item of causal_softmax touches.                                 *)
LEMMA SoftmaxUse ==
    ASSUME NEW l, SoftmaxPlaces(l), NEW id \in BlockItems(SoftmaxGrid(l), SoftmaxF(l))
    PROVE  /\ Writes(StepOf(SoftmaxF(l), id)) = {SoftmaxCell(l, id)}
           /\ Reads(StepOf(SoftmaxF(l), id)) \subseteq SoftmaxReading(l, id)
           /\ StepOf(SoftmaxF(l), id).flow[SoftmaxCell(l, id)] = SoftmaxReading(l, id)
           /\ \A c \in SoftmaxReading(l, id) : SoftmaxReads(l, id, c)
<1>1. /\ id[1] \in SoftmaxGrid(l) /\ id[2] \in {1, 2, 3, 4, 5, 6}
      /\ id[3] \in SoftmaxNumbers(l, id[2])
      /\ StepOf(SoftmaxF(l), id) = Then(SoftmaxReading(l, id), {SoftmaxCell(l, id)})
    BY SoftmaxItem
<1>2. LET item == Then(SoftmaxReading(l, id), {SoftmaxCell(l, id)})
      IN  /\ Writes(item) = {SoftmaxCell(l, id)}
          /\ Reads(item) \subseteq SoftmaxReading(l, id)
          /\ item.flow[SoftmaxCell(l, id)] = SoftmaxReading(l, id)
    <2>1. LET item == Then(SoftmaxReading(l, id), {SoftmaxCell(l, id)})
          IN  /\ Writes(item) = {SoftmaxCell(l, id)}
              /\ Reads(item) \subseteq SoftmaxReading(l, id)
              /\ \A c \in {SoftmaxCell(l, id)} : item.flow[c] = SoftmaxReading(l, id)
        BY StepTouches
    <2> QED BY <2>1
<1>3. TotalSeqLen(l) \in Nat \ {0} /\ ValidLen(l, id[1][1]) \in 1..TotalSeqLen(l)
    BY <1>1 DEF SoftmaxPlaces
<1>4. \A k \in SoftmaxColumns(l) :
        /\ SoftmaxIn(l, id[1], k)[1] = l.input.buffer
        /\ SoftmaxOut(l, id[1], k)[1] = l.out.buffer
    BY <1>1 DEF SoftmaxPlaces
<1>5. /\ 0 \in SoftmaxColumns(l)
      /\ \A t : /\ ThreadColumns(t, ValidLen(l, id[1][1]), l.block) \subseteq SoftmaxColumns(l)
                /\ ThreadColumns(t, TotalSeqLen(l), l.block) \subseteq SoftmaxColumns(l)
    BY <1>3 DEF SoftmaxColumns, ThreadColumns
<1>6. ASSUME NEW c \in SoftmaxReading(l, id) PROVE SoftmaxReads(l, id, c)
    <2>1. CASE id[2] = 1
        BY <2>1, <1>4, <1>5, <1>6 DEF SoftmaxReading, SoftmaxReads
    <2>2. CASE id[2] = 2
        <3>1. PICK t \in 0..(l.block - 1) : c = <<"pmax", <<id[1], t>>>>
            BY <2>2, <1>6 DEF SoftmaxReading
        <3> QED BY <2>2, <3>1 DEF SoftmaxReads
    <2>3. CASE id[2] = 3
        <3>1. id[3] \in SoftmaxColumns(l)
            BY <1>1, <2>3 DEF SoftmaxNumbers
        <3>2. c = SoftmaxIn(l, id[1], id[3]) \/ c = <<"max", id[1]>>
            BY <1>6, <2>3 DEF SoftmaxReading
        <3> QED BY <2>3, <1>4, <3>1, <3>2 DEF SoftmaxReads
    <2>4. CASE id[2] = 4
        BY <2>4, <1>4, <1>5, <1>6 DEF SoftmaxReading, SoftmaxReads
    <2>5. CASE id[2] = 5
        <3>1. PICK t \in 0..(l.block - 1) : c = <<"psum", <<id[1], t>>>>
            BY <2>5, <1>6 DEF SoftmaxReading
        <3> QED BY <2>5, <3>1 DEF SoftmaxReads
    <2>6. CASE id[2] = 6
        <3>1. c = SoftmaxOut(l, id[1], id[3]) \/ c = <<"sum", id[1]>>
            BY <1>6, <2>6 DEF SoftmaxReading
        <3> QED BY <2>6, <3>1 DEF SoftmaxReads
    <2> QED BY <1>1, <2>1, <2>2, <2>3, <2>4, <2>5, <2>6
<1> QED BY <1>1, <1>2, <1>6

\* The item, but for its phase, that writes cell c.
SoftmaxWrites(l, id, c) ==
    \/ id[2] = 1 /\ c[1] = "pmax" /\ c[2] = <<id[1], id[3]>>
    \/ id[2] = 2 /\ id[3] = 0 /\ c[1] = "max" /\ c[2] = id[1]
    \/ id[2] = 4 /\ c[1] = "psum" /\ c[2] = <<id[1], id[3]>>
    \/ id[2] = 5 /\ id[3] = 0 /\ c[1] = "sum" /\ c[2] = id[1]
    \/ /\ id[2] \in {3, 6} /\ id[3] \in SoftmaxColumns(l)
       /\ c[1] = l.out.buffer /\ c = SoftmaxOut(l, id[1], id[3])

(* An item writes the cell of its number.                                  *)
LEMMA SoftmaxWriter ==
    ASSUME NEW l, SoftmaxPlaces(l), NEW id \in BlockItems(SoftmaxGrid(l), SoftmaxF(l))
    PROVE  SoftmaxWrites(l, id, SoftmaxCell(l, id))
<1>1. /\ id[1] \in SoftmaxGrid(l) /\ id[2] \in {1, 2, 3, 4, 5, 6}
      /\ id[3] \in SoftmaxNumbers(l, id[2])
    BY SoftmaxItem
<1>2. CASE id[2] = 1
    BY <1>2 DEF SoftmaxCell, SoftmaxWrites
<1>3. CASE id[2] = 2
    BY <1>1, <1>3 DEF SoftmaxCell, SoftmaxWrites, SoftmaxNumbers
<1>4. CASE id[2] = 4
    BY <1>4 DEF SoftmaxCell, SoftmaxWrites
<1>5. CASE id[2] = 5
    BY <1>1, <1>5 DEF SoftmaxCell, SoftmaxWrites, SoftmaxNumbers
<1>6. CASE id[2] \in {3, 6}
    <2>1. id[3] \in SoftmaxColumns(l)
        BY <1>1, <1>6 DEF SoftmaxNumbers
    <2>2. SoftmaxCell(l, id) = SoftmaxOut(l, id[1], id[3])
        BY <1>6 DEF SoftmaxCell
    <2>3. SoftmaxOut(l, id[1], id[3])[1] = l.out.buffer
        BY <1>1, <2>1 DEF SoftmaxPlaces
    <2> QED BY <1>6, <2>1, <2>2, <2>3 DEF SoftmaxWrites
<1> QED BY <1>1, <1>2, <1>3, <1>4, <1>5, <1>6

(* A cell belongs to one item of its block, which writes it in one phase,  *)
(* or in the third and again in the sixth; in its own phase nobody reads   *)
(* it but its item.                                                        *)
LEMMA SoftmaxOnce ==
    ASSUME NEW l, SoftmaxPlaces(l),
           NEW i \in BlockItems(SoftmaxGrid(l), SoftmaxF(l)),
           NEW j \in BlockItems(SoftmaxGrid(l), SoftmaxF(l)),
           NEW c \in Writes(StepOf(SoftmaxF(l), i))
    PROVE  /\ c \in Writes(StepOf(SoftmaxF(l), j)) =>
                 /\ i[1] = j[1] /\ i[3] = j[3]
                 /\ i[2] = j[2] \/ {i[2], j[2]} = {3, 6}
           /\ c \in Reads(StepOf(SoftmaxF(l), j)) =>
                 i[1] = j[1] /\ (i[2] = j[2] => i = j)
<1>1. /\ i = <<i[1], i[2], i[3]>> /\ i[1] \in SoftmaxGrid(l)
      /\ j = <<j[1], j[2], j[3]>> /\ j[1] \in SoftmaxGrid(l)
      /\ j[2] \in {1, 2, 3, 4, 5, 6} /\ j[3] \in SoftmaxNumbers(l, j[2])
    BY SoftmaxItem
<1>2. SoftmaxWrites(l, i, c) /\ (c \in Writes(StepOf(SoftmaxF(l), j)) => SoftmaxWrites(l, j, c))
    BY SoftmaxUse, SoftmaxWriter
<1>3. c \in Reads(StepOf(SoftmaxF(l), j)) => SoftmaxReads(l, j, c)
    BY SoftmaxUse
<1>4. /\ l.input.buffer \notin {l.out.buffer, "pmax", "max", "psum", "sum"}
      /\ l.out.buffer \notin {"pmax", "max", "psum", "sum"}
      /\ \A r, s \in SoftmaxGrid(l) : \A x, y \in SoftmaxColumns(l) :
            SoftmaxOut(l, r, x) = SoftmaxOut(l, s, y) => r = s /\ x = y
    BY DEF SoftmaxPlaces
<1>5. ASSUME SoftmaxWrites(l, j, c)
      PROVE  i[1] = j[1] /\ i[3] = j[3] /\ (i[2] = j[2] \/ {i[2], j[2]} = {3, 6})
    BY <1>1, <1>2, <1>4, <1>5 DEF SoftmaxWrites
<1>6. ASSUME SoftmaxReads(l, j, c)
      PROVE  i[1] = j[1] /\ (i[2] = j[2] => i = j)
    <2>1. CASE i[2] = 1
        <3>1. c[1] = "pmax" /\ c[2] = <<i[1], i[3]>>
            BY <1>2, <2>1 DEF SoftmaxWrites
        <3>2. j[2] = 6 => j[3] \in SoftmaxColumns(l)
            BY <1>1 DEF SoftmaxNumbers
        <3>3. j[2] = 2 /\ c[2][1] = j[1]
            BY <1>1, <1>4, <1>6, <3>1, <3>2 DEF SoftmaxReads, SoftmaxPlaces
        <3> QED BY <2>1, <3>1, <3>3
    <2>2. CASE i[2] = 2
        <3>1. c[1] = "max" /\ c[2] = i[1]
            BY <1>2, <2>2 DEF SoftmaxWrites
        <3>2. j[2] = 6 => j[3] \in SoftmaxColumns(l)
            BY <1>1 DEF SoftmaxNumbers
        <3>3. j[2] = 3 /\ c[2] = j[1]
            BY <1>1, <1>4, <1>6, <3>1, <3>2 DEF SoftmaxReads, SoftmaxPlaces
        <3> QED BY <2>2, <3>1, <3>3
    <2>3. CASE i[2] = 4
        <3>1. c[1] = "psum" /\ c[2] = <<i[1], i[3]>>
            BY <1>2, <2>3 DEF SoftmaxWrites
        <3>2. j[2] = 6 => j[3] \in SoftmaxColumns(l)
            BY <1>1 DEF SoftmaxNumbers
        <3>3. j[2] = 5 /\ c[2][1] = j[1]
            BY <1>1, <1>4, <1>6, <3>1, <3>2 DEF SoftmaxReads, SoftmaxPlaces
        <3> QED BY <2>3, <3>1, <3>3
    <2>4. CASE i[2] = 5
        <3>1. c[1] = "sum" /\ c[2] = i[1]
            BY <1>2, <2>4 DEF SoftmaxWrites
        <3>2. j[2] = 6 => j[3] \in SoftmaxColumns(l)
            BY <1>1 DEF SoftmaxNumbers
        <3>3. j[2] = 6 /\ c[2] = j[1]
            BY <1>1, <1>4, <1>6, <3>1, <3>2 DEF SoftmaxReads, SoftmaxPlaces
        <3> QED BY <2>4, <3>1, <3>3
    <2>5. CASE i[2] \in {3, 6}
        <3>1. /\ c[1] = l.out.buffer /\ c = SoftmaxOut(l, i[1], i[3])
              /\ i[3] \in SoftmaxColumns(l)
            BY <1>2, <2>5 DEF SoftmaxWrites
        <3>2. j[2] = 6 => j[3] \in SoftmaxColumns(l)
            BY <1>1 DEF SoftmaxNumbers
        <3>3. \/ j[2] = 4 /\ \E k \in SoftmaxColumns(l) : c = SoftmaxOut(l, j[1], k)
              \/ j[2] = 6 /\ c = SoftmaxOut(l, j[1], j[3])
            BY <1>4, <1>6, <3>1 DEF SoftmaxReads
        <3> QED BY <1>1, <1>4, <2>5, <3>1, <3>2, <3>3
    <2> QED BY <1>2, <2>1, <2>2, <2>3, <2>4, <2>5 DEF SoftmaxWrites
<1> QED BY <1>2, <1>3, <1>5, <1>6

(* Items that no barrier orders share no cell.                             *)
LEMMA SoftmaxDisjoint ==
    ASSUME NEW l, SoftmaxPlaces(l)
    PROVE  Disjoint(SoftmaxGrid(l), SoftmaxF(l))
<1> DEFINE ids == BlockItems(SoftmaxGrid(l), SoftmaxF(l))
           At1(i) == StepOf(SoftmaxF(l), i)
<1>1. ASSUME NEW i \in ids, NEW j \in ids, i # j, i[1] = j[1] => i[2] = j[2]
      PROVE  Writes(At1(i)) \cap (Writes(At1(j)) \cup Reads(At1(j))) = {}
    <2>1. i = <<i[1], i[2], i[3]>> /\ j = <<j[1], j[2], j[3]>>
        BY SoftmaxItem
    <2>2. ASSUME NEW c \in Writes(At1(i))
          PROVE  c \notin Writes(At1(j)) /\ c \notin Reads(At1(j))
        BY <1>1, <2>1, SoftmaxOnce
    <2> HIDE DEF At1
    <2> QED BY <2>2
<1>2. ASSUME NEW i \in ids, NEW j \in ids, i # j, i[1] = j[1] => i[2] = j[2]
      PROVE  ~Conflict(At1(i), At1(j))
    <2>1. Writes(At1(i)) \cap (Writes(At1(j)) \cup Reads(At1(j))) = {}
        BY <1>1, <1>2
    <2>2. Writes(At1(j)) \cap (Writes(At1(i)) \cup Reads(At1(i))) = {}
        BY <1>1, <1>2
    <2> HIDE DEF At1
    <2> QED BY <2>1, <2>2 DEF Conflict
<1> QED BY <1>2 DEF Disjoint

(* Every phase has a thread at work, and every item is one step.           *)
LEMMA SoftmaxPhased ==
    ASSUME NEW l, SoftmaxPlaces(l)
    PROVE  Phased(SoftmaxGrid(l), 6, SoftmaxF(l))
<1> DEFINE grid == SoftmaxGrid(l)
           F == SoftmaxF(l)
<1>1. \A r \in grid : DOMAIN F[r] = 1..6 /\ \A q \in 1..6 : DOMAIN F[r][q] = SoftmaxNumbers(l, q)
    BY SoftmaxPhaseSteps
<1>2. \A q : 0 \in SoftmaxNumbers(l, q)
    BY DEF SoftmaxPlaces, SoftmaxNumbers, SoftmaxColumns
<1>3. ASSUME NEW r \in grid, NEW q \in 1..(6 - 1) PROVE DOMAIN F[r][q] # {}
    <2>1. q \in 1..6
        OBVIOUS
    <2> QED BY <1>1, <1>2, <2>1
<1>4. ASSUME NEW id \in BlockItems(grid, F)
      PROVE  \E reads, writes : StepOf(F, id) = Then(reads, writes)
    <2>1. StepOf(F, id) = Then(SoftmaxReading(l, id), {SoftmaxCell(l, id)})
        BY SoftmaxItem
    <2> QED BY <2>1
<1> HIDE DEF grid, F
<1>5. Phased(grid, 6, F)
    BY <1>1, <1>3, <1>4 DEF Phased
<1> QED BY <1>5 DEF grid, F
(* The memory of a launch.                                                 *)
LEMMA SoftmaxMemory ==
    ASSUME NEW l
    PROVE  /\ CudaCausalSoftmax(l).work = BlocksOf(SoftmaxGrid(l), l.block, SoftmaxF(l))
           /\ CudaCausalSoftmax(l).inputs = Cells(l.input)
           /\ CudaCausalSoftmax(l).alloc
                = (Cells(l.input) \cup Cells(l.out))
                  \cup (({"max", "sum"} \X SoftmaxGrid(l))
                        \cup ({"pmax", "psum"} \X (SoftmaxGrid(l) \X (0..(l.block - 1)))))
           /\ CudaCausalSoftmax(l).required = CausalSoftmaxFrom(l)
           /\ CudaCausalSoftmax(l).allowed = SoftmaxAllowed(l)
<1> DEFINE F == SoftmaxF(l)
           grid == SoftmaxGrid(l)
           work == Blocks([r \in grid |-> Phases(r, l.block, SoftmaxPhases(l, r))])
           scratch == ({"max", "sum"} \X grid) \cup Partials({"pmax", "psum"}, grid, l.block)
           base == Program({l.input}, {l.out}, scratch, work, CausalSoftmaxFrom(l))
<1>1. CudaCausalSoftmax(l) = [base EXCEPT !.allowed = SoftmaxAllowed(l)]
    BY DEF CudaCausalSoftmax
<1>2. base = [alloc    |-> (UNION {Cells(t) : t \in {l.input} \cup {l.out}}) \cup scratch,
              inputs   |-> UNION {Cells(t) : t \in {l.input}},
              work     |-> work,
              required |-> CausalSoftmaxFrom(l),
              allowed  |-> CausalSoftmaxFrom(l)]
    BY DEF Program
<1>3. work = BlocksOf(grid, l.block, F)
    <2>1. [r \in grid |-> Phases(r, l.block, F[r])]
            = [r \in grid |-> Phases(r, l.block, SoftmaxPhases(l, r))]
        BY DEF SoftmaxF
    <2> QED BY <2>1 DEF BlocksOf
<1>4. /\ UNION {Cells(t) : t \in {l.input} \cup {l.out}} = Cells(l.input) \cup Cells(l.out)
      /\ UNION {Cells(t) : t \in {l.input}} = Cells(l.input)
    OBVIOUS
<1>5. scratch = ({"max", "sum"} \X grid)
                \cup ({"pmax", "psum"} \X (grid \X (0..(l.block - 1))))
    BY DEF Partials
<1> HIDE DEF base, work, scratch
<1>6. /\ CudaCausalSoftmax(l).work = work
      /\ CudaCausalSoftmax(l).inputs = UNION {Cells(t) : t \in {l.input}}
      /\ CudaCausalSoftmax(l).alloc
           = (UNION {Cells(t) : t \in {l.input} \cup {l.out}}) \cup scratch
      /\ CudaCausalSoftmax(l).required = CausalSoftmaxFrom(l)
      /\ CudaCausalSoftmax(l).allowed = SoftmaxAllowed(l)
    BY <1>1, <1>2
<1> QED BY <1>3, <1>4, <1>5, <1>6

(* What an item of causal_softmax reads and writes is memory of its launch.*)
LEMMA SoftmaxInside ==
    ASSUME NEW l, SoftmaxPlaces(l), NEW id \in BlockItems(SoftmaxGrid(l), SoftmaxF(l))
    PROVE  /\ SoftmaxReading(l, id) \subseteq CudaCausalSoftmax(l).alloc
           /\ SoftmaxCell(l, id) \in CudaCausalSoftmax(l).alloc
<1> DEFINE p == CudaCausalSoftmax(l)
           r == id[1]
<1>1. /\ r \in SoftmaxGrid(l) /\ id[2] \in {1, 2, 3, 4, 5, 6}
      /\ id[3] \in SoftmaxNumbers(l, id[2])
    BY SoftmaxItem
<1>2. /\ Cells(l.input) \subseteq p.alloc /\ Cells(l.out) \subseteq p.alloc
      /\ <<"max", r>> \in p.alloc /\ <<"sum", r>> \in p.alloc
      /\ \A t \in 0..(l.block - 1) :
            <<"pmax", <<r, t>>>> \in p.alloc /\ <<"psum", <<r, t>>>> \in p.alloc
    <2> HIDE DEF p
    <2> QED BY <1>1, SoftmaxMemory DEF p
<1>3. TotalSeqLen(l) \in Nat \ {0} /\ ValidLen(l, r[1]) \in 1..TotalSeqLen(l)
    BY <1>1 DEF SoftmaxPlaces
<1>4. \A k \in SoftmaxColumns(l) :
        SoftmaxIn(l, r, k) \in Cells(l.input) /\ SoftmaxOut(l, r, k) \in Cells(l.out)
    BY <1>1 DEF SoftmaxPlaces
<1>5. /\ 0 \in SoftmaxColumns(l)
      /\ \A t : /\ ThreadColumns(t, ValidLen(l, r[1]), l.block) \subseteq SoftmaxColumns(l)
                /\ ThreadColumns(t, TotalSeqLen(l), l.block) \subseteq SoftmaxColumns(l)
    BY <1>3 DEF SoftmaxColumns, ThreadColumns
<1> SUFFICES SoftmaxReading(l, id) \subseteq p.alloc /\ SoftmaxCell(l, id) \in p.alloc
    OBVIOUS
<1> HIDE DEF p
<1>6. CASE id[2] = 1
    BY <1>1, <1>2, <1>4, <1>5, <1>6 DEF SoftmaxReading, SoftmaxCell, SoftmaxNumbers
<1>7. CASE id[2] = 2
    <2>1. SoftmaxReading(l, id) = {<<"pmax", <<r, t>>>> : t \in 0..(l.block - 1)}
        BY <1>7 DEF SoftmaxReading
    <2>2. SoftmaxCell(l, id) = <<"max", r>>
        BY <1>7 DEF SoftmaxCell
    <2> QED BY <1>2, <2>1, <2>2
<1>8. CASE id[2] = 3
    BY <1>1, <1>2, <1>4, <1>8 DEF SoftmaxReading, SoftmaxCell, SoftmaxNumbers
<1>9. CASE id[2] = 4
    <2> DEFINE T == ThreadColumns(id[3], TotalSeqLen(l), l.block)
    <2>1. SoftmaxReading(l, id) = {SoftmaxOut(l, r, c) : c \in T}
        BY <1>9 DEF SoftmaxReading
    <2>2. SoftmaxCell(l, id) = <<"psum", <<r, id[3]>>>> /\ id[3] \in 0..(l.block - 1)
        BY <1>1, <1>9 DEF SoftmaxCell, SoftmaxNumbers
    <2>3. T \subseteq SoftmaxColumns(l)
        BY <1>5
    <2> HIDE DEF T
    <2> QED BY <1>2, <1>4, <2>1, <2>2, <2>3
<1>10. CASE id[2] = 5
    <2>1. SoftmaxReading(l, id) = {<<"psum", <<r, t>>>> : t \in 0..(l.block - 1)}
        BY <1>10 DEF SoftmaxReading
    <2>2. SoftmaxCell(l, id) = <<"sum", r>>
        BY <1>10 DEF SoftmaxCell
    <2> QED BY <1>2, <2>1, <2>2
<1>11. CASE id[2] = 6
    BY <1>1, <1>2, <1>4, <1>11 DEF SoftmaxReading, SoftmaxCell, SoftmaxNumbers
<1> QED BY <1>1, <1>6, <1>7, <1>8, <1>9, <1>10, <1>11

(* No item of causal_softmax leaves the memory of its launch.              *)
LEMMA SoftmaxConfined ==
    ASSUME NEW l, SoftmaxPlaces(l)
    PROVE  Confined(CudaCausalSoftmax(l))
<1> DEFINE p == CudaCausalSoftmax(l)
           F == SoftmaxF(l)
           grid == SoftmaxGrid(l)
<1>1. p.work = BlocksOf(grid, l.block, F)
    BY SoftmaxMemory
<1>2. DOMAIN p.work = BlockItems(grid, F)
    BY <1>1, BlockDomain
<1>3. Phased(grid, 6, F)
    BY SoftmaxPhased
<1>4. ASSUME NEW id \in BlockItems(grid, F)
      PROVE  /\ p.work[id].after \subseteq DOMAIN p.work
             /\ Reads(p.work[id]) \cup Writes(p.work[id]) \subseteq p.alloc
    <2>1. LET item == BlocksOf(grid, l.block, F)[id]
          IN  /\ item.after \subseteq BlockItems(grid, F)
              /\ Writes(item) = Writes(StepOf(F, id))
              /\ Reads(item) = Reads(StepOf(F, id))
        BY <1>3, BlockStep
    <2>2. /\ Writes(StepOf(F, id)) = {SoftmaxCell(l, id)}
          /\ Reads(StepOf(F, id)) \subseteq SoftmaxReading(l, id)
        BY SoftmaxUse
    <2>3. SoftmaxReading(l, id) \subseteq p.alloc /\ SoftmaxCell(l, id) \in p.alloc
        BY SoftmaxInside
    <2> HIDE DEF p
    <2> QED BY <1>1, <1>2, <2>1, <2>2, <2>3
<1> QED BY <1>2, <1>4 DEF Confined
\* The inputs a row's results depend on.
SoftmaxSeenRow(l, r) == {SoftmaxIn(l, r, c) : c \in 0..(ValidLen(l, r[1]) - 1)}

\* What the item writes depends on.
SoftmaxVal(l, id) ==
    IF id[2] = 1
    THEN {SoftmaxIn(l, id[1], c) : c \in ThreadColumns(id[3], ValidLen(l, id[1][1]), l.block)}
         \cup {SoftmaxIn(l, id[1], 0)}
    ELSE IF id[2] = 3
    THEN IF id[3] < ValidLen(l, id[1][1]) THEN SoftmaxSeenRow(l, id[1]) ELSE {}
    ELSE IF id[2] = 4
    THEN IF \E c \in ThreadColumns(id[3], TotalSeqLen(l), l.block) : c < ValidLen(l, id[1][1])
         THEN SoftmaxSeenRow(l, id[1]) ELSE {}
    ELSE SoftmaxSeenRow(l, id[1])

SoftmaxVals(l) == [id \in BlockItems(SoftmaxGrid(l), SoftmaxF(l)) |-> SoftmaxVal(l, id)]

\* What cell c holds for item i.
SoftmaxSeen(l, i, c) ==
    ValueAfter(CudaCausalSoftmax(l), BlockBefore(SoftmaxGrid(l), SoftmaxF(l)),
               BlockValues(SoftmaxGrid(l), SoftmaxF(l), SoftmaxVals(l)),
               BlockBefore(SoftmaxGrid(l), SoftmaxF(l))[i], c)

(* An item reads what the one item of an earlier phase wrote there.        *)
LEMMA SoftmaxSeesPhase ==
    ASSUME NEW l, SoftmaxPlaces(l),
           NEW i \in BlockItems(SoftmaxGrid(l), SoftmaxF(l)),
           NEW r, NEW q \in 1..6, NEW k \in SoftmaxNumbers(l, q),
           r = i[1], q < i[2]
    PROVE  SoftmaxSeen(l, i, SoftmaxCell(l, <<r, q, k>>)) = SoftmaxVal(l, <<r, q, k>>)
<1> DEFINE grid == SoftmaxGrid(l)
           F == SoftmaxF(l)
           p == CudaCausalSoftmax(l)
           val == SoftmaxVals(l)
           j == <<r, q, k>>
           c == SoftmaxCell(l, j)
<1>1. p.work = BlocksOf(grid, l.block, F)
    BY SoftmaxMemory
<1>2. Phased(grid, 6, F)
    BY SoftmaxPhased
<1>3. i[1] \in grid /\ i[2] \in {1, 2, 3, 4, 5, 6}
    BY SoftmaxItem
<1>4. j \in BlockItems(grid, F) /\ j[1] = i[1] /\ j[2] = q /\ j[2] < i[2]
    BY <1>3, SoftmaxItemsExist
<1> HIDE DEF j
<1>5. c \in Writes(StepOf(F, j))
    BY <1>4, SoftmaxUse
<1>6. ASSUME NEW m \in BlockItems(grid, F),
             c \in Writes(StepOf(F, m)), m[1] = i[1], m[2] < i[2]
      PROVE  m = j
    <2>1. j[1] = m[1] /\ j[3] = m[3] /\ (j[2] = m[2] \/ {j[2], m[2]} = {3, 6})
        BY <1>4, <1>5, <1>6, SoftmaxOnce
    <2>2. m[2] # 6 /\ j[2] # 6
        BY <1>3, <1>4, <1>6
    <2>3. m = <<m[1], m[2], m[3]>> /\ j = <<j[1], j[2], j[3]>>
        BY <1>4, SoftmaxItem
    <2> QED BY <2>1, <2>2, <2>3
<1>7. \A m \in BlockItems(grid, F) :
        c \in Writes(StepOf(F, m)) /\ m[1] = i[1] /\ m[2] < i[2] => m = j \/ m[2] < j[2]
    BY <1>6
<1>8. val[j] = SoftmaxVal(l, j)
    BY <1>4 DEF SoftmaxVals
<1>9. i \in BlockItems(grid, F)
    OBVIOUS
<1> HIDE DEF grid, F, p, val, c
<1>10. ValueAfter(p, BlockBefore(grid, F), BlockValues(grid, F, val),
                  BlockBefore(grid, F)[i], c) = val[j]
    BY <1>1, <1>2, <1>4, <1>5, <1>7, <1>9, ReadsPhase
<1> QED BY <1>8, <1>10 DEF SoftmaxSeen, grid, F, p, val, c, j

(* The input is what it was.                                               *)
LEMMA SoftmaxSeesInput ==
    ASSUME NEW l, SoftmaxPlaces(l),
           NEW i \in BlockItems(SoftmaxGrid(l), SoftmaxF(l)),
           NEW k \in SoftmaxColumns(l)
    PROVE  SoftmaxSeen(l, i, SoftmaxIn(l, i[1], k)) = {SoftmaxIn(l, i[1], k)}
<1> DEFINE grid == SoftmaxGrid(l)
           F == SoftmaxF(l)
           p == CudaCausalSoftmax(l)
           val == SoftmaxVals(l)
           c == SoftmaxIn(l, i[1], k)
<1>1. i[1] \in grid
    BY SoftmaxItem
<1>2. p.work = BlocksOf(grid, l.block, F) /\ c \in p.inputs
    BY <1>1, SoftmaxMemory DEF SoftmaxPlaces
<1>3. Phased(grid, 6, F)
    BY SoftmaxPhased
<1>4. c[1] = l.input.buffer
    BY <1>1 DEF SoftmaxPlaces
<1>5. ASSUME NEW m \in BlockItems(grid, F) PROVE c \notin Writes(StepOf(F, m))
    <2>1. Writes(StepOf(F, m)) = {SoftmaxCell(l, m)} /\ SoftmaxWrites(l, m, SoftmaxCell(l, m))
        BY SoftmaxUse, SoftmaxWriter
    <2> HIDE DEF c
    <2> QED BY <1>4, <2>1 DEF SoftmaxWrites, SoftmaxPlaces
<1>6. Unwritten(grid, F, c)
    BY <1>5 DEF Unwritten
<1>7. i \in BlockItems(grid, F)
    OBVIOUS
<1> HIDE DEF grid, F, p, val, c
<1>8. ValueAfter(p, BlockBefore(grid, F), BlockValues(grid, F, val),
                 BlockBefore(grid, F)[i], c) = {c} \cap p.inputs
    BY <1>2, <1>3, <1>6, <1>7, ReadsUnwritten
<1> QED BY <1>2, <1>8 DEF SoftmaxSeen, grid, F, p, val, c

(* Each item of causal_softmax computes its value.                         *)
LEMMA SoftmaxComputesValue ==
    ASSUME NEW l, SoftmaxPlaces(l), NEW i \in BlockItems(SoftmaxGrid(l), SoftmaxF(l))
    PROVE  UNION {SoftmaxSeen(l, i, c) : c \in SoftmaxReading(l, i)} = SoftmaxVal(l, i)
<1> DEFINE r == i[1]
           n == TotalSeqLen(l)
           valid == ValidLen(l, r[1])
           row == SoftmaxSeenRow(l, r)
           threads == 0..(l.block - 1)
           Vals(q) == UNION {SoftmaxVal(l, <<r, q, t>>) : t \in threads}
<1>1. /\ r \in SoftmaxGrid(l) /\ i[2] \in {1, 2, 3, 4, 5, 6}
      /\ i[3] \in SoftmaxNumbers(l, i[2])
    BY SoftmaxItem
<1>2. n \in Nat \ {0} /\ valid \in 1..n /\ l.block \in Nat \ {0}
    BY <1>1 DEF SoftmaxPlaces
<1>3. \A k \in SoftmaxColumns(l) : SoftmaxSeen(l, i, SoftmaxIn(l, r, k)) = {SoftmaxIn(l, r, k)}
    BY SoftmaxSeesInput
<1>4. \A q \in 1..6 : \A k \in SoftmaxNumbers(l, q) : q < i[2] =>
        SoftmaxSeen(l, i, SoftmaxCell(l, <<r, q, k>>)) = SoftmaxVal(l, <<r, q, k>>)
    BY SoftmaxSeesPhase
<1>5. /\ 0 \in SoftmaxColumns(l) /\ 0..(valid - 1) \subseteq SoftmaxColumns(l)
      /\ \A t : /\ ThreadColumns(t, valid, l.block) \subseteq 0..(valid - 1)
                /\ ThreadColumns(t, n, l.block) \subseteq SoftmaxColumns(l)
    BY <1>2 DEF SoftmaxColumns, ThreadColumns
<1>6. \A c \in SoftmaxColumns(l) : c % l.block \in threads
    BY <1>2 DEF SoftmaxColumns
<1> HIDE DEF r, n, valid, threads
<1>7. CASE i[2] = 1
    <2> DEFINE R == {SoftmaxIn(l, r, c) : c \in ThreadColumns(i[3], valid, l.block)}
                     \cup {SoftmaxIn(l, r, 0)}
    <2>1. SoftmaxReading(l, i) = R /\ SoftmaxVal(l, i) = R
        BY <1>7 DEF SoftmaxReading, SoftmaxVal, r, valid
    <2>2. \A c \in R : SoftmaxSeen(l, i, c) = {c}
        BY <1>3, <1>5
    <2> HIDE DEF R
    <2> QED BY <2>1, <2>2
<1>8. CASE i[2] = 2
    <2>1. SoftmaxReading(l, i) = {<<"pmax", <<r, t>>>> : t \in threads}
        BY <1>8 DEF SoftmaxReading, r, threads
    <2>2. ASSUME NEW t \in threads
          PROVE  SoftmaxSeen(l, i, <<"pmax", <<r, t>>>>)
                   = {SoftmaxIn(l, r, c) : c \in ThreadColumns(t, valid, l.block)}
                     \cup {SoftmaxIn(l, r, 0)}
        <3>1. t \in SoftmaxNumbers(l, 1)
            BY DEF SoftmaxNumbers, threads
        <3>2. SoftmaxCell(l, <<r, 1, t>>) = <<"pmax", <<r, t>>>>
            BY DEF SoftmaxCell
        <3>3. SoftmaxVal(l, <<r, 1, t>>)
                = {SoftmaxIn(l, r, c) : c \in ThreadColumns(t, valid, l.block)}
                  \cup {SoftmaxIn(l, r, 0)}
            BY DEF SoftmaxVal, valid
        <3>4. SoftmaxSeen(l, i, SoftmaxCell(l, <<r, 1, t>>)) = SoftmaxVal(l, <<r, 1, t>>)
            BY <1>4, <1>8, <3>1
        <3> QED BY <3>2, <3>3, <3>4
    <2>3. UNION {SoftmaxSeen(l, i, c) : c \in SoftmaxReading(l, i)}
            = UNION {SoftmaxSeen(l, i, <<"pmax", <<r, t>>>>) : t \in threads}
        BY <2>1
    <2>4. UNION {SoftmaxSeen(l, i, <<"pmax", <<r, t>>>>) : t \in threads}
            = UNION {{SoftmaxIn(l, r, c) : c \in ThreadColumns(t, valid, l.block)}
                     \cup {SoftmaxIn(l, r, 0)} : t \in threads}
        BY <2>2
    <2>5. \A c \in 0..(valid - 1) : c \in ThreadColumns(c % l.block, valid, l.block)
                                    /\ c % l.block \in threads
        BY <1>5, <1>6 DEF ThreadColumns
    <2>6. 0 \in 0..(valid - 1) /\ 0 \in threads
        BY <1>2 DEF threads
    <2>7. UNION {{SoftmaxIn(l, r, c) : c \in ThreadColumns(t, valid, l.block)}
                 \cup {SoftmaxIn(l, r, 0)} : t \in threads}
            = {SoftmaxIn(l, r, c) : c \in 0..(valid - 1)}
        BY <1>5, <2>5, <2>6
    <2>8. SoftmaxVal(l, i) = {SoftmaxIn(l, r, c) : c \in 0..(valid - 1)}
        BY <1>8 DEF SoftmaxVal, SoftmaxSeenRow, valid, r
    <2> QED BY <2>3, <2>4, <2>7, <2>8
<1>9. CASE i[2] = 3
    <2>1. SoftmaxSeen(l, i, <<"max", r>>) = row
        <3>1. 0 \in SoftmaxNumbers(l, 2)
            BY DEF SoftmaxNumbers
        <3>2. SoftmaxCell(l, <<r, 2, 0>>) = <<"max", r>>
            BY DEF SoftmaxCell
        <3>3. SoftmaxVal(l, <<r, 2, 0>>) = row
            BY DEF SoftmaxVal
        <3>4. SoftmaxSeen(l, i, SoftmaxCell(l, <<r, 2, 0>>)) = SoftmaxVal(l, <<r, 2, 0>>)
            BY <1>4, <1>9, <3>1
        <3> QED BY <3>2, <3>3, <3>4
    <2>2. i[3] \in SoftmaxColumns(l)
        BY <1>1, <1>9 DEF SoftmaxNumbers
    <2>3. CASE i[3] < valid
        <3>1. SoftmaxReading(l, i) = {SoftmaxIn(l, r, i[3]), <<"max", r>>}
            BY <1>9, <2>3 DEF SoftmaxReading, r, valid
        <3>2. SoftmaxVal(l, i) = row
            BY <1>9, <2>3 DEF SoftmaxVal, r, valid
        <3>3. i[3] \in 0..(valid - 1)
            BY <1>2, <2>2, <2>3 DEF SoftmaxColumns
        <3>4. SoftmaxIn(l, r, i[3]) \in row
            BY <3>3 DEF SoftmaxSeenRow, valid
        <3>5. SoftmaxSeen(l, i, SoftmaxIn(l, r, i[3])) = {SoftmaxIn(l, r, i[3])}
            BY <1>3, <2>2
        <3> HIDE DEF row
        <3> QED BY <2>1, <3>1, <3>2, <3>4, <3>5
    <2>4. CASE ~(i[3] < valid)
        <3>1. SoftmaxReading(l, i) = {} /\ SoftmaxVal(l, i) = {}
            BY <1>9, <2>4 DEF SoftmaxReading, SoftmaxVal, r, valid
        <3> QED BY <3>1
    <2> QED BY <2>3, <2>4
<1>10. CASE i[2] = 4
    <2>1. ASSUME NEW k \in SoftmaxColumns(l)
          PROVE  SoftmaxSeen(l, i, SoftmaxOut(l, r, k)) = IF k < valid THEN row ELSE {}
        <3>1. k \in SoftmaxNumbers(l, 3)
            BY DEF SoftmaxNumbers
        <3>2. SoftmaxCell(l, <<r, 3, k>>) = SoftmaxOut(l, r, k)
            BY DEF SoftmaxCell
        <3>3. SoftmaxVal(l, <<r, 3, k>>) = IF k < valid THEN row ELSE {}
            BY DEF SoftmaxVal, valid
        <3>4. SoftmaxSeen(l, i, SoftmaxCell(l, <<r, 3, k>>)) = SoftmaxVal(l, <<r, 3, k>>)
            BY <1>4, <1>10, <3>1
        <3> QED BY <3>2, <3>3, <3>4
    <2> DEFINE T == ThreadColumns(i[3], n, l.block)
    <2>2. SoftmaxReading(l, i) = {SoftmaxOut(l, r, c) : c \in T}
        BY <1>10 DEF SoftmaxReading, r, n
    <2>3. SoftmaxVal(l, i) = IF \E c \in T : c < valid THEN row ELSE {}
        BY <1>10 DEF SoftmaxVal, r, n, valid
    <2>4. T \subseteq SoftmaxColumns(l)
        BY <1>5
    <2> HIDE DEF T, row
    <2>5. UNION {SoftmaxSeen(l, i, c) : c \in SoftmaxReading(l, i)}
            = UNION {SoftmaxSeen(l, i, SoftmaxOut(l, r, c)) : c \in T}
        BY <2>2
    <2>6. UNION {SoftmaxSeen(l, i, SoftmaxOut(l, r, c)) : c \in T}
            = UNION {IF c < valid THEN row ELSE {} : c \in T}
        BY <2>1, <2>4
    <2> QED BY <2>3, <2>5, <2>6
<1>11. CASE i[2] = 5
    <2>1. SoftmaxReading(l, i) = {<<"psum", <<r, t>>>> : t \in threads}
        BY <1>11 DEF SoftmaxReading, r, threads
    <2>2. ASSUME NEW t \in threads
          PROVE  SoftmaxSeen(l, i, <<"psum", <<r, t>>>>)
                   = IF \E c \in ThreadColumns(t, n, l.block) : c < valid THEN row ELSE {}
        <3>1. t \in SoftmaxNumbers(l, 4)
            BY DEF SoftmaxNumbers, threads
        <3>2. SoftmaxCell(l, <<r, 4, t>>) = <<"psum", <<r, t>>>>
            BY DEF SoftmaxCell
        <3>3. SoftmaxVal(l, <<r, 4, t>>)
                = IF \E c \in ThreadColumns(t, n, l.block) : c < valid THEN row ELSE {}
            BY DEF SoftmaxVal, valid, n
        <3>4. SoftmaxSeen(l, i, SoftmaxCell(l, <<r, 4, t>>)) = SoftmaxVal(l, <<r, 4, t>>)
            BY <1>4, <1>11, <3>1
        <3> QED BY <3>2, <3>3, <3>4
    <2>3. UNION {SoftmaxSeen(l, i, c) : c \in SoftmaxReading(l, i)}
            = UNION {SoftmaxSeen(l, i, <<"psum", <<r, t>>>>) : t \in threads}
        BY <2>1
    <2>4. 0 \in threads /\ 0 \in ThreadColumns(0, n, l.block) /\ 0 < valid
        BY <1>2 DEF ThreadColumns, threads
    <2>5. SoftmaxVal(l, i) = row
        BY <1>11 DEF SoftmaxVal, r
    <2> HIDE DEF row
    <2>6. UNION {SoftmaxSeen(l, i, <<"psum", <<r, t>>>>) : t \in threads} \subseteq row
        BY <2>2
    <2>7. SoftmaxSeen(l, i, <<"psum", <<r, 0>>>>) = row
        BY <2>2, <2>4
    <2> QED BY <2>3, <2>4, <2>5, <2>6, <2>7
<1>12. CASE i[2] = 6
    <2>1. SoftmaxSeen(l, i, <<"sum", r>>) = row
        <3>1. 0 \in SoftmaxNumbers(l, 5)
            BY DEF SoftmaxNumbers
        <3>2. SoftmaxCell(l, <<r, 5, 0>>) = <<"sum", r>>
            BY DEF SoftmaxCell
        <3>3. SoftmaxVal(l, <<r, 5, 0>>) = row
            BY DEF SoftmaxVal
        <3>4. SoftmaxSeen(l, i, SoftmaxCell(l, <<r, 5, 0>>)) = SoftmaxVal(l, <<r, 5, 0>>)
            BY <1>4, <1>12, <3>1
        <3> QED BY <3>2, <3>3, <3>4
    <2>2. SoftmaxSeen(l, i, SoftmaxOut(l, r, i[3])) \subseteq row
        <3>1. i[3] \in SoftmaxNumbers(l, 3)
            BY <1>1, <1>12 DEF SoftmaxNumbers
        <3>2. SoftmaxCell(l, <<r, 3, i[3]>>) = SoftmaxOut(l, r, i[3])
            BY DEF SoftmaxCell
        <3>3. SoftmaxVal(l, <<r, 3, i[3]>>) \subseteq row
            BY DEF SoftmaxVal
        <3>4. SoftmaxSeen(l, i, SoftmaxCell(l, <<r, 3, i[3]>>)) = SoftmaxVal(l, <<r, 3, i[3]>>)
            BY <1>4, <1>12, <3>1
        <3> QED BY <3>2, <3>3, <3>4
    <2>3. SoftmaxReading(l, i) = {SoftmaxOut(l, r, i[3]), <<"sum", r>>}
        BY <1>12 DEF SoftmaxReading, r
    <2>4. SoftmaxVal(l, i) = row
        BY <1>12 DEF SoftmaxVal, r
    <2> HIDE DEF row
    <2> QED BY <2>1, <2>2, <2>3, <2>4
<1> QED BY <1>1, <1>7, <1>8, <1>9, <1>10, <1>11, <1>12
(* Each item of causal_softmax computes its value, and the last phase      *)
(* leaves in each element a value of the columns its row may see.          *)
LEMMA SoftmaxComputes ==
    ASSUME NEW l, SoftmaxPlaces(l), CudaSoftmaxByRows(l)
    PROVE  /\ EachComputes(CudaCausalSoftmax(l), SoftmaxGrid(l), SoftmaxF(l), SoftmaxVals(l))
           /\ EndsRight(CudaCausalSoftmax(l), SoftmaxGrid(l), SoftmaxF(l), SoftmaxVals(l))
<1> DEFINE grid == SoftmaxGrid(l)
           F == SoftmaxF(l)
           p == CudaCausalSoftmax(l)
           val == SoftmaxVals(l)
           ids == BlockItems(grid, F)
           Seen(i, c) == ValueAfter(p, BlockBefore(grid, F), BlockValues(grid, F, val),
                                    BlockBefore(grid, F)[i], c)
           End(c) == ValueAfter(p, BlockBefore(grid, F), BlockValues(grid, F, val),
                                DOMAIN p.work, c)
<1>1. ASSUME NEW id \in ids, NEW c \in Writes(StepOf(F, id))
      PROVE  UNION {Seen(id, r) : r \in StepOf(F, id).flow[c] \cap p.alloc} = val[id]
    <2>1. StepOf(F, id).flow[c] = SoftmaxReading(l, id)
        BY SoftmaxUse
    <2>2. SoftmaxReading(l, id) \cap p.alloc = SoftmaxReading(l, id)
        <3>1. SoftmaxReading(l, id) \subseteq p.alloc
            BY SoftmaxInside
        <3> HIDE DEF p
        <3> QED BY <3>1
    <2>3. UNION {SoftmaxSeen(l, id, r) : r \in SoftmaxReading(l, id)} = SoftmaxVal(l, id)
        BY SoftmaxComputesValue
    <2>4. val[id] = SoftmaxVal(l, id)
        BY DEF SoftmaxVals
    <2>5. \A r : Seen(id, r) = SoftmaxSeen(l, id, r)
        BY DEF SoftmaxSeen
    <2> HIDE DEF p, val, Seen, F, grid
    <2> QED BY <2>1, <2>2, <2>3, <2>4, <2>5
<1>2. ASSUME NEW c \in DOMAIN p.required
      PROVE  c \in p.alloc /\ p.required[c] \subseteq End(c) /\ End(c) \subseteq p.allowed[c]
    <2>1. /\ p.required = CausalSoftmaxFrom(l) /\ p.allowed = SoftmaxAllowed(l)
          /\ Cells(l.out) \subseteq p.alloc
        <3> HIDE DEF p
        <3> QED BY SoftmaxMemory DEF p
    <2>2. PICK r \in grid, k \in SoftmaxColumns(l) : c = SoftmaxOut(l, r, k)
        <3>1. DOMAIN CausalSoftmaxFrom(l)
                = UNION {{SoftmaxRows(l, l.out)[r][k] : k \in SoftmaxColumns(l)} : r \in grid}
            BY DEF CudaSoftmaxByRows, SoftmaxColumns
        <3>2. \A r \in grid : SoftmaxRows(l, l.out)[r] = SoftmaxRow(l, l.out, r)
            BY DEF SoftmaxRows
        <3> HIDE DEF p, grid
        <3> QED BY <2>1, <3>1, <3>2 DEF SoftmaxOut
    <2> DEFINE j == <<r, 6, k>>
    <2>3. j \in ids /\ j[1] = r /\ j[2] = 6 /\ j[3] = k
        <3>1. k \in SoftmaxNumbers(l, 6) /\ 6 \in 1..6
            BY DEF SoftmaxNumbers
        <3> QED BY <3>1, SoftmaxItemsExist
    <2> HIDE DEF j
    <2>4. c \in Writes(StepOf(F, j))
        <3>1. SoftmaxCell(l, j) = c
            BY <2>2, <2>3 DEF SoftmaxCell
        <3> QED BY <2>3, <3>1, SoftmaxUse
    <2>5. ASSUME NEW m \in ids, c \in Writes(StepOf(F, m))
          PROVE  m = j \/ (m[1] = j[1] /\ m[2] < j[2])
        <3>1. j[1] = m[1] /\ j[3] = m[3] /\ (j[2] = m[2] \/ {j[2], m[2]} = {3, 6})
            BY <2>3, <2>4, <2>5, SoftmaxOnce
        <3>2. m = <<m[1], m[2], m[3]>> /\ j = <<j[1], j[2], j[3]>>
            BY <2>3, SoftmaxItem
        <3>3. CASE j[2] = m[2]
            BY <3>1, <3>2, <3>3
        <3>4. CASE {j[2], m[2]} = {3, 6}
            <4>1. m[2] = 3
                BY <2>3, <3>4
            <4> QED BY <2>3, <3>1, <4>1
        <3> QED BY <3>1, <3>3, <3>4
    <2>6. p.work = BlocksOf(grid, l.block, F)
        BY SoftmaxMemory
    <2>7. Phased(grid, 6, F)
        BY SoftmaxPhased
    <2>8. val[j] = SoftmaxSeenRow(l, r)
        BY <2>3 DEF SoftmaxVals, SoftmaxVal
    <2>9. /\ CausalSoftmaxFrom(l)[c] \subseteq SoftmaxSeenRow(l, r)
          /\ SoftmaxAllowed(l)[c] = SoftmaxSeenRow(l, r)
        <3>1. SoftmaxRows(l, l.out)[r][k] = SoftmaxOut(l, r, k)
            BY DEF SoftmaxRows, SoftmaxOut
        <3>2. {SoftmaxRows(l, l.input)[r][x] : x \in 0..(ValidLen(l, r[1]) - 1)}
                = SoftmaxSeenRow(l, r)
            BY DEF SoftmaxSeenRow, SoftmaxRows, SoftmaxIn
        <3> DEFINE o == SoftmaxRows(l, l.out)[r][k]
                   s == {SoftmaxRows(l, l.input)[r][x] : x \in 0..(ValidLen(l, r[1]) - 1)}
        <3>3. /\ CausalSoftmaxFrom(l)[o] = IF k < ValidLen(l, r[1]) THEN s ELSE {}
              /\ SoftmaxAllowed(l)[o] = s
            BY DEF CudaSoftmaxByRows, SoftmaxColumns
        <3> HIDE DEF s
        <3>4. o = c /\ s = SoftmaxSeenRow(l, r)
            BY <2>2, <3>1, <3>2 DEF s
        <3> HIDE DEF o
        <3> QED BY <3>3, <3>4
    <2>10. c \in p.alloc
        BY <2>1, <2>2 DEF SoftmaxPlaces
    <2>11. WrittenLast(grid, F, j, c)
        BY <2>5 DEF WrittenLast
    <2> HIDE DEF p, val, F, grid
    <2>12. End(c) = val[j]
        BY <2>3, <2>4, <2>6, <2>7, <2>11, EndsWithPhase
    <2> HIDE DEF End
    <2> QED BY <2>1, <2>8, <2>9, <2>10, <2>12
<1> HIDE DEF p, F, grid, val
<1>3. EachComputes(p, grid, F, val)
    BY <1>1 DEF EachComputes
<1>4. EndsRight(p, grid, F, val)
    BY <1>2 DEF EndsRight
<1> QED BY <1>3, <1>4 DEF p, F, grid, val

-------------------------------------------------------------------------------
(* add and swiglu: one thread for each element, the last block partly idle.*)

(* The blocks have a thread for each of n elements.                        *)
LEMMA ThreadsCover ==
    ASSUME NEW n \in Nat \ {0}, NEW dim \in Nat \ {0}, NEW i \in 0..(n - 1)
    PROVE  /\ CeilDiv(n, dim) \in Nat
           /\ i \div dim \in 0..(CeilDiv(n, dim) - 1) /\ i % dim \in 0..(dim - 1)
           /\ (i \div dim) * dim + (i % dim) = i
<1> DEFINE g == CeilDiv(n, dim)
           b == i \div dim
<1>1. n + dim - 1 \in Nat /\ i \in Nat
    OBVIOUS
<1>2. g \in Nat /\ n + dim - 1 < dim * g + dim
    BY <1>1, Quotient DEF CeilDiv
<1>3. b \in Nat /\ dim * b <= i /\ i < dim * b + dim
    BY <1>1, Quotient
<1>4. dim * g \in Nat /\ dim * b \in Nat
    BY <1>2, <1>3
<1>5. dim * b < dim * g
    BY <1>2, <1>3, <1>4
<1>6. b < g
    BY <1>2, <1>3, <1>5, LessFactor
<1>7. i % dim \in 0..(dim - 1) /\ b * dim + (i % dim) = i
    BY <1>1
<1> QED BY <1>2, <1>3, <1>6, <1>7

(* No two threads have the same number, and none is outside the grid.      *)
LEMMA ThreadsDiffer ==
    ASSUME NEW g \in Nat, NEW dim \in Nat \ {0},
           NEW b \in 0..(g - 1), NEW t \in 0..(dim - 1),
           NEW c \in 0..(g - 1), NEW u \in 0..(dim - 1)
    PROVE  /\ b * dim + t \in Nat /\ b * dim + t < g * dim
           /\ b * dim + t = c * dim + u => b = c /\ t = u
<1>1. /\ b \in Nat /\ c \in Nat /\ t \in Nat /\ u \in Nat /\ t < dim /\ u < dim
      /\ b < g /\ c < g
    OBVIOUS
<1>2. b * dim \in Nat /\ c * dim \in Nat /\ g * dim \in Nat
    BY <1>1
<1>3. /\ b * dim = dim * b /\ c * dim = dim * c /\ g * dim = dim * g
    BY <1>1
<1>4. dim * b + dim <= dim * g
    BY <1>1, LessTimes
<1>5. b < c => dim * b + dim <= dim * c
    BY <1>1, LessTimes
<1>6. c < b => dim * c + dim <= dim * b
    BY <1>1, LessTimes
<1>7. b < c \/ c < b \/ b = c
    BY <1>1
<1> QED BY <1>1, <1>2, <1>3, <1>4, <1>5, <1>6, <1>7

\* The threads of a launch, each with its block.
Threads(l) ==
    (0..(GridDim(Numel(l.out), l.block) - 1)) \X (0..(BlockDim(Numel(l.out), l.block) - 1))

\* The element thread bt takes.
Taken(l, bt) == bt[1] * BlockDim(Numel(l.out), l.block) + bt[2]

\* No two threads write one element.
ThreadsApart(l) ==
    LET n   == Numel(l.out)
        dim == BlockDim(n, l.block)
        Out(i) == CudaElement(l, l.out, 2, i)
    IN  /\ l.op \in {"add", "swiglu"}
        /\ n \in Nat \ {0} /\ l.block \in Nat \ {0}
        /\ GridDim(n, l.block) * dim <= UIntRange
        /\ l.out.buffer \notin {l.input.buffer, l.other.buffer}
        /\ \A i, j \in 0..(n - 1) : Out(i) = Out(j) => i = j

\* And the reference is that of elements.
CudaElementwiseByElements(l) ==
    LET n == Numel(l.out)
        Operands(i) == {CudaElement(l, l.input, 0, i), CudaElement(l, l.other, 1, i)}
        Out(i) == CudaElement(l, l.out, 2, i)
        from   == ElementwiseFrom({l.input, l.other}, l.out)
    IN  /\ DOMAIN from = {Out(i) : i \in 0..(n - 1)}
        /\ \A i \in 0..(n - 1) :
              /\ Operands(i) \subseteq Cells(l.input) \cup Cells(l.other)
              /\ Out(i) \in Cells(l.out)
              /\ from[Out(i)] = Operands(i)

(* Each element is taken by one thread.                                    *)
LEMMA ElementsTaken ==
    ASSUME NEW l, ThreadsApart(l)
    PROVE  /\ \A bt \in Threads(l) :
                 /\ Taken(l, bt) \in Nat
                 /\ ThreadIndex(bt[1], bt[2], BlockDim(Numel(l.out), l.block)) = Taken(l, bt)
           /\ \A bt, cu \in Threads(l) : Taken(l, bt) = Taken(l, cu) => bt = cu
           /\ \A i \in 0..(Numel(l.out) - 1) : \E bt \in Threads(l) : Taken(l, bt) = i
<1> DEFINE n == Numel(l.out)
           dim == BlockDim(n, l.block)
           g == GridDim(n, l.block)
<1>1. /\ n \in Nat \ {0} /\ dim \in Nat \ {0} /\ g = CeilDiv(n, dim)
      /\ g * dim <= UIntRange
    BY DEF ThreadsApart, BlockDim, GridDim
<1>2. Threads(l) = (0..(g - 1)) \X (0..(dim - 1))
    BY DEF Threads
<1>3. \A bt : Taken(l, bt) = bt[1] * dim + bt[2]
    BY DEF Taken
<1> HIDE DEF n, dim, g
<1>4. g \in Nat
    <2>1. 0 \in 0..(n - 1)
        BY <1>1
    <2> QED BY <1>1, <2>1, ThreadsCover
<1>5. UIntRange \in Nat \ {0}
    BY UIntRangeAssumption
<1>6. ASSUME NEW bt \in Threads(l)
      PROVE  Taken(l, bt) \in Nat /\ ThreadIndex(bt[1], bt[2], dim) = Taken(l, bt)
    <2>1. bt[1] \in 0..(g - 1) /\ bt[2] \in 0..(dim - 1)
        BY <1>2
    <2>2. Taken(l, bt) \in Nat /\ Taken(l, bt) < g * dim
        BY <1>1, <1>3, <1>4, <2>1, ThreadsDiffer
    <2>3. g * dim \in Nat
        BY <1>1, <1>4
    <2>4. Taken(l, bt) < UIntRange
        BY <1>1, <1>5, <2>2, <2>3
    <2>5. Taken(l, bt) % UIntRange = Taken(l, bt)
        BY <1>5, <2>2, <2>4
    <2> QED BY <1>3, <2>2, <2>5 DEF ThreadIndex
<1>7. ASSUME NEW bt \in Threads(l), NEW cu \in Threads(l), Taken(l, bt) = Taken(l, cu)
      PROVE  bt = cu
    <2>1. /\ bt[1] \in 0..(g - 1) /\ bt[2] \in 0..(dim - 1)
          /\ cu[1] \in 0..(g - 1) /\ cu[2] \in 0..(dim - 1)
          /\ bt = <<bt[1], bt[2]>> /\ cu = <<cu[1], cu[2]>>
        BY <1>2
    <2>2. bt[1] = cu[1] /\ bt[2] = cu[2]
        BY <1>1, <1>3, <1>4, <1>7, <2>1, ThreadsDiffer
    <2> QED BY <2>1, <2>2
<1>8. ASSUME NEW i \in 0..(n - 1)
      PROVE  \E bt \in Threads(l) : Taken(l, bt) = i
    <2> DEFINE bt == <<i \div dim, i % dim>>
    <2>1. /\ i \div dim \in 0..(g - 1) /\ i % dim \in 0..(dim - 1)
          /\ (i \div dim) * dim + (i % dim) = i
        BY <1>1, ThreadsCover
    <2>2. bt \in Threads(l)
        BY <1>2, <2>1
    <2>3. Taken(l, bt) = i
        BY <1>3, <2>1
    <2> QED BY <2>2, <2>3
<1> QED BY <1>6, <1>7, <1>8 DEF n, dim

\* The operands and the result of element i.
Operands(l, i) == {CudaElement(l, l.input, 0, i), CudaElement(l, l.other, 1, i)}
OutElement(l, i) == CudaElement(l, l.out, 2, i)

\* What a thread reads and the cell it writes, if it has an element.
ThreadReads(l, bt) == IF Taken(l, bt) < Numel(l.out) THEN Operands(l, Taken(l, bt)) ELSE {}
ThreadWrites(l, bt) ==
    IF Taken(l, bt) < Numel(l.out) THEN {OutElement(l, Taken(l, bt))} ELSE {}

(* A thread computes its element from its operands, in the memory of the   *)
(* launch, and waits for nobody.                                           *)
LEMMA ElementwiseThreads ==
    ASSUME NEW l, ThreadsApart(l), CudaElementwiseByElements(l)
    PROVE  /\ DOMAIN CudaElementwise(l).work = Threads(l)
           /\ \A bt \in Threads(l) :
                 LET item == CudaElementwise(l).work[bt]
                 IN  /\ Writes(item) = ThreadWrites(l, bt)
                     /\ Reads(item) \subseteq ThreadReads(l, bt)
                     /\ \A c \in ThreadWrites(l, bt) : item.flow[c] = ThreadReads(l, bt)
                     /\ item.yields = {{}} /\ item.after = {}
                     /\ ThreadReads(l, bt) \subseteq CudaElementwise(l).inputs
                     /\ ThreadReads(l, bt) \cup ThreadWrites(l, bt)
                          \subseteq CudaElementwise(l).alloc
                     /\ \A c \in ThreadReads(l, bt) : c[1] \in {l.input.buffer, l.other.buffer}
                     /\ \A c \in ThreadWrites(l, bt) : c[1] = l.out.buffer
           /\ CudaElementwise(l).required = ElementwiseFrom({l.input, l.other}, l.out)
           /\ CudaElementwise(l).allowed = ElementwiseFrom({l.input, l.other}, l.out)
           /\ Cells(l.out) \subseteq CudaElementwise(l).alloc
<1> DEFINE p == CudaElementwise(l)
           n == Numel(l.out)
           dim == BlockDim(n, l.block)
           Index(bt) == ThreadIndex(bt[1], bt[2], dim)
           Thread(bt) == IF Index(bt) < n
                         THEN Step({CudaElement(l, l.input, 0, Index(bt)),
                                    CudaElement(l, l.other, 1, Index(bt))},
                                   {CudaElement(l, l.out, 2, Index(bt))}, {})
                         ELSE Step({}, {}, {})
           work == [bt \in Threads(l) |-> Thread(bt)]
           from == ElementwiseFrom({l.input, l.other}, l.out)
<1>1. p = Program({l.input, l.other}, {l.out}, {}, work, from)
    BY DEF CudaElementwise, ElementwiseProgram, Threads
<1>2. p = [alloc    |-> (UNION {Cells(t) : t \in {l.input, l.other} \cup {l.out}}) \cup {},
           inputs   |-> UNION {Cells(t) : t \in {l.input, l.other}},
           work     |-> work, required |-> from, allowed |-> from]
    BY <1>1 DEF Program
<1> HIDE DEF work, from, p
<1>3. /\ p.work = work /\ p.required = from /\ p.allowed = from
      /\ p.inputs = Cells(l.input) \cup Cells(l.other)
      /\ p.alloc = Cells(l.input) \cup Cells(l.other) \cup Cells(l.out)
    <2>1. /\ UNION {Cells(t) : t \in {l.input, l.other}} = Cells(l.input) \cup Cells(l.other)
          /\ (UNION {Cells(t) : t \in {l.input, l.other} \cup {l.out}}) \cup {}
               = Cells(l.input) \cup Cells(l.other) \cup Cells(l.out)
        OBVIOUS
    <2> QED BY <1>2, <2>1
<1>4. ASSUME NEW bt \in Threads(l)
      PROVE  /\ work[bt] = Then(ThreadReads(l, bt), ThreadWrites(l, bt))
             /\ ThreadReads(l, bt) \subseteq p.inputs
             /\ ThreadWrites(l, bt) \subseteq Cells(l.out)
             /\ \A c \in ThreadReads(l, bt) : c[1] \in {l.input.buffer, l.other.buffer}
             /\ \A c \in ThreadWrites(l, bt) : c[1] = l.out.buffer
    <2>1. Index(bt) = Taken(l, bt) /\ Taken(l, bt) \in Nat
        BY ElementsTaken
    <2>2. work[bt] = Thread(bt)
        BY DEF work
    <2>3. CASE Taken(l, bt) < n
        <3>1. ThreadReads(l, bt) = Operands(l, Taken(l, bt))
              /\ ThreadWrites(l, bt) = {OutElement(l, Taken(l, bt))}
            BY <2>3 DEF ThreadReads, ThreadWrites
        <3>2. work[bt] = Then(Operands(l, Taken(l, bt)), {OutElement(l, Taken(l, bt))})
            BY <2>1, <2>2, <2>3 DEF Operands, OutElement, Then
        <3>3. Taken(l, bt) \in 0..(n - 1)
            BY <2>1, <2>3 DEF ThreadsApart
        <3>4. /\ Operands(l, Taken(l, bt)) \subseteq Cells(l.input) \cup Cells(l.other)
              /\ OutElement(l, Taken(l, bt)) \in Cells(l.out)
            BY <3>3 DEF CudaElementwiseByElements, Operands, OutElement
        <3>5. /\ \A c \in Operands(l, Taken(l, bt)) : c[1] \in {l.input.buffer, l.other.buffer}
              /\ OutElement(l, Taken(l, bt))[1] = l.out.buffer
            BY DEF Operands, OutElement, CudaElement, At
        <3> QED BY <1>3, <3>1, <3>2, <3>4, <3>5
    <2>4. CASE ~(Taken(l, bt) < n)
        <3>1. ThreadReads(l, bt) = {} /\ ThreadWrites(l, bt) = {}
            BY <2>4 DEF ThreadReads, ThreadWrites
        <3>2. work[bt] = Then({}, {})
            BY <2>1, <2>2, <2>4 DEF Then
        <3> QED BY <3>1, <3>2
    <2> QED BY <2>3, <2>4
<1>5. DOMAIN work = Threads(l)
    BY DEF work
<1>6. ASSUME NEW bt \in Threads(l)
      PROVE  LET item == Then(ThreadReads(l, bt), ThreadWrites(l, bt))
             IN  /\ Writes(item) = ThreadWrites(l, bt)
                 /\ Reads(item) \subseteq ThreadReads(l, bt)
                 /\ \A c \in ThreadWrites(l, bt) : item.flow[c] = ThreadReads(l, bt)
                 /\ item.yields = {{}} /\ item.after = {}
    <2>1. Then(ThreadReads(l, bt), ThreadWrites(l, bt)).after = {}
        BY DEF Then, Step, Item
    <2> QED BY <2>1, StepTouches
<1>7. ASSUME NEW bt \in Threads(l)
      PROVE  LET item == p.work[bt]
             IN  /\ Writes(item) = ThreadWrites(l, bt)
                 /\ Reads(item) \subseteq ThreadReads(l, bt)
                 /\ \A c \in ThreadWrites(l, bt) : item.flow[c] = ThreadReads(l, bt)
                 /\ item.yields = {{}} /\ item.after = {}
                 /\ ThreadReads(l, bt) \subseteq p.inputs
                 /\ ThreadReads(l, bt) \cup ThreadWrites(l, bt) \subseteq p.alloc
                 /\ \A c \in ThreadReads(l, bt) : c[1] \in {l.input.buffer, l.other.buffer}
                 /\ \A c \in ThreadWrites(l, bt) : c[1] = l.out.buffer
    BY <1>3, <1>4, <1>6
<1> QED BY <1>3, <1>5, <1>7 DEF p, from

\* Nothing orders the threads.
Unordered(l) == [bt \in Threads(l) |-> {}]

\* Each element comes from its operands.
ElementValues(l) == [bt \in Threads(l) |-> [c \in ThreadWrites(l, bt) |-> ThreadReads(l, bt)]]

(* The threads share no cell that is written, stay in the memory of the    *)
(* launch and compute each element from its operands.                      *)
LEMMA ElementwiseRuns ==
    ASSUME NEW l, ThreadsApart(l), CudaElementwiseByElements(l)
    PROVE  /\ Confined(CudaElementwise(l))
           /\ OrderedBy(CudaElementwise(l), Unordered(l))
           /\ Computes(CudaElementwise(l), Unordered(l), ElementValues(l), ElementValues(l))
<1> DEFINE p == CudaElementwise(l)
           n == Numel(l.out)
           V == ElementValues(l)
           before == Unordered(l)
<1>1. /\ DOMAIN p.work = Threads(l)
      /\ \A bt \in Threads(l) :
            LET item == p.work[bt]
            IN  /\ Writes(item) = ThreadWrites(l, bt)
                /\ Reads(item) \subseteq ThreadReads(l, bt)
                /\ \A c \in ThreadWrites(l, bt) : item.flow[c] = ThreadReads(l, bt)
                /\ item.yields = {{}} /\ item.after = {}
                /\ ThreadReads(l, bt) \subseteq p.inputs
                /\ ThreadReads(l, bt) \cup ThreadWrites(l, bt) \subseteq p.alloc
                /\ \A c \in ThreadReads(l, bt) : c[1] \in {l.input.buffer, l.other.buffer}
                /\ \A c \in ThreadWrites(l, bt) : c[1] = l.out.buffer
      /\ p.required = ElementwiseFrom({l.input, l.other}, l.out)
      /\ p.allowed = ElementwiseFrom({l.input, l.other}, l.out)
      /\ Cells(l.out) \subseteq p.alloc
    BY ElementwiseThreads
<1>2. \A bt \in Threads(l) : before[bt] = {}
    BY DEF Unordered
<1>3. /\ n \in Nat \ {0} /\ l.out.buffer \notin {l.input.buffer, l.other.buffer}
      /\ \A i, j \in 0..(n - 1) : OutElement(l, i) = OutElement(l, j) => i = j
    BY DEF ThreadsApart, OutElement
<1>4. /\ \A bt \in Threads(l) : Taken(l, bt) \in Nat
      /\ \A bt, cu \in Threads(l) : Taken(l, bt) = Taken(l, cu) => bt = cu
      /\ \A i \in 0..(n - 1) : \E bt \in Threads(l) : Taken(l, bt) = i
    BY ElementsTaken
<1> HIDE DEF p, n, V, before
<1>5. ASSUME NEW bt \in Threads(l), NEW cu \in Threads(l), bt # cu
      PROVE  ThreadWrites(l, bt) \cap (ThreadReads(l, cu) \cup ThreadWrites(l, cu)) = {}
    <2> SUFFICES ASSUME NEW c \in ThreadWrites(l, bt),
                        c \in ThreadReads(l, cu) \cup ThreadWrites(l, cu)
                 PROVE  FALSE
        OBVIOUS
    <2>1. c[1] = l.out.buffer
        BY <1>1
    <2>2. c \notin ThreadReads(l, cu)
        BY <1>1, <1>3, <2>1
    <2>3. /\ Taken(l, bt) < n /\ c = OutElement(l, Taken(l, bt))
          /\ Taken(l, cu) < n /\ c = OutElement(l, Taken(l, cu))
        BY <2>2 DEF ThreadWrites, n
    <2>4. Taken(l, bt) \in 0..(n - 1) /\ Taken(l, cu) \in 0..(n - 1)
        BY <1>3, <1>4, <2>3
    <2> QED BY <1>3, <1>4, <1>5, <2>3, <2>4
<1>6. Confined(p)
    BY <1>1 DEF Confined
<1>7. OrderedBy(p, before)
    <2>1. ASSUME NEW i \in Threads(l), NEW j \in Threads(l), i # j
          PROVE  ~Conflict(p.work[i], p.work[j])
        <3>1. /\ ThreadWrites(l, i) \cap (ThreadReads(l, j) \cup ThreadWrites(l, j)) = {}
              /\ ThreadWrites(l, j) \cap (ThreadReads(l, i) \cup ThreadWrites(l, i)) = {}
            BY <1>5, <2>1
        <3>2. /\ Writes(p.work[i]) = ThreadWrites(l, i) /\ Writes(p.work[j]) = ThreadWrites(l, j)
              /\ Reads(p.work[i]) \subseteq ThreadReads(l, i)
              /\ Reads(p.work[j]) \subseteq ThreadReads(l, j)
            BY <1>1
        <3> QED BY <3>1, <3>2 DEF Conflict
    <2> QED BY <1>1, <1>2, <2>1 DEF OrderedBy
<1>8. \A bt \in Threads(l) : \A c \in ThreadWrites(l, bt) : V[bt][c] = ThreadReads(l, bt)
    BY DEF V, ElementValues
<1>9. ASSUME NEW i \in DOMAIN p.work, NEW c \in Writes(p.work[i])
      PROVE  LET From == UNION {ValueAfter(p, before, V, before[i], r) :
                                   r \in p.work[i].flow[c] \cap p.alloc}
             IN  /\ V[i][c] \subseteq From
                 /\ From \cup UNION p.work[i].yields \subseteq V[i][c]
    <2> DEFINE Seen(r) == ValueAfter(p, before, V, before[i], r)
               R == ThreadReads(l, i)
    <2>1. i \in Threads(l) /\ c \in ThreadWrites(l, i)
        BY <1>1
    <2>2. /\ p.work[i].flow[c] = R /\ R \subseteq p.inputs /\ R \subseteq p.alloc
          /\ p.work[i].yields = {{}}
        BY <1>1, <2>1
    <2>3. ASSUME NEW r \in R PROVE Seen(r) = {r}
        <3>1. before[i] = {}
            BY <1>2, <2>1
        <3>2. \A m \in before[i] : r \notin Writes(p.work[m])
            BY <3>1
        <3>3. Seen(r) = {r} \cap p.inputs
            BY <3>2, NoWrite
        <3> QED BY <2>2, <3>3
    <2>4. V[i][c] = R
        BY <1>8, <2>1
    <2> HIDE DEF Seen, R
    <2>5. UNION {Seen(r) : r \in p.work[i].flow[c] \cap p.alloc} = R
        BY <2>2, <2>3
    <2>6. R \cup UNION p.work[i].yields \subseteq R
        BY <2>2
    <2> QED BY <2>4, <2>5, <2>6 DEF Seen
<1>10. ASSUME NEW c \in DOMAIN p.required
       PROVE  /\ c \in p.alloc
              /\ p.required[c] \subseteq ValueAfter(p, before, V, DOMAIN p.work, c)
              /\ ValueAfter(p, before, V, DOMAIN p.work, c) \subseteq p.allowed[c]
    <2> DEFINE from == ElementwiseFrom({l.input, l.other}, l.out)
    <2>1. /\ DOMAIN from = {OutElement(l, i) : i \in 0..(n - 1)}
          /\ \A i \in 0..(n - 1) : /\ OutElement(l, i) \in Cells(l.out)
                                   /\ from[OutElement(l, i)] = Operands(l, i)
        BY DEF CudaElementwiseByElements, OutElement, Operands, n
    <2>2. c \in DOMAIN from /\ p.required = from /\ p.allowed = from
        BY <1>1
    <2> HIDE DEF from
    <2>3. PICK i \in 0..(n - 1) : c = OutElement(l, i)
        BY <2>1, <2>2
    <2>4. PICK bt \in Threads(l) : Taken(l, bt) = i
        BY <1>4
    <2>5. i < n
        BY <1>3
    <2>6. ThreadReads(l, bt) = Operands(l, i) /\ ThreadWrites(l, bt) = {c}
        BY <2>3, <2>4, <2>5 DEF ThreadReads, ThreadWrites, n
    <2>7. LastIn(p, before, DOMAIN p.work, c, bt)
        <3>1. bt \in DOMAIN p.work /\ c \in Writes(p.work[bt])
            BY <1>1, <2>6
        <3>2. ASSUME NEW m \in DOMAIN p.work, c \in Writes(p.work[m]) PROVE m = bt
            <4>1. m \in Threads(l) /\ c \in ThreadWrites(l, m)
                BY <1>1, <3>2
            <4> QED BY <1>5, <2>6, <4>1
        <3> QED BY <3>1, <3>2 DEF LastIn
    <2>8. ValueAfter(p, before, V, DOMAIN p.work, c) = V[bt][c]
        BY <2>7, LastWrite
    <2>9. V[bt][c] = Operands(l, i)
        BY <1>8, <2>6
    <2>10. p.required[c] = Operands(l, i) /\ p.allowed[c] = Operands(l, i) /\ c \in p.alloc
        BY <1>1, <2>1, <2>2, <2>3
    <2> QED BY <2>8, <2>9, <2>10
<1>11. Computes(p, before, V, V)
    BY <1>9, <1>10 DEF Computes
<1> QED BY <1>6, <1>7, <1>11 DEF p, V, before

-------------------------------------------------------------------------------
(***************************************************************************)
(* What the launchers pass is laid out as the proofs above ask for.        *)
(***************************************************************************)
\* The operands of the CUDA elementwise kernels.
CudaOperands(l) ==
    SameShapes({l.input, l.other}, l.out) /\ DistinctElements(l.out)

(* A sequence appended to another, and taken from it again.                *)
LEMMA Appended ==
    ASSUME NEW S, NEW p \in Seq(S), NEW q \in Seq(S)
    PROVE  /\ p \o q \in Seq(S)
           /\ Len(p \o q) = Len(p) + Len(q)
           /\ \A i \in 1..Len(p) : (p \o q)[i] = p[i]
           /\ \A i \in 1..Len(q) : (p \o q)[Len(p) + i] = q[i]
<1>1. Len(p) \in Nat /\ Len(q) \in Nat
    BY LenProperties
<1>2. /\ p \o q \in Seq(S) /\ Len(p \o q) = Len(p) + Len(q)
      /\ \A i \in 1..(Len(p) + Len(q)) :
            (p \o q)[i] = IF i <= Len(p) THEN p[i] ELSE q[i - Len(p)]
    BY ConcatProperties
<1>3. ASSUME NEW i \in 1..Len(p) PROVE (p \o q)[i] = p[i]
    <2>1. i \in 1..(Len(p) + Len(q)) /\ i <= Len(p)
        BY <1>1
    <2> QED BY <1>2, <2>1
<1>4. ASSUME NEW i \in 1..Len(q) PROVE (p \o q)[Len(p) + i] = q[i]
    <2>1. /\ Len(p) + i \in 1..(Len(p) + Len(q)) /\ ~(Len(p) + i <= Len(p))
          /\ Len(p) + i - Len(p) = i
        BY <1>1
    <2> QED BY <1>2, <2>1
<1> QED BY <1>2, <1>3, <1>4

(* SubSeq takes out of a sequence the part that lies at its place.         *)
LEMMA TakenOut ==
    ASSUME NEW S, NEW p \in Seq(S), NEW s \in Seq(S), NEW m \in Nat,
           m + Len(s) <= Len(p), \A i \in 1..Len(s) : p[m + i] = s[i]
    PROVE  SubSeq(p, m + 1, m + Len(s)) = s
<1> DEFINE n == Len(s)
           u == SubSeq(p, m + 1, m + n)
<1>1. n \in Nat /\ Len(p) \in Nat
    BY LenProperties
<1>2. \A i \in (m + 1)..(m + n) : p[i] \in S
    <2> TAKE i \in (m + 1)..(m + n)
    <2>1. i \in 1..Len(p)
        BY <1>1
    <2> QED BY <2>1, ElementOfSeq
<1>3. m + 1 \in Int /\ m + n \in Int /\ (m + n) - (m + 1) + 1 = n
      /\ (m + 1 <= m + n <=> n # 0)
    BY <1>1
<1>4. /\ u \in Seq(S)
      /\ Len(u) = IF m + 1 <= m + n THEN (m + n) - (m + 1) + 1 ELSE 0
      /\ \A i \in 1..((m + n) - (m + 1) + 1) : u[i] = p[(m + 1) + i - 1]
    BY <1>2, <1>3, SubSeqProperties
<1> HIDE DEF u, n
<1>5. Len(u) = n
    BY <1>1, <1>3, <1>4
<1>6. ASSUME NEW i \in 1..n PROVE u[i] = s[i]
    <2>1. (m + 1) + i - 1 = m + i
        BY <1>1
    <2>2. u[i] = p[m + i]
        BY <1>3, <1>4, <2>1
    <2> QED BY <2>2 DEF n
<1>7. u = s
    BY <1>4, <1>5, <1>6, SeqEqual DEF n
<1> QED BY <1>7 DEF u, n

\* r is p, of length m, and then q, of length n.
Extends(S, p, m, q, n, r) ==
    /\ r = p \o q /\ r \in Seq(S) /\ Len(r) = m + n
    /\ \A i \in 1..m : r[i] = p[i]
    /\ \A i \in 1..n : r[m + i] = q[i]

(* Appending leaves what is there and puts the rest behind it.             *)
LEMMA Extended ==
    ASSUME NEW S, NEW p \in Seq(S), NEW q \in Seq(S), NEW m, NEW n, Len(p) = m, Len(q) = n
    PROVE  \E r : Extends(S, p, m, q, n, r)
<1>1. /\ p \o q \in Seq(S) /\ Len(p \o q) = m + n
      /\ \A i \in 1..m : (p \o q)[i] = p[i]
      /\ \A i \in 1..n : (p \o q)[m + i] = q[i]
    <2>1. /\ p \o q \in Seq(S) /\ Len(p \o q) = Len(p) + Len(q)
          /\ \A i \in 1..Len(p) : (p \o q)[i] = p[i]
        BY Appended, Zenon
    <2>2. \A i \in 1..Len(q) : (p \o q)[Len(p) + i] = q[i]
        BY Appended
    <2> DEFINE r == p \o q
    <2> HIDE DEF r
    <2> QED BY <2>1, <2>2 DEF r
<1> DEFINE r == p \o q
<1>2. Extends(S, p, m, q, n, r)
    BY <1>1 DEF Extends
<1> HIDE DEF r
<1> QED BY <1>2

\* Part k of p, from 0, is s.
Part(p, n, k, s) == SubSeq(p, k * n + 1, (k + 1) * n) = s

(* The parts of six sequences of one length packed into one.               *)
LEMMA Packed ==
    ASSUME NEW S, NEW n \in Nat,
           NEW a \in Seq(S), NEW b \in Seq(S), NEW c \in Seq(S),
           NEW d \in Seq(S), NEW e \in Seq(S), NEW f \in Seq(S),
           Len(a) = n, Len(b) = n, Len(c) = n, Len(d) = n, Len(e) = n, Len(f) = n,
           NEW p6, p6 = a \o b \o c \o d \o e \o f
    PROVE  /\ Part(p6, n, 0, a) /\ Part(p6, n, 1, b) /\ Part(p6, n, 2, c)
           /\ Part(p6, n, 3, d) /\ Part(p6, n, 4, e) /\ Part(p6, n, 5, f)
<1>0. /\ n + n = 2 * n /\ 2 * n + n = 3 * n /\ 3 * n + n = 4 * n /\ 4 * n + n = 5 * n
      /\ 5 * n + n = 6 * n
    OBVIOUS
<1>1. PICK p2 : Extends(S, a, n, b, n, p2)
    BY Extended
<1>2. PICK p3 : Extends(S, p2, 2 * n, c, n, p3)
    <2>1. p2 \in Seq(S) /\ Len(p2) = 2 * n /\ c \in Seq(S) /\ Len(c) = n
        BY <1>0, <1>1 DEF Extends
    <2> QED BY ONLY <2>1, Extended
<1>3. PICK p4 : Extends(S, p3, 3 * n, d, n, p4)
    <2>1. p3 \in Seq(S) /\ Len(p3) = 3 * n /\ d \in Seq(S) /\ Len(d) = n
        BY <1>0, <1>2 DEF Extends
    <2> QED BY ONLY <2>1, Extended
<1>4. PICK p5 : Extends(S, p4, 4 * n, e, n, p5)
    <2>1. p4 \in Seq(S) /\ Len(p4) = 4 * n /\ e \in Seq(S) /\ Len(e) = n
        BY <1>0, <1>3 DEF Extends
    <2> QED BY ONLY <2>1, Extended
<1>5. PICK p : Extends(S, p5, 5 * n, f, n, p)
    <2>1. p5 \in Seq(S) /\ Len(p5) = 5 * n /\ f \in Seq(S) /\ Len(f) = n
        BY <1>0, <1>4 DEF Extends
    <2> QED BY ONLY <2>1, Extended
<1>6. \A i \in 1..n : /\ p[i] = a[i] /\ p[n + i] = b[i] /\ p[2 * n + i] = c[i]
                      /\ p[3 * n + i] = d[i] /\ p[4 * n + i] = e[i] /\ p[5 * n + i] = f[i]
    <2> TAKE i \in 1..n
    <2>1. /\ i \in 1..(2 * n) /\ i \in 1..(3 * n) /\ i \in 1..(4 * n) /\ i \in 1..(5 * n)
          /\ n + i \in 1..(2 * n) /\ n + i \in 1..(3 * n) /\ n + i \in 1..(4 * n)
          /\ n + i \in 1..(5 * n)
          /\ 2 * n + i \in 1..(3 * n) /\ 2 * n + i \in 1..(4 * n) /\ 2 * n + i \in 1..(5 * n)
          /\ 3 * n + i \in 1..(4 * n) /\ 3 * n + i \in 1..(5 * n)
          /\ 4 * n + i \in 1..(5 * n)
        OBVIOUS
    <2>2. p2[i] = a[i] /\ p2[n + i] = b[i]
        BY <1>1 DEF Extends
    <2>3. p3[i] = p2[i] /\ p3[n + i] = p2[n + i] /\ p3[2 * n + i] = c[i]
        BY <1>2, <2>1 DEF Extends
    <2>4. /\ p4[i] = p3[i] /\ p4[n + i] = p3[n + i] /\ p4[2 * n + i] = p3[2 * n + i]
          /\ p4[3 * n + i] = d[i]
        BY <1>3, <2>1 DEF Extends
    <2>5. /\ p5[i] = p4[i] /\ p5[n + i] = p4[n + i] /\ p5[2 * n + i] = p4[2 * n + i]
          /\ p5[3 * n + i] = p4[3 * n + i] /\ p5[4 * n + i] = e[i]
        BY <1>4, <2>1 DEF Extends
    <2>6. /\ p[i] = p5[i] /\ p[n + i] = p5[n + i] /\ p[2 * n + i] = p5[2 * n + i]
          /\ p[3 * n + i] = p5[3 * n + i] /\ p[4 * n + i] = p5[4 * n + i]
          /\ p[5 * n + i] = f[i]
        BY <1>5, <2>1 DEF Extends
    <2> QED BY <2>2, <2>3, <2>4, <2>5, <2>6
<1>7. ASSUME NEW m \in {0, n, 2 * n, 3 * n, 4 * n, 5 * n}, NEW s \in Seq(S), Len(s) = n,
             \A i \in 1..n : p[m + i] = s[i]
      PROVE  SubSeq(p, m + 1, m + n) = s
    <2>1. m \in Nat /\ m + n <= 6 * n
        OBVIOUS
    <2>2. Len(p) = 6 * n /\ p \in Seq(S)
        BY <1>0, <1>5 DEF Extends
    <2>3. m + Len(s) <= Len(p) /\ \A i \in 1..Len(s) : p[m + i] = s[i]
        BY <1>7, <2>1, <2>2
    <2>4. s \in Seq(S)
        OBVIOUS
    <2>5. SubSeq(p, m + 1, m + Len(s)) = s
        BY ONLY <2>1, <2>2, <2>3, <2>4, TakenOut
    <2> QED BY <1>7, <2>5
<1>8. /\ 0 * n = 0 /\ (0 + 1) * n = 0 + n /\ 1 * n = n /\ (1 + 1) * n = n + n
      /\ (2 + 1) * n = 2 * n + n /\ (3 + 1) * n = 3 * n + n
      /\ (4 + 1) * n = 4 * n + n /\ (5 + 1) * n = 5 * n + n
      /\ \A i \in 1..n : 0 + i = i
    OBVIOUS
<1>9. /\ SubSeq(p, 0 + 1, 0 + n) = a /\ SubSeq(p, n + 1, n + n) = b
      /\ SubSeq(p, 2 * n + 1, 2 * n + n) = c
    <2>1. ASSUME NEW m, m = 0 PROVE SubSeq(p, m + 1, m + n) = a
        <3>1. m \in {0, n, 2 * n, 3 * n, 4 * n, 5 * n}
            BY <2>1
        <3>2. \A i \in 1..n : p[m + i] = a[i]
            BY <2>1, <1>6, <1>8
        <3> QED BY <3>1, <3>2, <1>7
    <2>2. SubSeq(p, n + 1, n + n) = b
        BY <1>6, <1>7
    <2>3. SubSeq(p, 2 * n + 1, 2 * n + n) = c
        BY <1>6, <1>7
    <2> QED BY <2>1, <2>2, <2>3
<1>10. /\ SubSeq(p, 3 * n + 1, 3 * n + n) = d /\ SubSeq(p, 4 * n + 1, 4 * n + n) = e
       /\ SubSeq(p, 5 * n + 1, 5 * n + n) = f
    BY <1>6, <1>7
<1>11. p = a \o b \o c \o d \o e \o f
    BY <1>1, <1>2, <1>3, <1>4, <1>5 DEF Extends
<1> QED BY <1>8, <1>9, <1>10, <1>11 DEF Part

(* The kernels read back the shapes and strides packed into their buffer.  *)
LEMMA MetadataUnpacked ==
    ASSUME NEW l, CudaOperands(l)
    PROVE  /\ MetadataEntry(l, 0) = l.input.shape /\ MetadataEntry(l, 3) = l.input.strides
           /\ MetadataEntry(l, 1) = l.other.shape /\ MetadataEntry(l, 4) = l.other.strides
           /\ MetadataEntry(l, 2) = l.out.shape /\ MetadataEntry(l, 5) = l.out.strides
<1> DEFINE n == NDim(l.out)
<1>1. \A t \in {l.input, l.other, l.out} :
        /\ WellFormed(t) /\ t.shape = l.out.shape
    BY DEF CudaOperands, SameShapes
<1>2. ASSUME NEW t \in {l.input, l.other, l.out}
      PROVE  /\ n \in Nat
             /\ t.shape \in Seq(Int) /\ Len(t.shape) = n /\ SubSeq(t.shape, 1, n) = t.shape
             /\ t.strides \in Seq(Int) /\ Len(t.strides) = n
             /\ SubSeq(t.strides, 1, n) = t.strides
    <2>1. n = Len(t.shape) /\ t.shape \in Seq(Nat \ {0}) /\ t.strides \in Seq(Int)
          /\ Len(t.strides) = n /\ n \in Nat
        BY <1>1, WellFormedStrides DEF Shapes
    <2> HIDE DEF n
    <2>2. t.shape \in Seq(Int)
        BY <2>1
    <2> QED BY <2>1, <2>2
<1>3. Metadata(l) = l.input.shape \o l.other.shape \o l.out.shape
                    \o l.input.strides \o l.other.strides \o l.out.strides
    <2> DEFINE entry(s) == SubSeq(s, 1, n)
    <2>1. Metadata(l) = entry(l.input.shape) \o entry(l.other.shape) \o entry(l.out.shape)
             \o entry(l.input.strides) \o entry(l.other.strides) \o entry(l.out.strides)
        BY DEF Metadata
    <2>2. /\ entry(l.input.shape) = l.input.shape /\ entry(l.other.shape) = l.other.shape
          /\ entry(l.out.shape) = l.out.shape /\ entry(l.input.strides) = l.input.strides
          /\ entry(l.other.strides) = l.other.strides /\ entry(l.out.strides) = l.out.strides
        BY <1>2
    <2> HIDE DEF entry
    <2> QED BY <2>1, <2>2
<1>4. \A k : MetadataEntry(l, k) = SubSeq(Metadata(l), k * n + 1, (k + 1) * n)
    BY DEF MetadataEntry
<1> HIDE DEF n
<1> DEFINE a == l.input.shape
           b == l.other.shape
           c == l.out.shape
           d == l.input.strides
           e == l.other.strides
           f == l.out.strides
           p == Metadata(l)
<1>5. /\ n \in Nat /\ a \in Seq(Int) /\ b \in Seq(Int) /\ c \in Seq(Int)
      /\ d \in Seq(Int) /\ e \in Seq(Int) /\ f \in Seq(Int)
      /\ Len(a) = n /\ Len(b) = n /\ Len(c) = n /\ Len(d) = n /\ Len(e) = n /\ Len(f) = n
    BY <1>2
<1>6. p = a \o b \o c \o d \o e \o f
    BY <1>3
<1>7. \A k : MetadataEntry(l, k) = SubSeq(p, k * n + 1, (k + 1) * n)
    BY <1>4
<1> HIDE DEF a, b, c, d, e, f, p
<1>8. /\ Part(p, n, 0, a) /\ Part(p, n, 1, b) /\ Part(p, n, 2, c)
      /\ Part(p, n, 3, d) /\ Part(p, n, 4, e) /\ Part(p, n, 5, f)
    BY ONLY <1>5, <1>6, Packed
<1> QED BY <1>7, <1>8 DEF Part, a, b, c, d, e, f

(* The kernel's address of an element, out of the packed metadata, is that *)
(* of the tensor.                                                          *)
LEMMA CudaElements ==
    ASSUME NEW l, CudaOperands(l), NEW i
    PROVE  /\ CudaElement(l, l.input, 0, i) = Element(l.input, i)
           /\ CudaElement(l, l.other, 1, i) = Element(l.other, i)
           /\ CudaElement(l, l.out, 2, i) = Element(l.out, i)
<1>1. 0 + 3 = 3 /\ 1 + 3 = 4 /\ 2 + 3 = 5
    OBVIOUS
<1> QED BY <1>1, MetadataUnpacked DEF CudaElement, Element

(* An element-wise result is, cell by cell, made of the elements at the    *)
(* same position, and two positions of the output are two cells.           *)
LEMMA CudaElementwiseReference ==
    ASSUME NEW l, CudaOperands(l)
    PROVE  /\ CudaElementwiseByElements(l)
           /\ LET Out(i) == CudaElement(l, l.out, 2, i)
              IN  \A i, j \in 0..(Numel(l.out) - 1) : Out(i) = Out(j) => i = j
<1> DEFINE n == Numel(l.out)
           from == ElementwiseFrom({l.input, l.other}, l.out)
           elements == Positions(l.out.shape)
<1>1. SameShapes({l.input, l.other}, l.out) /\ DistinctElements(l.out) /\ WellFormed(l.out)
    BY DEF CudaOperands, SameShapes
<1>2. elements = 0..(n - 1)
    BY DEF Positions, Numel
<1>3. /\ DOMAIN from = Cells(l.out)
      /\ \A i \in elements :
            /\ Element(l.out, i) \in Cells(l.out)
            /\ \A t \in {l.input, l.other} : Element(t, i) \in Cells(t)
            /\ from[Element(l.out, i)] = {Element(t, i) : t \in {l.input, l.other}}
    BY <1>1, ElementwiseByElements
<1>4. Cells(l.out) = {Element(l.out, i) : i \in elements}
      /\ \A i, j \in elements : Element(l.out, i) = Element(l.out, j) => i = j
    BY <1>1, TensorElements
<1>5. \A i : /\ CudaElement(l, l.input, 0, i) = Element(l.input, i)
             /\ CudaElement(l, l.other, 1, i) = Element(l.other, i)
             /\ CudaElement(l, l.out, 2, i) = Element(l.out, i)
    BY CudaElements
<1> HIDE DEF from, elements, n
<1>6. \A i : {Element(t, i) : t \in {l.input, l.other}}
               = {Element(l.input, i), Element(l.other, i)}
    OBVIOUS
<1>7. DOMAIN from = {CudaElement(l, l.out, 2, i) : i \in 0..(n - 1)}
    BY <1>2, <1>3, <1>4, <1>5
<1>8. ASSUME NEW i \in 0..(n - 1)
      PROVE  /\ {CudaElement(l, l.input, 0, i), CudaElement(l, l.other, 1, i)}
                   \subseteq Cells(l.input) \cup Cells(l.other)
             /\ CudaElement(l, l.out, 2, i) \in Cells(l.out)
             /\ from[CudaElement(l, l.out, 2, i)]
                  = {CudaElement(l, l.input, 0, i), CudaElement(l, l.other, 1, i)}
    <2>1. i \in elements
        BY <1>2
    <2>2. /\ Element(l.out, i) \in Cells(l.out)
          /\ Element(l.input, i) \in Cells(l.input) /\ Element(l.other, i) \in Cells(l.other)
          /\ from[Element(l.out, i)] = {Element(l.input, i), Element(l.other, i)}
        BY <1>3, <1>6, <2>1
    <2> QED BY <1>5, <2>2
<1>9. CudaElementwiseByElements(l)
    BY <1>7, <1>8 DEF CudaElementwiseByElements, from, n
<1>10. \A i, j \in 0..(n - 1) :
         CudaElement(l, l.out, 2, i) = CudaElement(l, l.out, 2, j) => i = j
    BY <1>2, <1>4, <1>5
<1> QED BY <1>9, <1>10 DEF n

-------------------------------------------------------------------------------
\* Rows of n elements that make up the indices of a shape: X[r][j] is index
\* j of row r.
RowIndices(shape, n, grid, X) ==
    /\ \A r \in grid : \A j \in 0..(n - 1) :
          /\ X[r][j] \in Indices(shape)
          /\ Len(X[r][j]) = Len(shape) /\ X[r][j][Len(shape)] = j
          /\ \A k \in 0..(n - 1) : With(X[r][j], -1, k) = X[r][k]
    /\ \A ix \in Indices(shape) : \E r \in grid : \E j \in 0..(n - 1) : X[r][j] = ix
    /\ \A r, s \in grid : \A j, k \in 0..(n - 1) : X[r][j] = X[s][k] => r = s /\ j = k

(* Replacing the last entry of an index.                                   *)
LEMMA WithLast ==
    ASSUME NEW x, NEW y, NEW k
    PROVE  With(<<x, y>>, -1, k) = <<x, k>>
<1>1. Len(<<x, y>>) + (-1) + 1 = 2 /\ [<<x, y>> EXCEPT ![2] = k] = <<x, k>>
    OBVIOUS
<1> QED BY <1>1 DEF With

(* The last coordinate replaced, in a batch.                               *)
LEMMA WithLastOfThree ==
    ASSUME NEW x, NEW y, NEW z, NEW k
    PROVE  With(<<x, y, z>>, -1, k) = <<x, y, k>>
<1>1. Len(<<x, y, z>>) + (-1) + 1 = 3 /\ [<<x, y, z>> EXCEPT ![3] = k] = <<x, y, k>>
    OBVIOUS
<1> QED BY <1>1 DEF With

NormIndices(l) ==
    LET heads == NormHeads(l.out)
    IN  [r \in NormGrid(l) |-> [k \in 0..(NormDim(l.out) - 1) |->
            IF NDim(l.out) = 2 THEN <<r, k>> ELSE <<r \div heads, r % heads, k>>]]

SoftmaxIndices(l) ==
    [r \in SoftmaxGrid(l) |-> [j \in 0..(TotalSeqLen(l) - 1) |->
        IF NDim(l.out) = 2 THEN <<r[1], j>> ELSE <<r[2], r[1], j>>]]

(* The sizes and strides of a tensor of rows by their position.            *)
LEMMA RowSizes ==
    ASSUME NEW t, RowsOf(t, t.shape)
    PROVE  /\ t.shape \in Shapes /\ Len(t.shape) = NDim(t)
           /\ \A k \in 1..NDim(t) : t.shape[k] \in Nat \ {0} /\ t.strides[k] \in Int
           /\ NDim(t) = 2 =>
                /\ Size(t, -1) = t.shape[2] /\ Size(t, -2) = t.shape[1]
                /\ Size(t, 0) = t.shape[1] /\ Size(t, 1) = t.shape[2]
                /\ Stride(t, -2) = t.strides[1] /\ Stride(t, 0) = t.strides[1]
                /\ Stride(t, 1) = t.strides[2] /\ Stride(t, -1) = t.strides[2]
           /\ NDim(t) = 3 =>
                /\ Size(t, -1) = t.shape[3] /\ Size(t, -2) = t.shape[2]
                /\ Size(t, -3) = t.shape[1]
                /\ Stride(t, -3) = t.strides[1] /\ Stride(t, -2) = t.strides[2]
                /\ Stride(t, 0) = t.strides[1]
                /\ Stride(t, 1) = t.strides[2] /\ Stride(t, -1) = t.strides[3]
<1>1. /\ WellFormed(t) /\ t.shape \in Shapes /\ Len(t.shape) = NDim(t)
      /\ \A k \in 1..NDim(t) : t.strides[k] \in Int
    BY WellFormedStrides DEF RowsOf
<1>2. \A k \in 1..NDim(t) : t.shape[k] \in Nat \ {0}
    BY <1>1, ShapeSizes
<1>3. /\ \A i \in Int : i < 0 => /\ Size(t, i) = t.shape[NDim(t) + i + 1]
                                 /\ Stride(t, i) = t.strides[NDim(t) + i + 1]
      /\ \A i \in Nat : Stride(t, i) = t.strides[i + 1] /\ Size(t, i) = t.shape[i + 1]
    BY DEF Size, Stride
<1>4. NDim(t) = 2 =>
        /\ Size(t, -1) = t.shape[2] /\ Size(t, -2) = t.shape[1]
        /\ Size(t, 0) = t.shape[1] /\ Size(t, 1) = t.shape[2]
        /\ Stride(t, -2) = t.strides[1] /\ Stride(t, 0) = t.strides[1]
        /\ Stride(t, 1) = t.strides[2] /\ Stride(t, -1) = t.strides[2]
    <2> SUFFICES ASSUME NDim(t) = 2
                 PROVE  /\ Size(t, -1) = t.shape[2] /\ Size(t, -2) = t.shape[1]
                        /\ Size(t, 0) = t.shape[1] /\ Size(t, 1) = t.shape[2]
                        /\ Stride(t, -2) = t.strides[1] /\ Stride(t, 0) = t.strides[1]
                        /\ Stride(t, 1) = t.strides[2] /\ Stride(t, -1) = t.strides[2]
        OBVIOUS
    <2>1. 2 + (-1) + 1 = 2 /\ 2 + (-2) + 1 = 1 /\ 0 + 1 = 1 /\ 1 + 1 = 2
          /\ -1 \in Int /\ -2 \in Int /\ -1 < 0 /\ -2 < 0 /\ 0 \in Nat /\ 1 \in Nat
        OBVIOUS
    <2> QED BY <1>3, <2>1
<1>5. NDim(t) = 3 =>
        /\ Size(t, -1) = t.shape[3] /\ Size(t, -2) = t.shape[2]
        /\ Size(t, -3) = t.shape[1]
        /\ Stride(t, -3) = t.strides[1] /\ Stride(t, -2) = t.strides[2]
        /\ Stride(t, 0) = t.strides[1]
        /\ Stride(t, 1) = t.strides[2] /\ Stride(t, -1) = t.strides[3]
    <2> SUFFICES ASSUME NDim(t) = 3
                 PROVE  /\ Size(t, -1) = t.shape[3] /\ Size(t, -2) = t.shape[2]
                        /\ Size(t, -3) = t.shape[1]
                        /\ Stride(t, -3) = t.strides[1] /\ Stride(t, -2) = t.strides[2]
                        /\ Stride(t, 0) = t.strides[1]
                        /\ Stride(t, 1) = t.strides[2] /\ Stride(t, -1) = t.strides[3]
        OBVIOUS
    <2>1. 3 + (-1) + 1 = 3 /\ 3 + (-2) + 1 = 2 /\ 3 + (-3) + 1 = 1 /\ 0 + 1 = 1 /\ 1 + 1 = 2
          /\ -1 \in Int /\ -2 \in Int /\ -3 \in Int /\ -1 < 0 /\ -2 < 0 /\ -3 < 0
          /\ 0 \in Nat /\ 1 \in Nat
        OBVIOUS
    <2> QED BY <1>3, <2>1
<1> QED BY <1>1, <1>2, <1>4, <1>5

(* And the last stride of one whose rows are dense.                        *)
LEMMA RowTensorSizes ==
    ASSUME NEW t, RowTensor(t, t.shape)
    PROVE  /\ t.shape \in Shapes /\ Len(t.shape) = NDim(t)
           /\ \A k \in 1..NDim(t) : t.shape[k] \in Nat \ {0} /\ t.strides[k] \in Int
           /\ NDim(t) = 2 =>
                /\ Size(t, -1) = t.shape[2] /\ Size(t, -2) = t.shape[1]
                /\ Stride(t, -2) = t.strides[1] /\ Stride(t, 0) = t.strides[1]
                /\ Stride(t, 1) = t.strides[2] /\ t.strides[2] = 1
           /\ NDim(t) = 3 =>
                /\ Size(t, -1) = t.shape[3] /\ Size(t, -2) = t.shape[2]
                /\ Size(t, -3) = t.shape[1]
                /\ Stride(t, -3) = t.strides[1] /\ Stride(t, -2) = t.strides[2]
                /\ Stride(t, 0) = t.strides[1]
                /\ Stride(t, 1) = t.strides[2] /\ t.strides[3] = 1
<1>1. RowsOf(t, t.shape) /\ Stride(t, -1) = 1
    BY DEF RowTensor, RowsOf
<1> QED BY <1>1, RowSizes

(* Blocks r \div heads, r % heads of a grid enumerate its pairs once.      *)
LEMMA GridPairs ==
    ASSUME NEW n \in Nat \ {0}, NEW heads \in Nat \ {0}
    PROVE  /\ \A r \in 0..(n * heads - 1) :
                 r \div heads \in 0..(n - 1) /\ r % heads \in 0..(heads - 1)
           /\ \A r, s \in 0..(n * heads - 1) :
                 r \div heads = s \div heads /\ r % heads = s % heads => r = s
           /\ \A b \in 0..(n - 1), h \in 0..(heads - 1) :
                 \E r \in 0..(n * heads - 1) : r \div heads = b /\ r % heads = h
<1>1. n * heads \in Nat
    OBVIOUS
<1>2. ASSUME NEW r \in 0..(n * heads - 1)
      PROVE  /\ r \div heads \in 0..(n - 1) /\ r % heads \in 0..(heads - 1)
             /\ r = heads * (r \div heads) + (r % heads)
    <2>1. r \in Nat /\ r < n * heads
        BY <1>1
    <2>2. /\ r \div heads \in Nat /\ r % heads \in 0..(heads - 1)
          /\ r = heads * (r \div heads) + (r % heads)
        BY <2>1
    <2>3. r \div heads < n
        BY ONLY <2>1, n \in Nat \ {0}, heads \in Nat \ {0}
    <2> QED BY <2>2, <2>3
<1>3. ASSUME NEW b \in 0..(n - 1), NEW h \in 0..(heads - 1)
      PROVE  \E r \in 0..(n * heads - 1) : r \div heads = b /\ r % heads = h
    <2> DEFINE r == b * heads + h
    <2>1. b * heads \in Nat /\ b \in Nat /\ h \in Nat
        OBVIOUS
    <2>2. r \div heads = b /\ r % heads = h
        BY Quotient
    <2>3. (n - 1 - b) * heads >= 0
        BY LessTimes
    <2>4. (n - 1 - b) * heads = n * heads - heads - b * heads
        OBVIOUS
    <2>5. r \in 0..(n * heads - 1)
        <3> DEFINE p == n * heads
                   q == b * heads
        <3>1. p \in Nat /\ q \in Nat /\ p - heads - q >= 0 /\ r = q + h
            BY <1>1, <2>1, <2>3, <2>4
        <3> HIDE DEF p, q, r
        <3>2. r \in 0..(p - 1)
            BY <3>1
        <3> QED BY <3>2 DEF p
    <2> QED BY <2>2, <2>5
<1>4. ASSUME NEW r \in 0..(n * heads - 1), NEW s \in 0..(n * heads - 1),
             r \div heads = s \div heads, r % heads = s % heads
      PROVE  r = s
    <2>1. /\ r = heads * (r \div heads) + (r % heads)
          /\ s = heads * (s \div heads) + (s % heads)
        BY <1>2
    <2> QED BY ONLY <1>4, <2>1, Zenon
<1> QED BY <1>2, <1>3, <1>4, Zenon

(* The rows of the norm kernel are those of its output.                    *)
LEMMA NormRowIndices ==
    ASSUME NEW l, RowTensor(l.out, l.out.shape)
    PROVE  /\ NormDim(l.out) \in Nat \ {0}
           /\ RowIndices(l.out.shape, NormDim(l.out), NormGrid(l), NormIndices(l))
<1> DEFINE t == l.out
           shape == t.shape
           n == NormDim(t)
           heads == NormHeads(t)
           batch == NormBatch(t)
           X == NormIndices(l)
           grid == NormGrid(l)
<1>1. /\ shape \in Shapes /\ Len(shape) = NDim(t) /\ NDim(t) \in {2, 3}
      /\ \A k \in 1..NDim(t) : shape[k] \in Nat \ {0}
    BY RowTensorSizes DEF RowTensor
<1>2. grid = 0..(batch * heads - 1)
    BY DEF NormGrid
<1>3. CASE NDim(t) = 2
    <2>1. n = shape[2] /\ batch = shape[1] /\ heads = 1
        BY <1>3, RowTensorSizes DEF NormDim, NormBatch, NormHeads
    <2>2. shape[1] \in Nat \ {0} /\ shape[2] \in Nat \ {0}
        BY <1>1, <1>3
    <2>3. grid = 0..(shape[1] - 1)
        BY <1>2, <2>1, <2>2
    <2>4. \A r \in grid, k \in 0..(n - 1) : X[r][k] = <<r, k>>
        BY <1>3 DEF NormIndices
    <2>5. /\ \A x \in 0..(shape[1] - 1), y \in 0..(shape[2] - 1) : <<x, y>> \in Indices(shape)
          /\ \A ix \in Indices(shape) :
                 /\ ix = <<ix[1], ix[2]>>
                 /\ ix[1] \in 0..(shape[1] - 1) /\ ix[2] \in 0..(shape[2] - 1)
        BY <1>1, <1>3, MatrixIndices
    <2>6. \A r, j, k : With(<<r, j>>, -1, k) = <<r, k>>
        BY WithLast
    <2>7. \A r, j : Len(<<r, j>>) = 2 /\ <<r, j>>[2] = j
        OBVIOUS
    <2>8. Len(shape) = 2 /\ \A r, j, s, k : <<r, j>> = <<s, k>> => r = s /\ j = k
        BY <1>1, <1>3
    <2> HIDE DEF X, grid, n, shape
    <2>9. \A r \in grid : \A j \in 0..(n - 1) :
            /\ X[r][j] \in Indices(shape)
            /\ Len(X[r][j]) = Len(shape) /\ X[r][j][Len(shape)] = j
            /\ \A k \in 0..(n - 1) : With(X[r][j], -1, k) = X[r][k]
        <3> TAKE r \in grid
        <3> TAKE j \in 0..(n - 1)
        <3>1. X[r][j] = <<r, j>>
            BY <2>4
        <3>2. X[r][j] \in Indices(shape)
            BY <2>1, <2>3, <2>5, <3>1
        <3> QED BY <2>4, <2>6, <2>7, <2>8, <3>1, <3>2
    <2>10. \A ix \in Indices(shape) : \E r \in grid : \E j \in 0..(n - 1) : X[r][j] = ix
        BY <2>1, <2>3, <2>4, <2>5
    <2>11. \A r, s \in grid : \A j, k \in 0..(n - 1) : X[r][j] = X[s][k] => r = s /\ j = k
        BY <2>4, <2>8
    <2>12. RowIndices(shape, n, grid, X)
        BY <2>9, <2>10, <2>11 DEF RowIndices
    <2> QED BY <2>1, <2>2, <2>12 DEF X, grid, n, shape
<1>4. CASE NDim(t) = 3
    <2>1. n = shape[3] /\ batch = shape[1] /\ heads = shape[2]
        BY <1>4, RowTensorSizes DEF NormDim, NormBatch, NormHeads
    <2>2. shape[1] \in Nat \ {0} /\ shape[2] \in Nat \ {0} /\ shape[3] \in Nat \ {0}
        BY <1>1, <1>4
    <2>3. \A r \in grid, k \in 0..(n - 1) : X[r][k] = <<r \div heads, r % heads, k>>
        BY <1>4 DEF NormIndices
    <2>4. /\ \A x \in 0..(shape[1] - 1), y \in 0..(shape[2] - 1), z \in 0..(shape[3] - 1) :
                 <<x, y, z>> \in Indices(shape)
          /\ \A ix \in Indices(shape) :
                 /\ ix = <<ix[1], ix[2], ix[3]>>
                 /\ ix[1] \in 0..(shape[1] - 1) /\ ix[2] \in 0..(shape[2] - 1)
                 /\ ix[3] \in 0..(shape[3] - 1)
        BY <1>1, <1>4, BatchIndices
    <2>5. \A b, h, j, k : With(<<b, h, j>>, -1, k) = <<b, h, k>>
        BY WithLastOfThree
    <2>6. \A b, h, j : Len(<<b, h, j>>) = 3 /\ <<b, h, j>>[3] = j
        OBVIOUS
    <2>7. /\ Len(shape) = 3
          /\ \A b, h, j, c, g, k : <<b, h, j>> = <<c, g, k>> => b = c /\ h = g /\ j = k
        BY <1>1, <1>4
    <2>14. batch \in Nat \ {0} /\ heads \in Nat \ {0}
        BY <2>1, <2>2
    <2> HIDE DEF X, grid, n, shape, batch, heads
    <2>8. /\ \A r \in grid : r \div heads \in 0..(batch - 1) /\ r % heads \in 0..(heads - 1)
          /\ \A r, s \in grid : r \div heads = s \div heads /\ r % heads = s % heads => r = s
          /\ \A b \in 0..(batch - 1), h \in 0..(heads - 1) :
                 \E r \in grid : r \div heads = b /\ r % heads = h
        <3> DEFINE blocks == 0..(batch * heads - 1)
        <3>1. /\ \A r \in blocks : r \div heads \in 0..(batch - 1) /\ r % heads \in 0..(heads - 1)
              /\ \A r, s \in blocks : r \div heads = s \div heads /\ r % heads = s % heads => r = s
              /\ \A b \in 0..(batch - 1), h \in 0..(heads - 1) :
                    \E r \in blocks : r \div heads = b /\ r % heads = h
            BY ONLY <2>14, GridPairs, Zenon
        <3>2. grid = blocks
            BY <1>2
        <3> HIDE DEF blocks
        <3> QED BY <3>1, <3>2
    <2>9. \A r \in grid : \A j \in 0..(n - 1) :
            /\ X[r][j] \in Indices(shape)
            /\ Len(X[r][j]) = Len(shape) /\ X[r][j][Len(shape)] = j
            /\ \A k \in 0..(n - 1) : With(X[r][j], -1, k) = X[r][k]
        <3> TAKE r \in grid
        <3> TAKE j \in 0..(n - 1)
        <3>1. X[r][j] = <<r \div heads, r % heads, j>>
            BY <2>3
        <3>2. r \div heads \in 0..(batch - 1) /\ r % heads \in 0..(heads - 1)
            BY <2>8
        <3>3. X[r][j] \in Indices(shape)
            BY <2>1, <2>4, <3>1, <3>2
        <3> QED BY <2>3, <2>5, <2>6, <2>7, <3>1, <3>3
    <2>10. \A ix \in Indices(shape) : \E r \in grid : \E j \in 0..(n - 1) : X[r][j] = ix
        <3> TAKE ix \in Indices(shape)
        <3>1. /\ ix = <<ix[1], ix[2], ix[3]>>
              /\ ix[1] \in 0..(batch - 1) /\ ix[2] \in 0..(heads - 1) /\ ix[3] \in 0..(n - 1)
            BY <2>1, <2>4
        <3>2. PICK r \in grid : r \div heads = ix[1] /\ r % heads = ix[2]
            BY <2>8, <3>1
        <3>3. X[r][ix[3]] = ix
            BY <2>3, <3>1, <3>2
        <3> QED BY <3>1, <3>3
    <2>11. \A r, s \in grid : \A j, k \in 0..(n - 1) : X[r][j] = X[s][k] => r = s /\ j = k
        <3> TAKE r, s \in grid
        <3> TAKE j, k \in 0..(n - 1)
        <3> SUFFICES ASSUME X[r][j] = X[s][k] PROVE r = s /\ j = k
            OBVIOUS
        <3>1. <<r \div heads, r % heads, j>> = <<s \div heads, s % heads, k>>
            BY <2>3
        <3>2. r \div heads = s \div heads /\ r % heads = s % heads /\ j = k
            BY <2>7, <3>1
        <3> QED BY <2>8, <3>2
    <2>12. RowIndices(shape, n, grid, X)
        BY <2>9, <2>10, <2>11 DEF RowIndices
    <2> QED BY <2>1, <2>2, <2>12 DEF X, grid, n, shape
<1> QED BY <1>1, <1>3, <1>4

(* The rows of the softmax kernel are those of its output.                 *)
LEMMA SoftmaxRowIndices ==
    ASSUME NEW l, RowsOf(l.out, l.out.shape)
    PROVE  /\ TotalSeqLen(l) \in Nat \ {0} /\ SeqLen(l) \in Nat
           /\ RowIndices(l.out.shape, TotalSeqLen(l), SoftmaxGrid(l), SoftmaxIndices(l))
<1> DEFINE t == l.out
           shape == t.shape
           n == TotalSeqLen(l)
           X == SoftmaxIndices(l)
           grid == SoftmaxGrid(l)
<1>1. /\ shape \in Shapes /\ Len(shape) = NDim(t) /\ NDim(t) \in {2, 3}
      /\ \A k \in 1..NDim(t) : shape[k] \in Nat \ {0}
    BY RowSizes DEF RowsOf
<1>2. grid = (0..(SeqLen(l) - 1)) \X (0..(SoftmaxBatch(l) - 1))
    BY DEF SoftmaxGrid
<1>3. CASE NDim(t) = 2
    <2>1. n = shape[2] /\ SeqLen(l) = shape[1] /\ SoftmaxBatch(l) = 1
        BY <1>3, RowSizes DEF TotalSeqLen, SeqLen, SoftmaxBatch
    <2>2. shape[1] \in Nat \ {0} /\ shape[2] \in Nat \ {0}
        BY <1>1, <1>3
    <2>3. grid = (0..(shape[1] - 1)) \X {0}
        <3>1. 0..(1 - 1) = {0}
            OBVIOUS
        <3> QED BY <1>2, <2>1, <3>1
    <2>4. \A r \in grid, k \in 0..(n - 1) : X[r][k] = <<r[1], k>>
        BY <1>3 DEF SoftmaxIndices
    <2>5. /\ \A x \in 0..(shape[1] - 1), y \in 0..(shape[2] - 1) : <<x, y>> \in Indices(shape)
          /\ \A ix \in Indices(shape) :
                 /\ ix = <<ix[1], ix[2]>>
                 /\ ix[1] \in 0..(shape[1] - 1) /\ ix[2] \in 0..(shape[2] - 1)
        BY <1>1, <1>3, MatrixIndices
    <2>6. \A r, j, k : With(<<r, j>>, -1, k) = <<r, k>>
        BY WithLast
    <2>7. \A r, j : Len(<<r, j>>) = 2 /\ <<r, j>>[2] = j
        OBVIOUS
    <2>8. Len(shape) = 2 /\ \A r, j, s, k : <<r, j>> = <<s, k>> => r = s /\ j = k
        BY <1>1, <1>3
    <2>9. \A r \in grid : r = <<r[1], 0>> /\ r[1] \in 0..(shape[1] - 1)
        BY <2>3
    <2>10. \A x \in 0..(shape[1] - 1) : <<x, 0>> \in grid /\ <<x, 0>>[1] = x
        BY <2>3
    <2> HIDE DEF X, grid, n, shape
    <2>11. \A r \in grid : \A j \in 0..(n - 1) :
            /\ X[r][j] \in Indices(shape)
            /\ Len(X[r][j]) = Len(shape) /\ X[r][j][Len(shape)] = j
            /\ \A k \in 0..(n - 1) : With(X[r][j], -1, k) = X[r][k]
        BY <2>1, <2>9, <2>4, <2>5, <2>6, <2>7, <2>8
    <2>12. \A ix \in Indices(shape) : \E r \in grid : \E j \in 0..(n - 1) : X[r][j] = ix
        <3> TAKE ix \in Indices(shape)
        <3> DEFINE r == <<ix[1], 0>>
        <3>1. r \in grid /\ r[1] = ix[1] /\ ix[2] \in 0..(n - 1) /\ ix = <<ix[1], ix[2]>>
            BY <2>1, <2>5, <2>10
        <3> HIDE DEF r
        <3>2. X[r][ix[2]] = ix
            BY <2>4, <3>1
        <3> QED BY <3>1, <3>2
    <2>13. \A r, s \in grid : \A j, k \in 0..(n - 1) : X[r][j] = X[s][k] => r = s /\ j = k
        <3> TAKE r, s \in grid
        <3> TAKE j, k \in 0..(n - 1)
        <3> SUFFICES ASSUME X[r][j] = X[s][k] PROVE r = s /\ j = k
            OBVIOUS
        <3>1. r[1] = s[1] /\ j = k
            BY <2>4, <2>8
        <3>2. r = <<r[1], 0>> /\ s = <<s[1], 0>>
            BY <2>9
        <3> QED BY ONLY <3>1, <3>2, Zenon
    <2>14. RowIndices(shape, n, grid, X)
        BY <2>11, <2>12, <2>13 DEF RowIndices
    <2> QED BY <2>1, <2>2, <2>14 DEF X, grid, n, shape
<1>4. CASE NDim(t) = 3
    <2>1. n = shape[3] /\ SoftmaxBatch(l) = shape[1] /\ SeqLen(l) = shape[2]
        BY <1>4, RowSizes DEF TotalSeqLen, SeqLen, SoftmaxBatch
    <2>2. shape[1] \in Nat \ {0} /\ shape[2] \in Nat \ {0} /\ shape[3] \in Nat \ {0}
        BY <1>1, <1>4
    <2>3. \A r \in grid, k \in 0..(n - 1) : X[r][k] = <<r[2], r[1], k>>
        BY <1>4 DEF SoftmaxIndices
    <2>4. /\ \A x \in 0..(shape[1] - 1), y \in 0..(shape[2] - 1), z \in 0..(shape[3] - 1) :
                 <<x, y, z>> \in Indices(shape)
          /\ \A ix \in Indices(shape) :
                 /\ ix = <<ix[1], ix[2], ix[3]>>
                 /\ ix[1] \in 0..(shape[1] - 1) /\ ix[2] \in 0..(shape[2] - 1)
                 /\ ix[3] \in 0..(shape[3] - 1)
        BY <1>1, <1>4, BatchIndices
    <2>5. \A b, h, j, k : With(<<b, h, j>>, -1, k) = <<b, h, k>>
        BY WithLastOfThree
    <2>6. \A b, h, j : Len(<<b, h, j>>) = 3 /\ <<b, h, j>>[3] = j
        OBVIOUS
    <2>7. /\ Len(shape) = 3
          /\ \A b, h, j, c, g, k : <<b, h, j>> = <<c, g, k>> => b = c /\ h = g /\ j = k
        BY <1>1, <1>4
    <2>8. \A r \in grid : /\ r = <<r[1], r[2]>>
                          /\ r[1] \in 0..(shape[2] - 1) /\ r[2] \in 0..(shape[1] - 1)
        BY <1>2, <2>1
    <2>9. \A x \in 0..(shape[2] - 1), y \in 0..(shape[1] - 1) :
             <<x, y>> \in grid /\ <<x, y>>[1] = x /\ <<x, y>>[2] = y
        BY <1>2, <2>1
    <2> HIDE DEF X, grid, n, shape
    <2>10. \A r \in grid : \A j \in 0..(n - 1) :
            /\ X[r][j] \in Indices(shape)
            /\ Len(X[r][j]) = Len(shape) /\ X[r][j][Len(shape)] = j
            /\ \A k \in 0..(n - 1) : With(X[r][j], -1, k) = X[r][k]
        <3> TAKE r \in grid
        <3> TAKE j \in 0..(n - 1)
        <3>1. X[r][j] = <<r[2], r[1], j>>
            BY <2>3
        <3>2. X[r][j] \in Indices(shape)
            BY <2>1, <2>4, <2>8, <3>1
        <3> QED BY <2>3, <2>5, <2>6, <2>7, <3>1, <3>2
    <2>11. \A ix \in Indices(shape) : \E r \in grid : \E j \in 0..(n - 1) : X[r][j] = ix
        <3> TAKE ix \in Indices(shape)
        <3> DEFINE r == <<ix[2], ix[1]>>
        <3>1. /\ r \in grid /\ r[1] = ix[2] /\ r[2] = ix[1] /\ ix[3] \in 0..(n - 1)
              /\ ix = <<ix[1], ix[2], ix[3]>>
            BY <2>1, <2>4, <2>9
        <3> HIDE DEF r
        <3>2. X[r][ix[3]] = ix
            BY <2>3, <3>1
        <3> QED BY <3>1, <3>2
    <2>12. \A r, s \in grid : \A j, k \in 0..(n - 1) : X[r][j] = X[s][k] => r = s /\ j = k
        <3> TAKE r, s \in grid
        <3> TAKE j, k \in 0..(n - 1)
        <3> SUFFICES ASSUME X[r][j] = X[s][k] PROVE r = s /\ j = k
            OBVIOUS
        <3>1. r[2] = s[2] /\ r[1] = s[1] /\ j = k
            BY <2>3, <2>7
        <3>2. r = <<r[1], r[2]>> /\ s = <<s[1], s[2]>>
            BY <2>8
        <3> QED BY ONLY <3>1, <3>2, Zenon
    <2>13. RowIndices(shape, n, grid, X)
        BY <2>10, <2>11, <2>12 DEF RowIndices
    <2> QED BY <2>1, <2>2, <2>13 DEF X, grid, n, shape
<1> QED BY <1>1, <1>3, <1>4

\* A tensor read along the rows of an index.
AlongRows(t, n, grid, X, row) ==
    \A r \in grid : \A j \in 0..(n - 1) : row[r][j] = Cell(t, X[r][j])

(* The rows of a tensor are its elements, each once.                       *)
LEMMA ElementsInRows ==
    ASSUME NEW t, NEW n, NEW grid, NEW X, NEW row,
           RowIndices(t.shape, n, grid, X), AlongRows(t, n, grid, X, row)
    PROVE  /\ Cells(t) = UNION {{row[r][j] : j \in 0..(n - 1)} : r \in grid}
           /\ \A r \in grid : \A j \in 0..(n - 1) : row[r][j] \in Cells(t)
           /\ DistinctElements(t) =>
                \A r, s \in grid : \A j, k \in 0..(n - 1) :
                   row[r][j] = row[s][k] => r = s /\ j = k
<1> DEFINE columns == 0..(n - 1)
<1>1. /\ \A r \in grid : \A j \in columns : X[r][j] \in Indices(t.shape)
      /\ \A ix \in Indices(t.shape) : \E r \in grid : \E j \in columns : X[r][j] = ix
      /\ \A r, s \in grid : \A j, k \in columns : X[r][j] = X[s][k] => r = s /\ j = k
    BY DEF RowIndices
<1>2. \A r \in grid : \A j \in columns : row[r][j] = Cell(t, X[r][j])
    BY DEF AlongRows
<1> HIDE DEF columns
<1>3. Cells(t) = {Cell(t, ix) : ix \in Indices(t.shape)}
    BY DEF Cells
<1>4. \A r \in grid : \A j \in columns : row[r][j] \in Cells(t)
    BY <1>1, <1>2, <1>3
<1>5. Cells(t) = UNION {{row[r][j] : j \in columns} : r \in grid}
    <2>1. ASSUME NEW c \in Cells(t)
          PROVE  c \in UNION {{row[r][j] : j \in columns} : r \in grid}
        <3>1. PICK ix \in Indices(t.shape) : c = Cell(t, ix)
            BY <1>3
        <3>2. PICK r \in grid, j \in columns : X[r][j] = ix
            BY <1>1
        <3>3. c = row[r][j]
            BY <1>2, <3>1, <3>2
        <3> QED BY <3>3
    <2>2. UNION {{row[r][j] : j \in columns} : r \in grid} \subseteq Cells(t)
        BY <1>4
    <2> QED BY <2>1, <2>2
<1>6. ASSUME DistinctElements(t), NEW r \in grid, NEW s \in grid,
             NEW j \in columns, NEW k \in columns, row[r][j] = row[s][k]
      PROVE  r = s /\ j = k
    <2>1. X[r][j] = X[s][k]
        BY <1>1, <1>2, <1>6 DEF DistinctElements
    <2> QED BY <1>1, <2>1
<1> QED BY <1>4, <1>5, <1>6 DEF columns

-------------------------------------------------------------------------------
\* The operands of the row kernels.
RowOperands(l) ==
    /\ RowTensor(l.input, l.out.shape) /\ RowTensor(l.out, l.out.shape)
    /\ DistinctElements(l.out)

(* The elements of a vector of stride one follow its base.                 *)
LEMMA VectorElements ==
    ASSUME NEW t, NEW n \in Nat, VectorTensor(t, n), NEW k \in 0..(n - 1)
    PROVE  Cell(t, <<k>>) = At(t, k) /\ At(t, k) \in Cells(t)
<1>1. WellFormed(t) /\ t.shape \in Shapes /\ Len(t.shape) = 1 /\ NDim(t) = 1
      /\ t.shape[1] = n /\ t.strides[1] = 1
    BY WellFormedStrides DEF VectorTensor, NDim
<1>2. Cell(t, <<k>>) = At(t, k * t.strides[1])
    BY <1>1, VectorCell
<1>3. k * t.strides[1] = k
    BY <1>1
<1>4. <<k>> \in Indices(t.shape)
    BY <1>1, VectorIndices
<1> QED BY <1>2, <1>3, <1>4 DEF Cells

(* The norm kernel reads and writes along the rows.                        *)
LEMMA NormRowCells ==
    ASSUME NEW l, RowTensor(l.out, l.out.shape), NEW t, RowTensor(t, l.out.shape)
    PROVE  AlongRows(t, NormDim(l.out), NormGrid(l), NormIndices(l), NormRows(l, t))
<1> DEFINE n == NormDim(l.out)
           heads == NormHeads(l.out)
           batch == NormBatch(l.out)
           X == NormIndices(l)
           grid == NormGrid(l)
<1> SUFFICES ASSUME NEW r \in grid, NEW k \in 0..(n - 1)
             PROVE  NormRows(l, t)[r][k] = Cell(t, X[r][k])
    BY DEF AlongRows
<1>1. NormRows(l, t)[r][k] = NormElement(t, r \div heads, r % heads, k)
    BY DEF NormRows, NormRow
<1>2. /\ WellFormed(t) /\ t.shape = l.out.shape /\ NDim(t) = NDim(l.out) /\ NDim(t) \in {2, 3}
      /\ RowTensor(t, t.shape)
    BY DEF RowTensor, NDim
<1>3. r \in 0..(batch * heads - 1)
    BY DEF NormGrid
<1>4. CASE NDim(t) = 2
    <2>1. /\ heads = 1 /\ batch = l.out.shape[1] /\ n = l.out.shape[2]
          /\ l.out.shape[1] \in Nat \ {0} /\ l.out.shape[2] \in Nat \ {0}
        BY <1>2, <1>4, RowTensorSizes DEF NormDim, NormBatch, NormHeads
    <2>2. Stride(t, 0) = t.strides[1] /\ Stride(t, 1) = t.strides[2] /\ t.strides[2] = 1
          /\ t.strides[1] \in Int
        BY <1>2, <1>4, RowTensorSizes
    <2>3. X[r][k] = <<r, k>>
        BY <1>2, <1>4 DEF NormIndices
    <2> HIDE DEF X, heads, batch, n
    <2>4. r \in Nat /\ k \in Nat /\ r \div heads = r /\ r % heads = 0
        <3>1. r \in Nat /\ k \in Nat
            BY <1>3, <2>1
        <3>2. r \div 1 = r /\ r % 1 = 0
            BY <3>1
        <3> QED BY <2>1, <3>1, <3>2
    <2>5. NormElement(t, r, 0, k) = At(t, r * t.strides[1] + 0 * t.strides[2] + k)
        BY <1>4, <2>2 DEF NormElement
    <2>6. Cell(t, <<r, k>>) = At(t, r * t.strides[1] + k * t.strides[2])
        BY <1>2, <1>4, <2>4, MatrixElement
    <2>7. r * t.strides[1] + 0 * t.strides[2] + k = r * t.strides[1] + k * t.strides[2]
        BY <2>2, <2>4
    <2> QED BY <1>1, <2>3, <2>4, <2>5, <2>6, <2>7
<1>5. CASE NDim(t) = 3
    <2>1. /\ heads = l.out.shape[2] /\ batch = l.out.shape[1] /\ n = l.out.shape[3]
          /\ l.out.shape[1] \in Nat \ {0} /\ l.out.shape[2] \in Nat \ {0}
          /\ l.out.shape[3] \in Nat \ {0}
        <3>1. NDim(l.out) = 3
            BY <1>2, <1>5
        <3>2. /\ Size(l.out, -1) = l.out.shape[3] /\ Size(l.out, -2) = l.out.shape[2]
              /\ Size(l.out, -3) = l.out.shape[1]
              /\ \A i \in 1..3 : l.out.shape[i] \in Nat \ {0}
            BY <3>1, RowTensorSizes
        <3> QED BY <3>1, <3>2 DEF NormDim, NormBatch, NormHeads
    <2>2. /\ Stride(t, 0) = t.strides[1] /\ Stride(t, 1) = t.strides[2] /\ t.strides[3] = 1
          /\ t.strides[1] \in Int /\ t.strides[2] \in Int
        BY <1>2, <1>5, RowTensorSizes
    <2> DEFINE b == r \div heads
               h == r % heads
    <2>3. X[r][k] = <<b, h, k>>
        BY <1>2, <1>5 DEF NormIndices
    <2> HIDE DEF X, n
    <2>4. k \in Nat
        BY <2>1
    <2>5. b \in Int /\ h \in Int
        <3>1. heads \in Nat \ {0} /\ batch \in Nat \ {0}
            BY <2>1
        <3> HIDE DEF heads, batch
        <3>2. r \in Nat
            BY <1>3, <3>1
        <3> QED BY <3>1, <3>2
    <2> HIDE DEF b, h
    <2>6. NormElement(t, b, h, k) = At(t, b * t.strides[1] + h * t.strides[2] + k)
        BY <1>5, <2>2 DEF NormElement
    <2>7. Cell(t, <<b, h, k>>) = At(t, b * t.strides[1] + h * t.strides[2] + k * t.strides[3])
        BY <1>2, <1>5, <2>4, <2>5, BatchElement
    <2>8. k * t.strides[3] = k
        BY <2>2, <2>4
    <2> QED BY <1>1, <2>3, <2>6, <2>7, <2>8 DEF b, h
<1> QED BY <1>2, <1>4, <1>5

(* And so does the softmax kernel.                                         *)
LEMMA SoftmaxRowCells ==
    ASSUME NEW l, RowTensor(l.out, l.out.shape), NEW t, RowTensor(t, l.out.shape)
    PROVE  /\ AlongRows(t, TotalSeqLen(l), SoftmaxGrid(l), SoftmaxIndices(l), SoftmaxRows(l, t))
           /\ \A r \in SoftmaxGrid(l) : \A j, k \in 0..(TotalSeqLen(l) - 1) :
                 SoftmaxRows(l, t)[r][j] = SoftmaxRows(l, t)[r][k] => j = k
<1> DEFINE n == TotalSeqLen(l)
           X == SoftmaxIndices(l)
           grid == SoftmaxGrid(l)
           row == SoftmaxRows(l, t)
<1>1. \A r \in grid : \A k \in 0..(n - 1) : row[r][k] = CudaRowElement(t, r[2], r[1], k)
    BY DEF SoftmaxRows, SoftmaxRow
<1>2. /\ WellFormed(t) /\ t.shape = l.out.shape /\ NDim(t) = NDim(l.out) /\ NDim(t) \in {2, 3}
      /\ RowTensor(t, t.shape)
    BY DEF RowTensor, NDim
<1>3. grid = (0..(SeqLen(l) - 1)) \X (0..(SoftmaxBatch(l) - 1)) /\ n \in Nat
      /\ \A k \in 0..(n - 1) : k \in Nat
    <2>1. RowsOf(l.out, l.out.shape)
        BY DEF RowTensor, RowsOf
    <2>2. n \in Nat
        BY <2>1, SoftmaxRowIndices
    <2> HIDE DEF n
    <2>3. \A k \in 0..(n - 1) : k \in Nat
        BY <2>2
    <2> QED BY <2>2, <2>3 DEF SoftmaxGrid
<1>4. ASSUME NEW r \in grid
      PROVE  \E c \in Int : \A k \in 0..(n - 1) :
                row[r][k] = At(t, c + k) /\ Cell(t, X[r][k]) = At(t, c + k)
    <2>1. CASE NDim(t) = 2
        <3>1. /\ SoftmaxBatch(l) = 1 /\ SeqLen(l) = l.out.shape[1] /\ n = l.out.shape[2]
              /\ l.out.shape[1] \in Nat \ {0} /\ l.out.shape[2] \in Nat \ {0}
            BY <1>2, <2>1, RowTensorSizes DEF TotalSeqLen, SeqLen, SoftmaxBatch
        <3>2. /\ Stride(t, -2) = t.strides[1] /\ t.strides[2] = 1 /\ t.strides[1] \in Int
            BY <1>2, <2>1, RowTensorSizes
        <3>3. \A k \in 0..(n - 1) : X[r][k] = <<r[1], k>>
            BY <1>2, <2>1 DEF SoftmaxIndices
        <3>4. r[1] \in Nat /\ r[2] \in 0..(1 - 1)
            BY <1>3, <3>1
        <3>5. \A k \in Nat : /\ Cell(t, <<r[1], k>>) = At(t, r[1] * t.strides[1] + k * t.strides[2])
                             /\ k * t.strides[2] = k
            BY <1>2, <2>1, <3>2, <3>4, MatrixElement
        <3>6. BatchStride(t) = 0
            BY <2>1 DEF BatchStride
        <3>7. \A k \in Nat : CudaRowElement(t, r[2], r[1], k) = At(t, r[1] * t.strides[1] + k)
            <4> TAKE k \in Nat
            <4>1. CudaRowElement(t, r[2], r[1], k) = At(t, r[2] * 0 + r[1] * t.strides[1] + k)
                BY <3>2, <3>6 DEF CudaRowElement
            <4>2. r[2] * 0 + r[1] * t.strides[1] + k = r[1] * t.strides[1] + k
                BY <3>2, <3>4
            <4> QED BY <4>1, <4>2
        <3> DEFINE c == r[1] * t.strides[1]
        <3>8. c \in Int
            BY <3>2, <3>4
        <3>9. \A k \in 0..(n - 1) : row[r][k] = At(t, c + k) /\ Cell(t, X[r][k]) = At(t, c + k)
            BY <1>1, <1>3, <3>3, <3>5, <3>7
        <3> HIDE DEF c
        <3> QED BY <3>8, <3>9
    <2>2. CASE NDim(t) = 3
        <3>1. /\ SoftmaxBatch(l) = l.out.shape[1] /\ SeqLen(l) = l.out.shape[2]
              /\ n = l.out.shape[3]
              /\ l.out.shape[1] \in Nat \ {0} /\ l.out.shape[2] \in Nat \ {0}
              /\ l.out.shape[3] \in Nat \ {0}
            <4>1. NDim(l.out) = 3
                BY <1>2, <2>2
            <4>2. /\ Size(l.out, -1) = l.out.shape[3] /\ Size(l.out, -2) = l.out.shape[2]
                  /\ Size(l.out, -3) = l.out.shape[1]
                  /\ \A k \in 1..3 : l.out.shape[k] \in Nat \ {0}
                BY <4>1, RowTensorSizes
            <4> QED BY <4>1, <4>2 DEF TotalSeqLen, SeqLen, SoftmaxBatch
        <3>2. /\ Stride(t, -3) = t.strides[1] /\ Stride(t, -2) = t.strides[2]
              /\ t.strides[3] = 1 /\ t.strides[1] \in Int /\ t.strides[2] \in Int
            BY <1>2, <2>2, RowTensorSizes
        <3>3. \A k \in 0..(n - 1) : X[r][k] = <<r[2], r[1], k>>
            BY <1>2, <2>2 DEF SoftmaxIndices
        <3>4. r[1] \in Nat /\ r[2] \in Nat
            BY <1>3, <3>1
        <3>5. \A k \in Nat :
                /\ Cell(t, <<r[2], r[1], k>>)
                     = At(t, r[2] * t.strides[1] + r[1] * t.strides[2] + k * t.strides[3])
                /\ k * t.strides[3] = k
            BY <1>2, <2>2, <3>2, <3>4, BatchElement
        <3>6. BatchStride(t) = t.strides[1]
            BY <2>2, <3>2 DEF BatchStride
        <3> DEFINE c == r[2] * t.strides[1] + r[1] * t.strides[2]
        <3>7. \A k \in Nat : CudaRowElement(t, r[2], r[1], k) = At(t, c + k)
            BY <3>2, <3>6 DEF CudaRowElement
        <3>8. c \in Int
            BY <3>2, <3>4
        <3>9. \A k \in 0..(n - 1) : row[r][k] = At(t, c + k) /\ Cell(t, X[r][k]) = At(t, c + k)
            BY <1>1, <1>3, <3>3, <3>5, <3>7
        <3> HIDE DEF c
        <3> QED BY <3>8, <3>9
    <2> QED BY <1>2, <2>1, <2>2
<1>5. AlongRows(t, n, grid, X, row)
    BY <1>4 DEF AlongRows
<1> HIDE DEF n, X, grid, row
<1>6. ASSUME NEW r \in grid, NEW j \in 0..(n - 1), NEW k \in 0..(n - 1), row[r][j] = row[r][k]
      PROVE  j = k
    <2>1. PICK c \in Int : row[r][j] = At(t, c + j) /\ row[r][k] = At(t, c + k)
        BY <1>4
    <2>2. t.base + (c + j) = t.base + (c + k)
        <3>1. At(t, c + j) = At(t, c + k)
            BY <1>6, <2>1
        <3>2. <<t.buffer, t.base + (c + j)>> = <<t.buffer, t.base + (c + k)>>
            BY <3>1 DEF At
        <3> QED BY ONLY <3>2, Zenon
    <2>3. t.base \in Int /\ j \in Nat /\ k \in Nat
        BY <1>2, <1>3, WellFormedStrides
    <2> QED BY <2>2, <2>3
<1> QED BY <1>5, <1>6 DEF n, X, grid, row

-------------------------------------------------------------------------------
\* The operands of the norm kernels and of the softmax kernels.
CudaNormOperands(l) ==
    RowOperands(l) /\ VectorTensor(l.weight, NormDim(l.out))

CudaSoftmaxOperands(l) ==
    RowOperands(l) /\ SeqLen(l) <= TotalSeqLen(l)

\* The rows in[r] and out[r] are elements of input and output, the latter of
\* one row each.
RowsFound(l, n, in, out) ==
    /\ \A r \in DOMAIN out : \A j \in 0..(n - 1) :
          in[r][j] \in Cells(l.input) /\ out[r][j] \in Cells(l.out)
    /\ \A r, s \in DOMAIN out : \A j, k \in 0..(n - 1) :
          out[r][j] = out[s][k] => r = s /\ j = k

(* The reference of the norm by the rows of the kernel.                    *)
LEMMA CudaNormReference ==
    ASSUME NEW l, CudaNormOperands(l)
    PROVE  /\ NormDim(l.out) \in Nat \ {0}
           /\ RowsFound(l, NormDim(l.out), NormRows(l, l.input), NormRows(l, l.out))
           /\ \A k \in 0..(NormDim(l.out) - 1) : At(l.weight, k) \in Cells(l.weight)
           /\ CudaNormByRows(l)
<1> DEFINE n == NormDim(l.out)
           X == NormIndices(l)
           grid == NormGrid(l)
           in == NormRows(l, l.input)
           out == NormRows(l, l.out)
           columns == 0..(n - 1)
           from == RmsNormFrom(l)
           ixs == Indices(l.out.shape)
           From(ix) == {Cell(l.input, With(ix, -1, k)) : k \in columns}
                       \cup {Cell(l.weight, <<ix[Len(ix)]>>)}
<1>1. /\ RowTensor(l.input, l.out.shape) /\ RowTensor(l.out, l.out.shape)
      /\ DistinctElements(l.out) /\ VectorTensor(l.weight, n)
      /\ l.input.shape = l.out.shape
    BY DEF CudaNormOperands, RowOperands, RowTensor
<1>2. n \in Nat \ {0} /\ RowIndices(l.out.shape, n, grid, X)
    BY <1>1, NormRowIndices
<1>3. AlongRows(l.input, n, grid, X, in) /\ AlongRows(l.out, n, grid, X, out)
    BY <1>1, NormRowCells
<1>4. DOMAIN out = grid
    BY DEF NormRows
<1>5. from = [c \in Cells(l.out) |-> UNION {From(ix) : ix \in {x \in ixs : Cell(l.out, x) = c}}]
    BY DEF RmsNormFrom, Elementwise
<1>6. \A k \in columns : Cell(l.weight, <<k>>) = At(l.weight, k) /\ At(l.weight, k) \in Cells(l.weight)
    BY <1>1, <1>2, VectorElements
<1>7. CudaNormByRows(l) <=>
        /\ DOMAIN from = UNION {{out[r][k] : k \in columns} : r \in grid}
        /\ \A r \in grid : \A k \in columns :
              from[out[r][k]] = {in[r][j] : j \in columns} \cup {At(l.weight, k)}
    BY DEF CudaNormByRows
<1> HIDE DEF n, X, grid, in, out, from, ixs
<1>8. /\ \A r \in grid : \A j \in columns : in[r][j] \in Cells(l.input)
      /\ \A r \in grid : \A j \in columns : in[r][j] = Cell(l.input, X[r][j])
    <2>1. RowIndices(l.input.shape, n, grid, X)
        BY <1>1, <1>2
    <2>2. \A r \in grid : \A j \in columns : in[r][j] \in Cells(l.input)
        BY ONLY <1>3, <2>1, ElementsInRows
    <2> QED BY <1>3, <2>2 DEF AlongRows
<1>9. /\ Cells(l.out) = UNION {{out[r][j] : j \in columns} : r \in grid}
      /\ \A r \in grid : \A j \in columns : out[r][j] \in Cells(l.out)
      /\ \A r, s \in grid : \A j, k \in columns : out[r][j] = out[s][k] => r = s /\ j = k
      /\ \A r \in grid : \A j \in columns : out[r][j] = Cell(l.out, X[r][j])
    <2>1. /\ Cells(l.out) = UNION {{out[r][j] : j \in columns} : r \in grid}
          /\ \A r \in grid : \A j \in columns : out[r][j] \in Cells(l.out)
          /\ \A r, s \in grid : \A j, k \in columns :
                out[r][j] = out[s][k] => r = s /\ j = k
        BY ONLY <1>1, <1>2, <1>3, ElementsInRows
    <2> QED BY <1>3, <2>1 DEF AlongRows
<1>10. ASSUME NEW r \in grid, NEW k \in columns
       PROVE  from[out[r][k]] = {in[r][j] : j \in columns} \cup {At(l.weight, k)}
    <2> DEFINE u == X[r][k]
    <2>1. /\ u \in ixs /\ u[Len(u)] = k
          /\ \A j \in columns : With(u, -1, j) = X[r][j]
        <3>1. /\ u \in Indices(l.out.shape)
              /\ Len(u) = Len(l.out.shape) /\ u[Len(l.out.shape)] = k
              /\ \A j \in columns : With(u, -1, j) = X[r][j]
            BY <1>2, ZenonT(60) DEF RowIndices
        <3> QED BY <3>1 DEF ixs
    <2>2. {x \in ixs : Cell(l.out, x) = Cell(l.out, u)} = {u}
        BY <1>1, <2>1, OneIndex DEF ixs
    <2> HIDE DEF From, columns
    <2>3. out[r][k] = Cell(l.out, u) /\ out[r][k] \in Cells(l.out)
        BY <1>9
    <2> HIDE DEF u
    <2>4. from[out[r][k]] = UNION {From(ix) : ix \in {u}}
        BY <1>5, <2>2, <2>3
    <2>5. UNION {From(ix) : ix \in {u}} = From(u)
        OBVIOUS
    <2>6. From(u) = {in[r][j] : j \in columns} \cup {At(l.weight, k)}
        <3>1. \A j \in columns : Cell(l.input, With(u, -1, j)) = in[r][j]
            BY <1>8, <2>1
        <3>2. Cell(l.weight, <<u[Len(u)]>>) = At(l.weight, k)
            BY <1>6, <2>1
        <3>3. From(u) = {Cell(l.input, With(u, -1, j)) : j \in columns}
                        \cup {Cell(l.weight, <<u[Len(u)]>>)}
            BY DEF From
        <3>4. {Cell(l.input, With(u, -1, j)) : j \in columns} = {in[r][j] : j \in columns}
            BY <3>1
        <3> QED BY <3>2, <3>3, <3>4
    <2> QED BY <2>4, <2>5, <2>6
<1>11. DOMAIN from = UNION {{out[r][k] : k \in columns} : r \in grid}
    BY <1>5, <1>9
<1>12. RowsFound(l, n, in, out)
    BY <1>4, <1>8, <1>9 DEF RowsFound
<1>13. CudaNormByRows(l)
    BY <1>7, <1>10, <1>11
<1> QED BY <1>2, <1>6, <1>12, <1>13 DEF n, in, out

\* The rows in and out of a causal softmax, read along its grid.
CausalRows(l, in, out) ==
    LET n == TotalSeqLen(l)
        grid == SoftmaxGrid(l)
        X == SoftmaxIndices(l)
    IN  /\ RowsOf(l.input, l.out.shape) /\ RowsOf(l.out, l.out.shape)
        /\ DistinctElements(l.out) /\ SeqLen(l) <= n
        /\ DOMAIN out = grid
        /\ AlongRows(l.input, n, grid, X, in) /\ AlongRows(l.out, n, grid, X, out)
        /\ \A r \in grid : \A j, k \in 0..(n - 1) : in[r][j] = in[r][k] => j = k

\* Its reference by these rows.
SoftmaxByRows(l, in, out) ==
    LET columns == 0..(TotalSeqLen(l) - 1)
        Seen(r) == {in[r][j] : j \in 0..(ValidLen(l, r[1]) - 1)}
    IN  /\ DOMAIN CausalSoftmaxFrom(l)
               = UNION {{out[r][j] : j \in columns} : r \in SoftmaxGrid(l)}
        /\ \A r \in SoftmaxGrid(l) : \A j \in columns :
              /\ CausalSoftmaxFrom(l)[out[r][j]]
                    = IF j < ValidLen(l, r[1]) THEN Seen(r) ELSE {}
              /\ SoftmaxAllowed(l)[out[r][j]] = Seen(r)

(* The reference of the softmax by its rows: what a row may see of the     *)
(* keys is a prefix of it.                                                 *)
LEMMA SoftmaxReference ==
    ASSUME NEW l, NEW in, NEW out, CausalRows(l, in, out)
    PROVE  /\ TotalSeqLen(l) \in Nat \ {0}
           /\ \A r \in SoftmaxGrid(l) : ValidLen(l, r[1]) \in 1..TotalSeqLen(l)
           /\ RowsFound(l, TotalSeqLen(l), in, out)
           /\ SoftmaxByRows(l, in, out)
<1> DEFINE n == TotalSeqLen(l)
           m == SeqLen(l)
           X == SoftmaxIndices(l)
           grid == SoftmaxGrid(l)
           columns == 0..(n - 1)
           from == CausalSoftmaxFrom(l)
           allowed == SoftmaxAllowed(l)
           ixs == Indices(l.out.shape)
           View(ix) == CausalView(l, ix)
           From(ix) == IF Cell(l.input, ix) \in View(ix) THEN View(ix) ELSE {}
           Seen(r) == {in[r][j] : j \in 0..(ValidLen(l, r[1]) - 1)}
<1>1. /\ RowsOf(l.input, l.out.shape) /\ RowsOf(l.out, l.out.shape)
      /\ DistinctElements(l.out) /\ l.input.shape = l.out.shape /\ m <= n
    BY DEF CausalRows, RowsOf
<1>2. n \in Nat \ {0} /\ m \in Nat /\ RowIndices(l.out.shape, n, grid, X)
    BY <1>1, SoftmaxRowIndices
<1>3. /\ AlongRows(l.input, n, grid, X, in) /\ AlongRows(l.out, n, grid, X, out)
      /\ \A r \in grid : \A j, k \in columns : in[r][j] = in[r][k] => j = k
    BY DEF CausalRows
<1>4. DOMAIN out = grid /\ \A r \in grid : r[1] \in 0..(m - 1)
    BY DEF CausalRows, SoftmaxGrid
<1>5. /\ from = [c \in Cells(l.out) |-> UNION {From(ix) : ix \in {x \in ixs : Cell(l.out, x) = c}}]
      /\ allowed = [c \in Cells(l.out) |-> UNION {View(ix) : ix \in {x \in ixs : Cell(l.out, x) = c}}]
    BY DEF CausalSoftmaxFrom, SoftmaxAllowed, Elementwise
<1>6. \A r : ValidLen(l, r[1]) = n - m + r[1] + 1
    BY DEF ValidLen
<1>7. SoftmaxByRows(l, in, out) <=>
        /\ DOMAIN from = UNION {{out[r][j] : j \in columns} : r \in grid}
        /\ \A r \in grid : \A j \in columns :
              /\ from[out[r][j]] = IF j < ValidLen(l, r[1]) THEN Seen(r) ELSE {}
              /\ allowed[out[r][j]] = Seen(r)
    BY DEF SoftmaxByRows
<1>8. \A ix : View(ix) = {Cell(l.input, With(ix, -1, j)) :
                            j \in {k \in columns : k - ix[Len(ix) - 1] <= n - m}}
    BY DEF CausalView
<1>9. \A r \in grid : \A j \in columns : X[r][j][Len(X[r][j]) - 1] = r[1]
    <2> TAKE r \in grid
    <2> TAKE j \in columns
    <2>1. NDim(l.out) \in {2, 3}
        BY <1>1 DEF RowsOf
    <2>2. CASE NDim(l.out) = 2
        <3>1. X[r][j] = <<r[1], j>>
            BY <2>2 DEF SoftmaxIndices
        <3>2. Len(<<r[1], j>>) - 1 = 1 /\ <<r[1], j>>[1] = r[1]
            OBVIOUS
        <3> QED BY <3>1, <3>2
    <2>3. CASE NDim(l.out) = 3
        <3>1. X[r][j] = <<r[2], r[1], j>>
            BY <2>3 DEF SoftmaxIndices
        <3>2. Len(<<r[2], r[1], j>>) - 1 = 2 /\ <<r[2], r[1], j>>[2] = r[1]
            OBVIOUS
        <3> QED BY <3>1, <3>2
    <2> QED BY <2>1, <2>2, <2>3
<1> HIDE DEF n, m, X, grid, from, allowed, ixs, View
<1>10. \A r \in grid : /\ ValidLen(l, r[1]) \in 1..n
                       /\ \A k \in columns : k - r[1] <= n - m <=> k < ValidLen(l, r[1])
                       /\ {k \in columns : k - r[1] <= n - m} = 0..(ValidLen(l, r[1]) - 1)
                       /\ 0..(ValidLen(l, r[1]) - 1) \subseteq columns
    <2> TAKE r \in grid
    <2> DEFINE v == ValidLen(l, r[1])
               q == r[1]
    <2>1. v = n - m + q + 1 /\ q \in 0..(m - 1)
        BY <1>4, <1>6
    <2> HIDE DEF v, q
    <2>2. v \in 1..n
        BY <1>1, <1>2, <2>1
    <2>3. \A k \in columns : k - q <= n - m <=> k < v
        BY <1>1, <1>2, <2>1
    <2>4. \A k \in Int : k \in columns /\ k < v <=> k \in 0..(v - 1)
        BY <1>2, <2>2
    <2>5. columns \subseteq Int /\ 0..(v - 1) \subseteq Int
        BY <1>2, <2>2
    <2>6. {k \in columns : k - q <= n - m} = 0..(v - 1)
        BY <2>3, <2>4, <2>5
    <2>7. 0..(v - 1) \subseteq columns
        BY <2>4, <2>5
    <2> QED BY <2>2, <2>3, <2>6, <2>7 DEF v, q
<1>11. /\ \A r \in grid : \A j \in columns : in[r][j] \in Cells(l.input)
       /\ \A r \in grid : \A j \in columns : in[r][j] = Cell(l.input, X[r][j])
    <2>1. RowIndices(l.input.shape, n, grid, X)
        BY <1>1, <1>2
    <2>2. \A r \in grid : \A j \in columns : in[r][j] \in Cells(l.input)
        BY ONLY <1>3, <2>1, ElementsInRows
    <2> QED BY <1>3, <2>2 DEF AlongRows
<1>12. /\ Cells(l.out) = UNION {{out[r][j] : j \in columns} : r \in grid}
       /\ \A r \in grid : \A j \in columns : out[r][j] \in Cells(l.out)
       /\ \A r, s \in grid : \A j, k \in columns : out[r][j] = out[s][k] => r = s /\ j = k
       /\ \A r \in grid : \A j \in columns : out[r][j] = Cell(l.out, X[r][j])
    <2>1. /\ Cells(l.out) = UNION {{out[r][j] : j \in columns} : r \in grid}
          /\ \A r \in grid : \A j \in columns : out[r][j] \in Cells(l.out)
          /\ \A r, s \in grid : \A j, k \in columns :
                out[r][j] = out[s][k] => r = s /\ j = k
        BY ONLY <1>1, <1>2, <1>3, ElementsInRows
    <2> QED BY <1>3, <2>1 DEF AlongRows
<1>13. ASSUME NEW r \in grid, NEW k \in columns
       PROVE  /\ from[out[r][k]] = IF k < ValidLen(l, r[1]) THEN Seen(r) ELSE {}
              /\ allowed[out[r][k]] = Seen(r)
    <2> DEFINE u == X[r][k]
               valid == 0..(ValidLen(l, r[1]) - 1)
    <2>1. /\ u \in ixs /\ \A j \in columns : With(u, -1, j) = X[r][j]
        BY <1>2, ZenonT(60) DEF RowIndices, ixs
    <2>2. {x \in ixs : Cell(l.out, x) = Cell(l.out, u)} = {u}
        BY <1>1, <2>1, OneIndex DEF ixs
    <2>3. out[r][k] = Cell(l.out, u) /\ out[r][k] \in Cells(l.out)
        BY <1>12
    <2>4. Cell(l.input, u) = in[r][k]
        BY <1>11
    <2>5. View(u) = Seen(r)
        <3>1. u[Len(u) - 1] = r[1]
            BY <1>9
        <3>2. {j \in columns : j - u[Len(u) - 1] <= n - m} = valid
            BY <1>10, <3>1
        <3>3. View(u) = {Cell(l.input, With(u, -1, j)) : j \in valid}
            BY <1>8, <3>2
        <3>4. \A j \in valid : Cell(l.input, With(u, -1, j)) = in[r][j]
            <4>1. valid \subseteq columns
                BY <1>10
            <4> QED BY <1>11, <2>1, <4>1
        <3> HIDE DEF valid, u
        <3>5. {Cell(l.input, With(u, -1, j)) : j \in valid} = {in[r][j] : j \in valid}
            BY <3>4
        <3> QED BY <3>3, <3>5 DEF valid
    <2>6. in[r][k] \in Seen(r) <=> k < ValidLen(l, r[1])
        <3>1. valid \subseteq columns /\ Seen(r) = {in[r][j] : j \in valid}
            BY <1>10
        <3>2. k \in valid <=> k < ValidLen(l, r[1])
            BY <1>2, <1>10
        <3> HIDE DEF valid, columns, Seen
        <3>3. in[r][k] \in Seen(r) <=> k \in valid
            BY <1>3, <3>1 DEF columns
        <3> QED BY <3>2, <3>3
    <2> HIDE DEF From, columns, u, Seen
    <2>7. from[out[r][k]] = UNION {From(ix) : ix \in {u}}
        BY <1>5, <2>2, <2>3
    <2>8. allowed[out[r][k]] = UNION {View(ix) : ix \in {u}}
        BY <1>5, <2>2, <2>3
    <2>9. UNION {From(ix) : ix \in {u}} = From(u) /\ UNION {View(ix) : ix \in {u}} = View(u)
        OBVIOUS
    <2>10. From(u) = IF k < ValidLen(l, r[1]) THEN Seen(r) ELSE {}
        BY <2>4, <2>5, <2>6 DEF From
    <2> QED BY <2>5, <2>7, <2>8, <2>9, <2>10
<1>14. DOMAIN from = UNION {{out[r][k] : k \in columns} : r \in grid}
    BY <1>5, <1>12
<1>15. RowsFound(l, n, in, out)
    BY <1>4, <1>11, <1>12 DEF RowsFound
<1>16. SoftmaxByRows(l, in, out)
    BY <1>7, <1>13, <1>14
<1> QED BY <1>2, <1>10, <1>15, <1>16 DEF n, grid

(* The rows of the CUDA kernel are such rows.                              *)
LEMMA CudaSoftmaxReference ==
    ASSUME NEW l, CudaSoftmaxOperands(l)
    PROVE  /\ TotalSeqLen(l) \in Nat \ {0}
           /\ \A r \in SoftmaxGrid(l) : ValidLen(l, r[1]) \in 1..TotalSeqLen(l)
           /\ RowsFound(l, TotalSeqLen(l), SoftmaxRows(l, l.input), SoftmaxRows(l, l.out))
           /\ CudaSoftmaxByRows(l)
<1> DEFINE in == SoftmaxRows(l, l.input)
           out == SoftmaxRows(l, l.out)
           n == TotalSeqLen(l)
           grid == SoftmaxGrid(l)
           X == SoftmaxIndices(l)
<1>1. /\ RowTensor(l.input, l.out.shape) /\ RowTensor(l.out, l.out.shape)
      /\ DistinctElements(l.out) /\ SeqLen(l) <= n
    BY DEF CudaSoftmaxOperands, RowOperands
<1>2. RowsOf(l.input, l.out.shape) /\ RowsOf(l.out, l.out.shape)
    BY <1>1 DEF RowTensor, RowsOf
<1>3. /\ AlongRows(l.input, n, grid, X, in) /\ AlongRows(l.out, n, grid, X, out)
      /\ \A r \in grid : \A j, k \in 0..(n - 1) : in[r][j] = in[r][k] => j = k
    BY <1>1, SoftmaxRowCells
<1>4. DOMAIN out = grid
    BY DEF SoftmaxRows
<1>5. CudaSoftmaxByRows(l) <=> SoftmaxByRows(l, in, out)
    BY DEF CudaSoftmaxByRows, SoftmaxByRows
<1> HIDE DEF in, out
<1>6. CausalRows(l, in, out)
    BY <1>1, <1>2, <1>3, <1>4 DEF CausalRows
<1> QED BY <1>5, <1>6, SoftmaxReference DEF in, out

-------------------------------------------------------------------------------
(* A launch of an elementwise kernel gives each thread an element of its   *)
(* own.                                                                    *)
LEMMA ElementwiseLaunched ==
    ASSUME NEW l, CudaElementwiseLaunch(l)
    PROVE  ThreadsApart(l) /\ CudaElementwiseByElements(l)
<1>1. CudaOperands(l)
    BY DEF CudaElementwiseLaunch, CudaOperands
<1>2. /\ CudaElementwiseByElements(l)
      /\ \A i, j \in 0..(Numel(l.out) - 1) :
            CudaElement(l, l.out, 2, i) = CudaElement(l, l.out, 2, j) => i = j
    BY <1>1, CudaElementwiseReference
<1>3. Numel(l.out) \in Nat \ {0}
    <2>1. l.out.shape \in Shapes
        BY <1>1, WellFormedStrides DEF CudaOperands, SameShapes
    <2>2. Len(l.out.shape) \in Nat
        BY <2>1, LenProperties DEF Shapes
    <2>3. Rest(l.out.shape, 0) \in Nat \ {0} /\ Rest(l.out.shape, 0) = Product(l.out.shape)
        BY <2>1, <2>2, RestPositive, RestEnds
    <2> QED BY <2>3 DEF Numel
<1> QED BY <1>2, <1>3 DEF CudaElementwiseLaunch, ThreadsApart

(* A launch of a row kernel gives each block a row of its own.             *)
LEMMA NormLaunched ==
    ASSUME NEW l, CudaNormLaunch(l)
    PROVE  NormRowsApart(l) /\ CudaNormByRows(l)
<1>1. CudaNormOperands(l)
    BY DEF CudaNormLaunch, CudaRowLaunch, CudaNormOperands, RowOperands
<1>2. /\ NormDim(l.out) \in Nat \ {0} /\ CudaNormByRows(l)
      /\ RowsFound(l, NormDim(l.out), NormRows(l, l.input), NormRows(l, l.out))
      /\ \A k \in 0..(NormDim(l.out) - 1) : At(l.weight, k) \in Cells(l.weight)
    BY <1>1, CudaNormReference
<1>3. RowsApart(l, NormDim(l.out), NormRows(l, l.input), NormRows(l, l.out))
    BY <1>2 DEF CudaNormLaunch, CudaRowLaunch, RowsApart, RowsFound
<1> QED BY <1>2, <1>3 DEF CudaNormLaunch, NormRowsApart

(* And so does a launch of the softmax, whose rows are of valid length.    *)
LEMMA SoftmaxLaunched ==
    ASSUME NEW l, CudaSoftmaxLaunch(l)
    PROVE  SoftmaxRowsApart(l) /\ CudaSoftmaxByRows(l)
<1>1. CudaSoftmaxOperands(l)
    BY DEF CudaSoftmaxLaunch, CudaRowLaunch, CudaSoftmaxOperands, RowOperands
<1>2. /\ TotalSeqLen(l) \in Nat \ {0} /\ CudaSoftmaxByRows(l)
      /\ RowsFound(l, TotalSeqLen(l), SoftmaxRows(l, l.input), SoftmaxRows(l, l.out))
      /\ \A r \in SoftmaxGrid(l) : ValidLen(l, r[1]) \in 1..TotalSeqLen(l)
    BY <1>1, CudaSoftmaxReference
<1>3. RowsApart(l, TotalSeqLen(l), SoftmaxRows(l, l.input), SoftmaxRows(l, l.out))
    BY <1>2 DEF CudaSoftmaxLaunch, CudaRowLaunch, RowsApart, RowsFound
<1> QED BY <1>2, <1>3 DEF CudaSoftmaxLaunch, SoftmaxRowsApart

-------------------------------------------------------------------------------
(* A launch of one of these kernels.                                       *)
CudaLaunch(l) ==
    \/ ProgramOf(l) = CudaElementwise(l) /\ CudaElementwiseLaunch(l)
    \/ ProgramOf(l) = CudaRmsNorm(l) /\ CudaNormLaunch(l)
    \/ ProgramOf(l) = CudaCausalSoftmax(l) /\ CudaSoftmaxLaunch(l)

(* Each of them is ordered by its barriers, confined to its operands and   *)
(* computes what its definition names.                                     *)
LEMMA CudaPrograms ==
    ASSUME NEW l, CudaLaunch(l)
    PROVE  /\ Confined(ProgramOf(l))
           /\ \E before, least, most : /\ OrderedBy(ProgramOf(l), before)
                                       /\ Computes(ProgramOf(l), before, least, most)
<1>1. CASE ProgramOf(l) = CudaElementwise(l) /\ CudaElementwiseLaunch(l)
    <2>0. ThreadsApart(l) /\ CudaElementwiseByElements(l)
        BY <1>1, ElementwiseLaunched
    <2>1. /\ Confined(CudaElementwise(l))
          /\ OrderedBy(CudaElementwise(l), Unordered(l))
          /\ Computes(CudaElementwise(l), Unordered(l), ElementValues(l), ElementValues(l))
        BY <2>0, ElementwiseRuns
    <2> QED BY <1>1, <2>1
<1>2. CASE ProgramOf(l) = CudaRmsNorm(l) /\ CudaNormLaunch(l)
    <2>0. NormRowsApart(l) /\ CudaNormByRows(l)
        BY <1>2, NormLaunched
    <2> DEFINE grid == NormGrid(l)
               F == NormF(l)
               p == CudaRmsNorm(l)
               val == NormVals(l)
    <2>1. NormPlaces(l)
        BY <2>0, NormCells
    <2>2. Confined(p)
        BY <2>1, NormConfined
    <2>3. p.work = BlocksOf(grid, l.block, F)
        BY NormMemory
    <2>4. Phased(grid, 3, F) /\ Disjoint(grid, F)
        BY <2>1, NormPhased, NormDisjoint
    <2>5. EachComputes(p, grid, F, val) /\ EndsRight(p, grid, F, val)
        BY <2>0, <2>1, NormComputes
    <2> HIDE DEF p, grid, F, val
    <2>6. OrderedBy(p, BlockBefore(grid, F))
        BY <2>3, <2>4, BarriersOrder
    <2>7. Computes(p, BlockBefore(grid, F), BlockValues(grid, F, val), BlockValues(grid, F, val))
        BY <2>3, <2>4, <2>5, BlocksCompute
    <2>8. ProgramOf(l) = p
        BY <1>2 DEF p
    <2> QED BY <2>2, <2>6, <2>7, <2>8
<1>3. CASE ProgramOf(l) = CudaCausalSoftmax(l) /\ CudaSoftmaxLaunch(l)
    <2>0. SoftmaxRowsApart(l) /\ CudaSoftmaxByRows(l)
        BY <1>3, SoftmaxLaunched
    <2> DEFINE grid == SoftmaxGrid(l)
               F == SoftmaxF(l)
               p == CudaCausalSoftmax(l)
               val == SoftmaxVals(l)
    <2>1. SoftmaxPlaces(l)
        BY <2>0, SoftmaxCells
    <2>2. Confined(p)
        BY <2>1, SoftmaxConfined
    <2>3. p.work = BlocksOf(grid, l.block, F)
        BY SoftmaxMemory
    <2>4. Phased(grid, 6, F) /\ Disjoint(grid, F)
        BY <2>1, SoftmaxPhased, SoftmaxDisjoint
    <2>5. EachComputes(p, grid, F, val) /\ EndsRight(p, grid, F, val)
        BY <2>0, <2>1, SoftmaxComputes
    <2> HIDE DEF p, grid, F, val
    <2>6. OrderedBy(p, BlockBefore(grid, F))
        BY <2>3, <2>4, BarriersOrder
    <2>7. Computes(p, BlockBefore(grid, F), BlockValues(grid, F, val), BlockValues(grid, F, val))
        BY <2>3, <2>4, <2>5, BlocksCompute
    <2>8. ProgramOf(l) = p
        BY <1>3 DEF p
    <2> QED BY <2>2, <2>6, <2>7, <2>8
<1> QED BY <1>1, <1>2, <1>3 DEF CudaLaunch

(* On any number of blocks of any size, the CUDA kernels add, swiglu,      *)
(* rms_norm and causal_softmax touch nothing outside their operands and    *)
(* the memory they declare.                                                *)
THEOREM CudaLaunchesStayTyped ==
    ASSUME \A l \in Launches : CudaLaunch(l)
    PROVE  Spec => [](TypeOK /\ InBounds)
<1>1. \A l \in Launches : Confined(ProgramOf(l))
    BY CudaPrograms
<1> QED BY <1>1, ConfinedLaunchesStayTyped

(* No two of their threads meet in a cell: the __syncthreads between the   *)
(* phases of a block are enough.                                           *)
THEOREM CudaLaunchesDoNotRace ==
    ASSUME \A l \in Launches : CudaLaunch(l)
    PROVE  Spec => []NoRace
<1>1. \A l \in Launches : \E before : OrderedBy(ProgramOf(l), before)
    BY CudaPrograms
<1> QED BY <1>1, OrderedLaunchesDoNotRace

(* Whatever the schedule, each element ends as a function of the inputs    *)
(* its operator's definition names: its operands, its row and weight, or   *)
(* the columns of its row that the causal mask leaves.                     *)
THEOREM CudaLaunchesComputeTheirResults ==
    ASSUME \A l \in Launches : CudaLaunch(l)
    PROVE  Spec => []ResultsComplete
<1>1. \A l \in Launches : \E before, least, most :
        /\ OrderedBy(ProgramOf(l), before)
        /\ Computes(ProgramOf(l), before, least, most)
    BY CudaPrograms
<1> QED BY <1>1, OrderedLaunchesComputeOneResult

-------------------------------------------------------------------------------
(* The elementwise kernels of the CPU: items that share no written cell.   *)

\* Items that share no cell one of them writes, and read inputs only.
Independent(p) ==
    /\ \A i, j \in DOMAIN p.work : i # j => ~Conflict(p.work[i], p.work[j])
    /\ \A i \in DOMAIN p.work : /\ p.work[i].after \subseteq DOMAIN p.work
                                /\ Touches(p.work[i]) \subseteq p.alloc
                                /\ Reads(p.work[i]) \subseteq p.inputs

\* Each result is written by an item that computes it from what it should.
Answers(p) ==
    \A c \in DOMAIN p.required :
        \E i \in DOMAIN p.work :
            /\ c \in Writes(p.work[i])
            /\ p.required[c] \subseteq p.work[i].flow[c]
            /\ p.work[i].flow[c] \cup UNION p.work[i].yields \subseteq p.allowed[c]

\* What the theorems about launches ask of a program.
RunsRight(p) ==
    /\ Confined(p)
    /\ \E before, least, most : OrderedBy(p, before) /\ Computes(p, before, least, most)

(* Items that do not depend on each other need no order.                   *)
LEMMA IndependentItems ==
    ASSUME NEW p, Independent(p), Answers(p)
    PROVE  RunsRight(p)
<1> DEFINE W == DOMAIN p.work
           before == [i \in W |-> {}]
           least == [i \in W |-> p.work[i].flow]
           most == [i \in W |-> [c \in Writes(p.work[i]) |->
                                    p.work[i].flow[c] \cup UNION p.work[i].yields]]
           Seen(value, i, c) == UNION {ValueAfter(p, before, value, before[i], r) :
                                          r \in p.work[i].flow[c] \cap p.alloc}
<1>1. Confined(p)
    BY DEF Independent, Confined, Touches
<1>2. OrderedBy(p, before)
    BY DEF Independent, OrderedBy
<1>3. ASSUME NEW i \in W, NEW c \in Writes(p.work[i])
      PROVE  /\ p.work[i].flow[c] \subseteq p.inputs \cap p.alloc
             /\ \A value, r : ValueAfter(p, before, value, before[i], r) = {r} \cap p.inputs
    <2>1. p.work[i].flow[c] \subseteq Reads(p.work[i])
        BY DEF Reads, Writes, Range
    <2>2. Reads(p.work[i]) \subseteq p.inputs \cap p.alloc
        BY DEF Independent, Touches
    <2>3. \A value, r : ValueAfter(p, before, value, before[i], r) = {r} \cap p.inputs
        BY DEF ValueAfter
    <2> QED BY <2>1, <2>2, <2>3
<1>4. ASSUME NEW i \in W, NEW c \in Writes(p.work[i]), NEW value
      PROVE  Seen(value, i, c) = p.work[i].flow[c]
    <2> HIDE DEF before
    <2>1. \A r \in p.work[i].flow[c] : ValueAfter(p, before, value, before[i], r) = {r}
        <3> TAKE r \in p.work[i].flow[c]
        <3>1. r \in p.inputs /\ ValueAfter(p, before, value, before[i], r) = {r} \cap p.inputs
            BY <1>3
        <3>2. {r} \cap p.inputs = {r}
            BY <3>1
        <3> QED BY <3>1, <3>2
    <2>2. p.work[i].flow[c] \cap p.alloc = p.work[i].flow[c]
        BY <1>3
    <2> QED BY <2>1, <2>2 DEF Seen
<1>5. ASSUME NEW i \in W, NEW c \in Writes(p.work[i])
      PROVE  /\ least[i][c] = p.work[i].flow[c]
             /\ most[i][c] = p.work[i].flow[c] \cup UNION p.work[i].yields
    BY DEF Writes
<1>6. ASSUME NEW c \in DOMAIN p.required
      PROVE  /\ c \in p.alloc
             /\ p.required[c] \subseteq ValueAfter(p, before, least, W, c)
             /\ ValueAfter(p, before, most, W, c) \subseteq p.allowed[c]
    <2>1. PICK i \in W : /\ c \in Writes(p.work[i])
                         /\ p.required[c] \subseteq p.work[i].flow[c]
                         /\ p.work[i].flow[c] \cup UNION p.work[i].yields \subseteq p.allowed[c]
        BY DEF Answers
    <2>2. \A k \in W : c \in Writes(p.work[k]) => k = i
        BY <2>1 DEF Independent, Conflict
    <2>3. LastIn(p, before, W, c, i)
        BY <2>1, <2>2 DEF LastIn
    <2>4. \A value : ValueAfter(p, before, value, W, c) = value[i][c]
        BY <2>3, LastWrite
    <2>5. c \in p.alloc
        BY <2>1 DEF Independent, Touches
    <2> HIDE DEF before, least, most
    <2> QED BY <2>1, <2>4, <2>5, <1>5
<1>7. Computes(p, before, least, most)
    <2> HIDE DEF before, least, most
    <2> HIDE DEF Seen
    <2>1. ASSUME NEW i \in W, NEW c \in Writes(p.work[i])
          PROVE  /\ least[i][c] \subseteq Seen(least, i, c)
                 /\ Seen(most, i, c) \cup UNION p.work[i].yields \subseteq most[i][c]
        <3>1. Seen(least, i, c) = p.work[i].flow[c] /\ Seen(most, i, c) = p.work[i].flow[c]
            BY <1>4
        <3>2. /\ least[i][c] = p.work[i].flow[c]
              /\ most[i][c] = p.work[i].flow[c] \cup UNION p.work[i].yields
            BY <1>5
        <3> QED BY <3>1, <3>2
    <2> QED BY <2>1, <1>6 DEF Computes, Seen
<1> QED BY <1>1, <1>2, <1>7 DEF RunsRight

\* Item i reads the inputs reads[i] and computes the one cell writes[i].
EachItsOwn(p, G, reads, writes) ==
    /\ DOMAIN p.work = G
    /\ \A i \in G :
          /\ p.work[i] = Step(reads[i], {writes[i]}, {})
          /\ reads[i] \subseteq p.inputs \cap p.alloc /\ writes[i] \in p.alloc
    /\ \A i, j \in G : writes[i] = writes[j] \/ writes[i] \in reads[j] => i = j
    /\ \A c \in DOMAIN p.required : \E i \in G : c = writes[i]
    /\ \A i \in G : p.required[writes[i]] = reads[i] /\ p.allowed[writes[i]] = reads[i]

(* Such items do not depend on each other, in place or not.                *)
LEMMA ItemsOfTheirOwn ==
    ASSUME NEW p, NEW G, NEW reads, NEW writes, EachItsOwn(p, G, reads, writes)
    PROVE  RunsRight(p)
<1>1. ASSUME NEW i \in G
      PROVE  /\ Writes(p.work[i]) = {writes[i]} /\ Reads(p.work[i]) \subseteq reads[i]
             /\ p.work[i].flow[writes[i]] = reads[i]
             /\ p.work[i].yields = {{}} /\ p.work[i].after = {}
    <2> DEFINE item == Then(reads[i], {writes[i]})
    <2>1. p.work[i] = item
        BY DEF EachItsOwn, Then
    <2>2. item.after = {}
        BY DEF Then, Step, Item
    <2>3. /\ Writes(item) = {writes[i]} /\ Reads(item) \subseteq reads[i]
          /\ \A c \in {writes[i]} : item.flow[c] = reads[i]
          /\ item.yields = {{}}
        BY DEF Then, Step, Item, Writes, Reads, Range
    <2> HIDE DEF item
    <2> QED BY <2>1, <2>2, <2>3
<1>2. ASSUME NEW i \in G, NEW j \in G, i # j
      PROVE  ~Conflict(p.work[i], p.work[j])
    <2>1. writes[i] # writes[j] /\ writes[i] \notin reads[j] /\ writes[j] \notin reads[i]
        BY <1>2 DEF EachItsOwn
    <2> QED BY <1>1, <2>1 DEF Conflict
<1>3. Independent(p)
    <2>1. DOMAIN p.work = G
        BY DEF EachItsOwn
    <2>2. ASSUME NEW i \in G
          PROVE  /\ Touches(p.work[i]) \subseteq p.alloc /\ Reads(p.work[i]) \subseteq p.inputs
                 /\ p.work[i].after \subseteq G
        <3>1. reads[i] \subseteq p.inputs \cap p.alloc /\ writes[i] \in p.alloc
            BY DEF EachItsOwn
        <3> QED BY <1>1, <3>1 DEF Touches
    <2> QED BY <1>2, <2>1, <2>2 DEF Independent
<1>4. Answers(p)
    <2> SUFFICES ASSUME NEW c \in DOMAIN p.required
                 PROVE  \E i \in DOMAIN p.work :
                           /\ c \in Writes(p.work[i])
                           /\ p.required[c] \subseteq p.work[i].flow[c]
                           /\ p.work[i].flow[c] \cup UNION p.work[i].yields \subseteq p.allowed[c]
        BY DEF Answers
    <2>1. PICK i \in G : c = writes[i]
        BY DEF EachItsOwn
    <2>2. /\ p.required[c] = reads[i] /\ p.allowed[c] = reads[i] /\ DOMAIN p.work = G
        BY <2>1 DEF EachItsOwn
    <2>3. UNION {{}} = {}
        OBVIOUS
    <2> QED BY <1>1, <2>1, <2>2, <2>3
<1> QED BY <1>3, <1>4, IndependentItems

-------------------------------------------------------------------------------
(* The iterations of an elementwise loop are independent, in place too.    *)
LEMMA ElementwiseLoops ==
    ASSUME NEW ins, NEW out, CpuElementwiseLaunch(ins, out)
    PROVE  RunsRight(ElementwiseProgram(ins, out, ElementwiseWork(ins, out)))
<1> SUFFICES ASSUME SameShapes(ins, out), DistinctElements(out),
                    \A t \in ins : InPlaceOrApart(t, out)
             PROVE  RunsRight(ElementwiseProgram(ins, out, ElementwiseWork(ins, out)))
    BY DEF CpuElementwiseLaunch
<1> DEFINE p == ElementwiseProgram(ins, out, ElementwiseWork(ins, out))
           from == ElementwiseFrom(ins, out)
           G == 0..(Numel(out) - 1)
           reads == [i \in G |-> {Element(t, i) : t \in ins}]
           writes == [i \in G |-> Element(out, i)]
<1>1. /\ DOMAIN p.work = G /\ p.required = from /\ p.allowed = from
      /\ p.inputs = UNION {Cells(t) : t \in ins}
      /\ p.alloc = UNION {Cells(t) : t \in ins \cup {out}}
    BY DEF ElementwiseProgram, ElementwiseWork, Program
<1>2. ASSUME NEW i \in G PROVE p.work[i] = Step(reads[i], {writes[i]}, {})
    BY DEF ElementwiseProgram, ElementwiseWork, Program
<1>3. Positions(out.shape) = G
    BY DEF Positions, Numel
<1>4. /\ DOMAIN from = Cells(out)
      /\ \A i \in G : /\ Element(out, i) \in Cells(out)
                      /\ \A t \in ins : Element(t, i) \in Cells(t)
                      /\ from[Element(out, i)] = {Element(t, i) : t \in ins}
    <2>1. \A i \in Positions(out.shape) :
              /\ Element(out, i) \in Cells(out)
              /\ \A t \in ins : Element(t, i) \in Cells(t)
              /\ from[Element(out, i)] = {Element(t, i) : t \in ins}
        BY ElementwiseByElements
    <2>2. DOMAIN from = Cells(out)
        BY ElementwiseByElements
    <2> QED BY <1>3, <2>1, <2>2
<1>5. WellFormed(out) /\ \A t \in ins : WellFormed(t) /\ t.shape = out.shape
    BY DEF SameShapes
<1>6. /\ Cells(out) = {Element(out, i) : i \in G}
      /\ \A i, j \in G : Element(out, i) = Element(out, j) => i = j
    BY <1>3, <1>5, TensorElements
<1>7. ASSUME NEW i \in G, NEW j \in G, NEW t \in ins, Element(out, i) = Element(t, j)
      PROVE  i = j
    <2>1. t.buffer = out.buffer
        BY <1>7 DEF Element, At
    <2>2. t.base = out.base /\ t.strides = out.strides /\ t.shape = out.shape
        BY <1>5, <2>1 DEF InPlaceOrApart
    <2>3. Element(t, j) = Element(out, j)
        BY <2>1, <2>2 DEF Element, At, IsContiguous, IsMergeable, NDim, Stride
    <2> QED BY <1>6, <1>7, <2>3
<1>8. EachItsOwn(p, G, reads, writes)
    <2> HIDE DEF p, from
    <2>1. \A i \in G : reads[i] = {Element(t, i) : t \in ins} /\ writes[i] = Element(out, i)
        OBVIOUS
    <2> HIDE DEF reads, writes, G
    <2>2. \A i \in G : reads[i] \subseteq p.inputs \cap p.alloc /\ writes[i] \in p.alloc
        BY <1>1, <1>4, <2>1
    <2>3. \A i, j \in G : writes[i] = writes[j] \/ writes[i] \in reads[j] => i = j
        BY <1>6, <1>7, <2>1
    <2>4. \A c \in DOMAIN p.required : \E i \in G : c = writes[i]
        BY <1>1, <1>4, <1>6, <2>1
    <2>5. \A i \in G : p.required[writes[i]] = reads[i] /\ p.allowed[writes[i]] = reads[i]
        BY <1>1, <1>4, <2>1
    <2> QED BY <1>1, <1>2, <2>2, <2>3, <2>4, <2>5 DEF EachItsOwn
<1> QED BY <1>8, ItemsOfTheirOwn

-------------------------------------------------------------------------------
(* A loop is one item; its steps take one memory to the next.              *)

\* The steps of a loop that touch the cells of A only and draw nothing.
ItemsOn(A) == {Item(f, {}) : f \in UNION {[W -> SUBSET A] : W \in SUBSET A}}
StepsOn(A) == Seq(ItemsOn(A))

\* Memory once an item is done.
MemoryAfter(item, m) ==
    [c \in DOMAIN m |-> IF c \in Writes(item) THEN UNION {m[r] : r \in item.flow[c]} ELSE m[c]]

\* M[i] is the memory after the first i steps.
Trace(steps, M) ==
    /\ DOMAIN M = 0..Len(steps)
    /\ \A i \in 1..Len(steps) : M[i] = MemoryAfter(steps[i], M[i - 1])

\* From a memory of P the steps lead to one of Q.
Leads(steps, P, Q) == \A M : Trace(steps, M) /\ M[0] \in P => M[Len(steps)] \in Q

(* A step leads where its effect is.                                       *)
LEMMA OneStep ==
    ASSUME NEW S, NEW item \in S, NEW P, NEW Q, \A m \in P : MemoryAfter(item, m) \in Q
    PROVE  <<item>> \in Seq(S) /\ Leads(<<item>>, P, Q)
<1>1. <<item>> \in Seq(S) /\ Len(<<item>>) = 1 /\ <<item>>[1] = item
    OBVIOUS
<1>2. ASSUME NEW M, Trace(<<item>>, M), M[0] \in P
      PROVE  M[1] \in Q
    <2>1. M[1] = MemoryAfter(<<item>>[1], M[1 - 1])
        BY <1>1, <1>2 DEF Trace
    <2> QED BY <1>1, <1>2, <2>1
<1> QED BY <1>1, <1>2 DEF Leads

(* Steps in sequence.                                                      *)
LEMMA InSequence ==
    ASSUME NEW S, NEW s \in Seq(S), NEW t \in Seq(S), NEW P, NEW Q, NEW R,
           Leads(s, P, Q), Leads(t, Q, R)
    PROVE  s \o t \in Seq(S) /\ Leads(s \o t, P, R)
<1> DEFINE m == Len(s)
           n == Len(t)
<1>1. m \in Nat /\ n \in Nat
    BY LenProperties
<1>2. PICK u : Extends(S, s, m, t, n, u)
    BY Extended
<1> HIDE DEF m, n
<1>3. /\ u = s \o t /\ u \in Seq(S) /\ Len(u) = m + n
      /\ \A i \in 1..m : u[i] = s[i]
      /\ \A i \in 1..n : u[m + i] = t[i]
    BY <1>2 DEF Extends
<1>4. ASSUME NEW M, Trace(u, M), M[0] \in P
      PROVE  M[m + n] \in R
    <2> DEFINE L == [i \in 0..m |-> M[i]]
               N == [i \in 0..n |-> M[m + i]]
    <2>1. \A i \in 1..(m + n) : M[i] = MemoryAfter(u[i], M[i - 1])
        BY <1>3, <1>4 DEF Trace
    <2>2. Trace(s, L)
        <3>1. ASSUME NEW i \in 1..m
              PROVE  L[i] = MemoryAfter(s[i], L[i - 1])
            <4>1. i \in 1..(m + n) /\ i \in 0..m /\ i - 1 \in 0..m
                BY <1>1
            <4>2. L[i] = M[i] /\ L[i - 1] = M[i - 1]
                BY <4>1
            <4> QED BY <1>3, <2>1, <4>1, <4>2
        <3>2. DOMAIN L = 0..m
            OBVIOUS
        <3> HIDE DEF L
        <3> QED BY <3>1, <3>2 DEF Trace, m
    <2>3. Trace(t, N)
        <3>1. ASSUME NEW i \in 1..n
              PROVE  N[i] = MemoryAfter(t[i], N[i - 1])
            <4> DEFINE j == m + i
            <4>1. j \in 1..(m + n) /\ i \in 0..n /\ i - 1 \in 0..n /\ j - 1 = m + (i - 1)
                BY <1>1
            <4>2. N[i] = M[j] /\ N[i - 1] = M[j - 1]
                BY <4>1
            <4>3. u[j] = t[i]
                BY <1>3
            <4> HIDE DEF j, N
            <4>4. M[j] = MemoryAfter(u[j], M[j - 1])
                BY <2>1, <4>1
            <4> QED BY <4>2, <4>3, <4>4
        <3>2. DOMAIN N = 0..n
            OBVIOUS
        <3> HIDE DEF N
        <3> QED BY <3>1, <3>2 DEF Trace, n
    <2>4. L[0] = M[0] /\ L[m] = M[m] /\ N[0] = M[m] /\ N[n] = M[m + n]
        BY <1>1
    <2> HIDE DEF L, N
    <2>5. M[m] \in Q
        BY <1>4, <2>2, <2>4 DEF Leads, m
    <2> QED BY <2>3, <2>4, <2>5 DEF Leads, n
<1>5. Leads(u, P, R)
    BY <1>3, <1>4 DEF Leads
<1> QED BY <1>3, <1>5

\* What FlattenSeq appends, one sequence after the other.
Flattens(body, n, f) ==
    \A i \in 1..n : f[i] = IF i = 1 THEN body[i] ELSE f[i - 1] \o body[i]

(* FlattenSeq appends them all.                                            *)
LEMMA Flattened ==
    ASSUME NEW n \in Nat \ {0}, NEW body, DOMAIN body = 1..n, Len(body) = n
    PROVE  \E f : Flattens(body, n, f) /\ FlattenSeq(body) = f[n]
<1> DEFINE Next1(f, i) == IF i = 1 THEN body[i] ELSE f[i - 1] \o body[i]
           Good(k, f) == f = [i \in 1..k |-> Next1(f, i)]
           K == {k \in Nat : \E f : Good(k, f)}
<1>1. 0 \in K
    <2> DEFINE f == [i \in 1..0 |-> body]
    <2>1. f = [i \in 1..0 |-> Next1(f, i)]
        OBVIOUS
    <2> HIDE DEF f
    <2> QED BY <2>1
<1>2. ASSUME NEW k \in 0..(n - 1), k \in K PROVE k + 1 \in K
    <2>1. PICK f : Good(k, f)
        BY <1>2
    <2> DEFINE g == [i \in 1..(k + 1) |-> Next1(f, i)]
    <2>2. \A i \in 1..k : g[i] = f[i]
        <3> HIDE DEF Next1
        <3>1. \A i \in 1..k : f[i] = Next1(f, i)
            BY <2>1
        <3>2. \A i \in 1..k : i \in 1..(k + 1)
            OBVIOUS
        <3> QED BY <3>1, <3>2
    <2>3. \A i \in 1..(k + 1) : i # 1 => i - 1 \in 1..k
        OBVIOUS
    <2>4. \A i \in 1..(k + 1) : Next1(g, i) = Next1(f, i)
        <3> HIDE DEF g
        <3> QED BY <2>2, <2>3
    <2>5. Good(k + 1, g)
        <3>1. g = [i \in 1..(k + 1) |-> Next1(f, i)]
            OBVIOUS
        <3> HIDE DEF g, Next1
        <3> QED BY <2>4, <3>1
    <2> HIDE DEF g, Good
    <2>6. k + 1 \in Nat
        OBVIOUS
    <2> QED BY <2>5, <2>6
<1> HIDE DEF K
<1>3. 0..n \subseteq K
    BY <1>1, <1>2, UpTo
<1>4. \E f : f = [i \in 1..n |-> IF i = 1 THEN body[i] ELSE f[i - 1] \o body[i]]
    <2>1. n \in K
        BY <1>3
    <2> QED BY <2>1 DEF K
<1> DEFINE flatten == CHOOSE f : f = [i \in 1..n |-> IF i = 1 THEN body[i] ELSE f[i - 1] \o body[i]]
<1>5. FlattenSeq(body) = flatten[n]
    BY DEF FlattenSeq
<1>6. flatten = [i \in 1..n |-> IF i = 1 THEN body[i] ELSE flatten[i - 1] \o body[i]]
    BY <1>4
<1> HIDE DEF flatten
<1>7. Flattens(body, n, flatten)
    BY <1>6 DEF Flattens
<1> QED BY <1>5, <1>7

(* A loop whose passes lead from P[k - 1] to P[k].                         *)
LEMMA InLoop ==
    ASSUME NEW S, NEW n \in Nat, NEW body \in [1..n -> Seq(S)], NEW P,
           \A k \in 1..n : Leads(body[k], P[k - 1], P[k])
    PROVE  FlattenSeq(body) \in Seq(S) /\ Leads(FlattenSeq(body), P[0], P[n])
<1>1. DOMAIN body = 1..n /\ Len(body) = n /\ body \in Seq(Seq(S))
    <2>1. body \in Seq(Seq(S))
        BY IsASeq
    <2>2. DOMAIN body = 1..n /\ DOMAIN body = 1..Len(body) /\ Len(body) \in Nat
        BY <2>1, LenProperties
    <2> QED BY <2>1, <2>2
<1>2. CASE n = 0
    <2>1. FlattenSeq(body) = body /\ Len(body) = 0
        BY <1>1, <1>2 DEF FlattenSeq
    <2>2. body \in Seq(S)
        BY <1>2, IsASeq
    <2>3. Leads(body, P[0], P[0])
        BY <2>1 DEF Leads
    <2> QED BY <1>2, <2>1, <2>2, <2>3
<1>3. CASE n # 0
    <2>1. n \in Nat \ {0}
        BY <1>3
    <2>2. PICK f : Flattens(body, n, f) /\ FlattenSeq(body) = f[n]
        BY ONLY <1>1, <2>1, Flattened
    <2> DEFINE K == {k \in Nat : k = 0 \/ (f[k] \in Seq(S) /\ Leads(f[k], P[0], P[k]))}
    <2>3. 0 \in K
        OBVIOUS
    <2>4. ASSUME NEW k \in 0..(n - 1), k \in K PROVE k + 1 \in K
        <3>1. k + 1 \in 1..n /\ k + 1 \in Nat /\ (k + 1) - 1 = k /\ (k + 1 = 1 <=> k = 0)
            OBVIOUS
        <3>2. f[k + 1] = IF k = 0 THEN body[k + 1] ELSE f[k] \o body[k + 1]
            BY <2>2, <3>1 DEF Flattens
        <3>3. body[k + 1] \in Seq(S) /\ Leads(body[k + 1], P[k], P[k + 1])
            BY <3>1
        <3>4. CASE k = 0
            BY <3>1, <3>2, <3>3, <3>4
        <3>5. CASE k # 0
            <4>1. f[k] \in Seq(S) /\ Leads(f[k], P[0], P[k])
                BY <2>4, <3>5
            <4>2. /\ f[k] \o body[k + 1] \in Seq(S)
                  /\ Leads(f[k] \o body[k + 1], P[0], P[k + 1])
                BY ONLY <3>3, <4>1, InSequence
            <4> QED BY <3>1, <3>2, <3>5, <4>2
        <3> QED BY <3>4, <3>5
    <2> HIDE DEF K
    <2>5. 0..n \subseteq K
        BY <2>3, <2>4, UpTo
    <2>6. n \in K
        BY <2>5
    <2> QED BY <1>3, <2>2, <2>6 DEF K
<1> QED BY <1>2, <1>3

-------------------------------------------------------------------------------
(* A program of one loop, run to its end.                                  *)

\* The memory a program starts with.
FirstMemory(p) == [c \in p.alloc |-> IF c \in p.inputs THEN {c} ELSE {}]

(* Steps run one after the other leave a memory after each.                *)
LEMMA TraceExists ==
    ASSUME NEW S, NEW steps \in Seq(S), NEW first
    PROVE  \E M : Trace(steps, M) /\ M[0] = first
<1> DEFINE n == Len(steps)
           Good(k, M) == /\ DOMAIN M = 0..k /\ M[0] = first
                         /\ \A i \in 1..k : M[i] = MemoryAfter(steps[i], M[i - 1])
           K == {k \in Nat : \E M : Good(k, M)}
<1>1. n \in Nat
    BY LenProperties
<1>2. 0 \in K
    <2> DEFINE M == [i \in 0..0 |-> first]
    <2>1. DOMAIN M = 0..0 /\ M[0] = first
        OBVIOUS
    <2> HIDE DEF M
    <2> QED BY <2>1
<1> HIDE DEF n
<1>3. ASSUME NEW k \in 0..(n - 1), k \in K PROVE k + 1 \in K
    <2>1. PICK M : Good(k, M)
        BY <1>3
    <2> DEFINE N == [i \in 0..(k + 1) |-> IF i = k + 1 THEN MemoryAfter(steps[k + 1], M[k]) ELSE M[i]]
    <2>2. /\ DOMAIN N = 0..(k + 1) /\ N[k + 1] = MemoryAfter(steps[k + 1], M[k])
          /\ \A i \in 0..k : N[i] = M[i]
        BY <1>1
    <2> HIDE DEF N
    <2>3. \A i \in 1..(k + 1) : N[i] = MemoryAfter(steps[i], N[i - 1])
        <3> TAKE i \in 1..(k + 1)
        <3>1. CASE i = k + 1
            <4>1. (k + 1) - 1 = k /\ k \in 0..k
                OBVIOUS
            <4> QED BY <2>2, <3>1, <4>1
        <3>2. CASE i # k + 1
            <4>1. i \in 1..k /\ i \in 0..k /\ i - 1 \in 0..k
                BY <3>2
            <4> QED BY <2>1, <2>2, <4>1
        <3> QED BY <3>1, <3>2
    <2>4. N[0] = first
        BY <2>1, <2>2
    <2>5. Good(k + 1, N)
        BY <2>2, <2>3, <2>4
    <2>6. k + 1 \in Nat
        OBVIOUS
    <2> HIDE DEF Good
    <2> QED BY <2>5, <2>6
<1> HIDE DEF K
<1>4. 0..n \subseteq K
    BY <1>1, <1>2, <1>3, UpTo
<1>5. n \in K
    BY <1>1, <1>4
<1> QED BY <1>5 DEF K, Trace, n

(* The steps of a loop do what the items of its program do.                *)
LEMMA SerialItems ==
    ASSUME NEW A, NEW steps \in StepsOn(A), NEW i \in 1..Len(steps)
    PROVE  /\ DOMAIN Serial(steps) = 1..Len(steps)
           /\ Serial(steps)[i].after = {i - 1} \ {0}
           /\ Serial(steps)[i].flow = steps[i].flow
           /\ UNION Serial(steps)[i].yields = {}
           /\ Writes(Serial(steps)[i]) = Writes(steps[i])
           /\ Writes(steps[i]) \subseteq A /\ Reads(Serial(steps)[i]) \subseteq A
           /\ \A c \in Writes(steps[i]) : steps[i].flow[c] \subseteq A
<1>1. DOMAIN steps = 1..Len(steps) /\ steps[i] \in ItemsOn(A)
    BY LenProperties, ElementOfSeq DEF StepsOn
<1>2. PICK W \in SUBSET A : \E f \in [W -> SUBSET A] : steps[i] = Item(f, {})
    BY <1>1 DEF ItemsOn
<1>3. PICK f \in [W -> SUBSET A] : steps[i] = Item(f, {})
    BY <1>2
<1> DEFINE item == Serial(steps)[i]
<1>4. DOMAIN Serial(steps) = 1..Len(steps) /\ item = [steps[i] EXCEPT !.after = {i - 1} \ {0}]
    BY <1>1 DEF Serial
<1> HIDE DEF item
<1>5. /\ item.flow = f /\ item.after = {i - 1} \ {0} /\ item.yields = {{}}
      /\ steps[i].flow = f
    <2> DEFINE s == steps[i]
               x == {i - 1} \ {0}
    <2>1. s = [flow |-> f, after |-> {}, yields |-> {{}}] /\ item = [s EXCEPT !.after = x]
        BY <1>3, <1>4 DEF Item
    <2> HIDE DEF s, x
    <2>2. item.flow = f /\ item.after = x /\ item.yields = {{}} /\ s.flow = f
        BY <2>1
    <2> QED BY <2>2 DEF s, x
<1>6. UNION {{}} = {}
    OBVIOUS
<1>7. Writes(item) = W /\ Writes(steps[i]) = W /\ \A c \in W : f[c] \subseteq A
    BY <1>5 DEF Writes
<1>8. Reads(item) \subseteq A
    BY <1>5, <1>7 DEF Reads, Range
<1>9. /\ DOMAIN Serial(steps) = 1..Len(steps)
      /\ item.after = {i - 1} \ {0} /\ item.flow = steps[i].flow
      /\ UNION item.yields = {}
      /\ Writes(item) = Writes(steps[i])
      /\ Writes(steps[i]) \subseteq A /\ Reads(item) \subseteq A
      /\ \A c \in Writes(steps[i]) : steps[i].flow[c] \subseteq A
    <2>1. UNION item.yields = {} /\ item.flow = steps[i].flow
        BY <1>5, <1>6
    <2>2. Writes(item) = Writes(steps[i]) /\ Writes(steps[i]) \subseteq A
        BY <1>7
    <2>3. \A c \in Writes(steps[i]) : steps[i].flow[c] \subseteq A
        BY <1>5, <1>7
    <2> QED BY <1>4, <1>5, <1>8, <2>1, <2>2, <2>3
<1> QED BY <1>9 DEF item

\* What a memory must hold at the end.
HoldsResults(p, m) ==
    \A c \in DOMAIN p.required : /\ c \in p.alloc
                                 /\ p.required[c] \subseteq m[c] /\ m[c] \subseteq p.allowed[c]

(* A serial loop that leads to its results.                                *)
LEMMA SerialRuns ==
    ASSUME NEW p, NEW steps \in StepsOn(p.alloc), p.work = Serial(steps),
           NEW Q, Leads(steps, {FirstMemory(p)}, Q), \A m \in Q : HoldsResults(p, m)
    PROVE  RunsRight(p)
<1> DEFINE n == Len(steps)
           before == [i \in 1..n |-> 1..(i - 1)]
<1>1. n \in Nat /\ DOMAIN p.work = 1..n
    <2>1. n \in Nat /\ DOMAIN steps = 1..n
        BY LenProperties DEF StepsOn
    <2> QED BY <2>1 DEF Serial
<1>2. \A i \in 1..n :
        /\ p.work[i].after = {i - 1} \ {0} /\ p.work[i].flow = steps[i].flow
        /\ UNION p.work[i].yields = {} /\ Writes(p.work[i]) = Writes(steps[i])
        /\ Writes(steps[i]) \subseteq p.alloc /\ Reads(p.work[i]) \subseteq p.alloc
        /\ \A c \in Writes(steps[i]) : steps[i].flow[c] \subseteq p.alloc
    BY SerialItems
<1>3. PICK M : Trace(steps, M) /\ M[0] = FirstMemory(p)
    BY TraceExists DEF StepsOn
<1>4. M[n] \in Q /\ \A i \in 1..n : M[i] = MemoryAfter(steps[i], M[i - 1])
    BY <1>3 DEF Leads, Trace
<1> DEFINE value == [i \in 1..n |-> M[i]]
<1> HIDE DEF n
<1>5. Confined(p)
    <2>1. ASSUME NEW i \in 1..n PROVE p.work[i].after \subseteq 1..n
        BY <1>1, <1>2
    <2> QED BY <1>1, <1>2, <2>1 DEF Confined
<1>6. OrderedBy(p, before)
    <2>1. ASSUME NEW i \in 1..n, NEW k \in 1..(i - 1)
          PROVE  k \in p.work[i].after \/ \E m \in p.work[i].after : m \in 1..n /\ k \in 1..(m - 1)
        <3>1. p.work[i].after = {i - 1}
            BY <1>1, <1>2, <2>1
        <3>2. k = i - 1 \/ (i - 1 \in 1..n /\ k \in 1..((i - 1) - 1))
            BY <1>1, <2>1
        <3> QED BY <3>1, <3>2
    <2>2. \A i, j \in 1..n : i # j => i \in 1..(j - 1) \/ j \in 1..(i - 1)
        BY <1>1
    <2>3. \A i \in 1..n : before[i] = 1..(i - 1)
        OBVIOUS
    <2> HIDE DEF before
    <2>4. \A i \in DOMAIN p.work : \A k \in before[i] :
             k \in p.work[i].after \/ \E m \in p.work[i].after : k \in before[m]
        <3> TAKE i \in DOMAIN p.work
        <3>1. i \in 1..n /\ before[i] = 1..(i - 1)
            BY <1>1, <2>3
        <3> TAKE k \in before[i]
        <3>2. k \in p.work[i].after \/ \E m \in p.work[i].after : m \in 1..n /\ k \in 1..(m - 1)
            BY <2>1, <3>1
        <3> QED BY <2>3, <3>2
    <2>5. \A i, j \in DOMAIN p.work : i # j => i \in before[j] \/ j \in before[i]
        BY <1>1, <2>2, <2>3
    <2> QED BY <2>4, <2>5 DEF OrderedBy
<1>7. \A i \in 0..n : DOMAIN M[i] = p.alloc
    <2> DEFINE K == {i \in 0..n : DOMAIN M[i] = p.alloc}
    <2>1. 0 \in K
        BY <1>1, <1>3 DEF FirstMemory
    <2>2. ASSUME NEW i \in 0..(n - 1), i \in K PROVE i + 1 \in K
        <3>1. i + 1 \in 1..n /\ i + 1 \in 0..n /\ (i + 1) - 1 = i
            BY <1>1
        <3>2. M[i + 1] = MemoryAfter(steps[i + 1], M[i])
            BY <1>4, <3>1
        <3> QED BY <2>2, <3>1, <3>2 DEF MemoryAfter
    <2> HIDE DEF K
    <2>3. 0..n \subseteq K
        BY <1>1, <2>1, <2>2, UpTo
    <2> QED BY <2>3 DEF K
<1>8. \A c \in p.alloc, i \in 0..n : ValueAfter(p, before, value, 1..i, c) = M[i][c]
    <2> TAKE c \in p.alloc
    <2> DEFINE Held(i) == ValueAfter(p, before, value, 1..i, c)
               K == {i \in 0..n : Held(i) = M[i][c]}
    <2>1. 0 \in K
        <3>1. Held(0) = {c} \cap p.inputs
            <4>1. \A m \in 1..0 : c \notin Writes(p.work[m])
                OBVIOUS
            <4> HIDE DEF before, value
            <4> QED BY ONLY <4>1, NoWrite
        <3>2. M[0][c] = {c} \cap p.inputs
            BY <1>3 DEF FirstMemory
        <3>3. 0 \in 0..n
            BY <1>1
        <3> HIDE DEF Held
        <3> QED BY <3>1, <3>2, <3>3
    <2>2. ASSUME NEW i \in 0..(n - 1), i \in K PROVE i + 1 \in K
        <3> DEFINE j == i + 1
        <3>1. j \in 1..n /\ j \in 0..n /\ j - 1 = i /\ i \in 0..n
            BY <1>1
        <3>2. \A m \in 1..j : m = j \/ m \in 1..i
            OBVIOUS
        <3>3. \A m \in 1..i : m \in 1..j /\ m \in 1..n /\ j \notin 1..(m - 1)
            BY <1>1
        <3> HIDE DEF j
        <3>4. M[j] = MemoryAfter(steps[j], M[i])
            BY <1>4, <3>1
        <3>5. before[j] = 1..i /\ value[j] = M[j] /\ \A m \in 1..i : before[m] = 1..(m - 1)
            BY <3>1, <3>3
        <3> HIDE DEF before, value
        <3>6. ASSUME c \in Writes(steps[j]) PROVE Held(j) = M[j][c]
            <4>1. LastIn(p, before, 1..j, c, j)
                <5>1. j \in 1..j
                    BY <3>1
                <5> QED BY <1>2, <3>1, <3>2, <3>3, <3>5, <3>6, <5>1 DEF LastIn
            <4>2. Held(j) = value[j][c]
                BY <4>1, LastWrite
            <4> HIDE DEF Held
            <4> QED BY <3>1, <3>5, <4>2
        <3>7. ASSUME c \notin Writes(steps[j]) PROVE Held(j) = M[j][c]
            <4> DEFINE S == 1..j
                       T == 1..i
            <4>1. \A m \in S \cup T : c \in Writes(p.work[m]) => m \in S /\ m \in T
                BY <1>2, <3>1, <3>2, <3>3, <3>7
            <4> HIDE DEF S, T
            <4>2. ValueAfter(p, before, value, S, c) = ValueAfter(p, before, value, T, c)
                BY ONLY <4>1, SameWriters
            <4>3. M[j][c] = M[i][c]
                BY <1>7, <3>1, <3>4, <3>7 DEF MemoryAfter
            <4>4. ValueAfter(p, before, value, 1..i, c) = M[i][c]
                BY <2>2
            <4> QED BY <4>2, <4>3, <4>4 DEF S, T
        <3>8. j \in K
            BY <3>1, <3>6, <3>7
        <3> QED BY <3>8 DEF j
    <2> HIDE DEF K
    <2>3. 0..n \subseteq K
        BY <1>1, <2>1, <2>2, UpTo
    <2> QED BY <2>3 DEF K
<1>9. ASSUME NEW i \in 1..n, NEW c \in Writes(p.work[i])
      PROVE  value[i][c] = UNION {ValueAfter(p, before, value, before[i], r) :
                                     r \in p.work[i].flow[c] \cap p.alloc}
    <2>1. i - 1 \in 0..n /\ i \in 0..n
        BY <1>1
    <2>2. /\ before[i] = 1..(i - 1) /\ value[i] = M[i]
          /\ p.work[i].flow[c] \cap p.alloc = steps[i].flow[c]
          /\ steps[i].flow[c] \subseteq p.alloc /\ c \in Writes(steps[i])
          /\ c \in p.alloc
        BY <1>2
    <2> HIDE DEF before, value
    <2>3. \A r \in steps[i].flow[c] : ValueAfter(p, before, value, before[i], r) = M[i - 1][r]
        BY <1>8, <2>1, <2>2
    <2>4. M[i][c] = UNION {M[i - 1][r] : r \in steps[i].flow[c]}
        <3>1. M[i] = MemoryAfter(steps[i], M[i - 1]) /\ DOMAIN M[i - 1] = p.alloc
            BY <1>4, <1>7, <2>1
        <3> QED BY <2>2, <3>1 DEF MemoryAfter
    <2> QED BY <2>2, <2>3, <2>4
<1>10. \A c \in p.alloc : ValueAfter(p, before, value, DOMAIN p.work, c) = M[n][c]
    <2>1. n \in 0..n
        BY <1>1
    <2> HIDE DEF before, value
    <2> QED BY <1>1, <1>8, <2>1
<1>11. Computes(p, before, value, value)
    <2> HIDE DEF before, value
    <2>1. HoldsResults(p, M[n])
        BY <1>4
    <2>2. ASSUME NEW i \in DOMAIN p.work, NEW c \in Writes(p.work[i])
          PROVE  LET Seen == UNION {ValueAfter(p, before, value, before[i], r) :
                                       r \in p.work[i].flow[c] \cap p.alloc}
                 IN  value[i][c] \subseteq Seen /\ Seen \cup UNION p.work[i].yields \subseteq value[i][c]
        <3> DEFINE Seen == UNION {ValueAfter(p, before, value, before[i], r) :
                                       r \in p.work[i].flow[c] \cap p.alloc}
        <3>1. value[i][c] = Seen /\ UNION p.work[i].yields = {}
            BY <1>1, <1>2, <1>9
        <3> HIDE DEF Seen
        <3>2. value[i][c] \subseteq Seen /\ Seen \cup UNION p.work[i].yields \subseteq value[i][c]
            BY <3>1
        <3> QED BY <3>2 DEF Seen
    <2>3. \A c \in DOMAIN p.required :
            /\ c \in p.alloc
            /\ p.required[c] \subseteq ValueAfter(p, before, value, DOMAIN p.work, c)
            /\ ValueAfter(p, before, value, DOMAIN p.work, c) \subseteq p.allowed[c]
        BY <1>10, <2>1 DEF HoldsResults
    <2> QED BY <2>2, <2>3 DEF Computes
<1> HIDE DEF before, value
<1> QED BY <1>5, <1>6, <1>11 DEF RunsRight

-------------------------------------------------------------------------------
(* Loops whose passes each do a part of the rows, whichever were done before. *)

\* The steps do the rows N, whichever other rows were done before.
\* State[D] are the memories in which the rows D are done.
Visits(S, G, State, steps, N) ==
    /\ steps \in Seq(S)
    /\ \A D \in SUBSET G : D \cap N = {} => Leads(steps, State[D], State[D \cup N])

\* Pass k of a loop does the rows N[k], each row in one pass; all do U.
BodyPasses(S, G, State, n, body, N, U) ==
    /\ n \in Nat /\ DOMAIN body = 1..n /\ body = [k \in 1..n |-> body[k]]
    /\ N \in [1..n -> SUBSET G] /\ U = UNION {N[k] : k \in 1..n}
    /\ \A k \in 1..n : Visits(S, G, State, body[k], N[k])
    /\ \A j, k \in 1..n : j # k => N[j] \cap N[k] = {}

(* A loop does what its passes do.                                         *)
LEMMA VisitLoop ==
    ASSUME NEW S, NEW G, NEW State, NEW n, NEW body, NEW N, NEW U,
           BodyPasses(S, G, State, n, body, N, U)
    PROVE  Visits(S, G, State, FlattenSeq(body), U)
<1> SUFFICES ASSUME n \in Nat, DOMAIN body = 1..n, body = [k \in 1..n |-> body[k]],
                    N \in [1..n -> SUBSET G],
                    \A k \in 1..n : Visits(S, G, State, body[k], N[k]),
                    \A j, k \in 1..n : j # k => N[j] \cap N[k] = {}
             PROVE  Visits(S, G, State, FlattenSeq(body), UNION {N[k] : k \in 1..n})
    BY DEF BodyPasses
<1>1. body \in [1..n -> Seq(S)]
    BY DEF Visits
<1> DEFINE Upto(D, k) == D \cup UNION {N[j] : j \in 1..k}
<1>2. ASSUME NEW D \in SUBSET G, D \cap UNION {N[k] : k \in 1..n} = {}
      PROVE  /\ FlattenSeq(body) \in Seq(S)
             /\ Leads(FlattenSeq(body), State[D], State[D \cup UNION {N[k] : k \in 1..n}])
    <2> DEFINE P == [k \in 0..n |-> State[Upto(D, k)]]
    <2>1. ASSUME NEW k \in 1..n PROVE Leads(body[k], P[k - 1], P[k])
        <3> DEFINE E == Upto(D, k - 1)
        <3>1. k - 1 \in 0..n /\ k \in 0..n /\ \A j \in 1..k : j \in 1..n /\ (j = k \/ j \in 1..(k - 1))
            OBVIOUS
        <3>2. \A j \in 1..(k - 1) : j \in 1..n /\ j # k /\ j \in 1..k
            OBVIOUS
        <3>3. E \in SUBSET G /\ E \cap N[k] = {}
            BY <1>2, <3>1, <3>2
        <3>4. E \cup N[k] = Upto(D, k)
            <4>1. N[k] \subseteq Upto(D, k)
                OBVIOUS
            <4>2. E \subseteq Upto(D, k)
                BY <3>2
            <4>3. Upto(D, k) \subseteq E \cup N[k]
                BY <3>1
            <4> QED BY <4>1, <4>2, <4>3
        <3>5. P[k - 1] = State[E] /\ P[k] = State[Upto(D, k)]
            BY <3>1
        <3> HIDE DEF E, P, Upto
        <3>6. Leads(body[k], State[E], State[E \cup N[k]])
            BY <3>3 DEF Visits
        <3> QED BY <3>4, <3>5, <3>6
    <2>2. P[0] = State[D] /\ P[n] = State[D \cup UNION {N[k] : k \in 1..n}]
        <3>1. Upto(D, 0) = D
            OBVIOUS
        <3>2. 0 \in 0..n /\ n \in 0..n
            OBVIOUS
        <3> QED BY <3>1, <3>2
    <2> HIDE DEF P
    <2>3. FlattenSeq(body) \in Seq(S) /\ Leads(FlattenSeq(body), P[0], P[n])
        BY ONLY <1>1, <2>1, n \in Nat, InLoop
    <2> QED BY <2>2, <2>3
<1>3. FlattenSeq(body) \in Seq(S)
    <2>1. {} \in SUBSET G /\ {} \cap UNION {N[k] : k \in 1..n} = {}
        OBVIOUS
    <2> QED BY <1>2, <2>1
<1> QED BY <1>2, <1>3 DEF Visits

-------------------------------------------------------------------------------
Memories(p) == [p.alloc -> SUBSET p.inputs]

\* Cell c holds its result.
Right(p, m, c) == p.required[c] \subseteq m[c] /\ m[c] \subseteq p.allowed[c]

\* The rows not done find what they take as it was at first.
RowState(p, G, In, Out) ==
    [D \in SUBSET G |->
        {m \in Memories(p) :
            /\ \A r \in G \ D : \A c \in In[r] : m[c] = FirstMemory(p)[c]
            /\ \A r \in D : \A c \in Out[r] : Right(p, m, c)}]

\* The memories the steps of a row may leave: what is not their own is as in
\* m, and their results are right.
RowDone(p, m, own, out) ==
    {k \in Memories(p) : /\ \A c \in p.alloc \ own : k[c] = m[c]
                         /\ \A c \in out : Right(p, k, c)}

DoesRow(p, steps, in, own, out) ==
    /\ steps \in StepsOn(p.alloc)
    /\ \A m \in Memories(p) :
          (\A c \in in : m[c] = FirstMemory(p)[c]) => Leads(steps, {m}, RowDone(p, m, own, out))

\* No row changes what another takes, nor its results.
RowsOfTheirOwn(p, G, In, Own, Out) ==
    /\ \A r \in G : In[r] \subseteq p.alloc /\ Out[r] \subseteq p.alloc
    /\ \A r, s \in G : r # s => Own[r] \cap (In[s] \cup Out[s]) = {}
    /\ DOMAIN p.required \subseteq UNION {Out[r] : r \in G}

(* The steps of one row visit it.                                          *)
LEMMA RowVisited ==
    ASSUME NEW p, NEW G, NEW In, NEW Own, NEW Out, RowsOfTheirOwn(p, G, In, Own, Out),
           NEW r \in G, NEW steps, DoesRow(p, steps, In[r], Own[r], Out[r])
    PROVE  Visits(ItemsOn(p.alloc), G, RowState(p, G, In, Out), steps, {r})
<1>1. steps \in Seq(ItemsOn(p.alloc))
    BY DEF DoesRow, StepsOn
<1>2. ASSUME NEW D \in SUBSET G, D \cap {r} = {}, NEW M, Trace(steps, M),
             M[0] \in RowState(p, G, In, Out)[D]
      PROVE  M[Len(steps)] \in RowState(p, G, In, Out)[D \cup {r}]
    <2> DEFINE m == M[0]
               k == M[Len(steps)]
    <2>1. /\ m \in Memories(p)
          /\ \A s \in G \ D : \A c \in In[s] : m[c] = FirstMemory(p)[c]
          /\ \A s \in D : \A c \in Out[s] : Right(p, m, c)
        BY <1>2 DEF RowState
    <2>2. r \in G \ D
        BY <1>2
    <2>3. Leads(steps, {m}, RowDone(p, m, Own[r], Out[r]))
        BY <2>1, <2>2 DEF DoesRow
    <2>4. k \in RowDone(p, m, Own[r], Out[r])
        BY <1>2, <2>3 DEF Leads
    <2>5. /\ k \in Memories(p)
          /\ \A c \in p.alloc \ Own[r] : k[c] = m[c]
          /\ \A c \in Out[r] : Right(p, k, c)
        BY <2>4 DEF RowDone
    <2> HIDE DEF m, k
    <2>6. ASSUME NEW s \in G, s # r
          PROVE  \A c \in In[s] \cup Out[s] : k[c] = m[c]
        BY <2>5, <2>6 DEF RowsOfTheirOwn
    <2>7. \A s \in G \ (D \cup {r}) : \A c \in In[s] : k[c] = FirstMemory(p)[c]
        BY <2>1, <2>6
    <2>8. \A s \in D \cup {r} : \A c \in Out[s] : Right(p, k, c)
        <3> TAKE s \in D \cup {r}
        <3>1. CASE s = r
            BY <2>5, <3>1
        <3>2. CASE s # r
            <4>1. s \in D /\ s \in G
                BY <3>2
            <4> TAKE c \in Out[s]
            <4>2. k[c] = m[c] /\ Right(p, m, c)
                BY <2>1, <2>6, <3>2, <4>1
            <4> QED BY <4>2 DEF Right
        <3> QED BY <3>1, <3>2
    <2>9. D \cup {r} \in SUBSET G
        OBVIOUS
    <2>10. k \in RowState(p, G, In, Out)[D \cup {r}]
        BY <2>5, <2>7, <2>8, <2>9 DEF RowState
    <2> QED BY <2>10 DEF k
<1>3. \A D \in SUBSET G : D \cap {r} = {}
        => Leads(steps, RowState(p, G, In, Out)[D], RowState(p, G, In, Out)[D \cup {r}])
    BY <1>2 DEF Leads
<1> QED BY <1>1, <1>3 DEF Visits

(* A serial loop over all rows runs right.                                 *)
LEMMA RowsRun ==
    ASSUME NEW p, NEW G, NEW In, NEW Own, NEW Out, RowsOfTheirOwn(p, G, In, Own, Out),
           NEW steps, p.work = Serial(steps),
           Visits(ItemsOn(p.alloc), G, RowState(p, G, In, Out), steps, G)
    PROVE  RunsRight(p)
<1> DEFINE State == RowState(p, G, In, Out)
           Q == State[G]
<1>1. FirstMemory(p) \in State[{}]
    <2>1. FirstMemory(p) \in Memories(p)
        BY DEF FirstMemory, Memories
    <2>2. {} \in SUBSET G
        OBVIOUS
    <2> HIDE DEF FirstMemory
    <2> QED BY <2>1, <2>2 DEF RowState
<1>2. Leads(steps, State[{}], Q)
    <2>1. {} \in SUBSET G /\ {} \cap G = {} /\ {} \cup G = G
        OBVIOUS
    <2> HIDE DEF State
    <2>2. Leads(steps, State[{}], State[{} \cup G])
        BY <2>1 DEF Visits, State
    <2> QED BY <2>1, <2>2
<1>3. \A m \in Q : HoldsResults(p, m)
    <2> TAKE m \in Q
    <2>1. \A r \in G : \A c \in Out[r] : Right(p, m, c)
        <3>1. G \in SUBSET G
            OBVIOUS
        <3> QED BY <3>1 DEF RowState
    <2>2. \A c \in DOMAIN p.required : \E r \in G : c \in Out[r] /\ c \in p.alloc
        BY DEF RowsOfTheirOwn
    <2> QED BY <2>1, <2>2 DEF HoldsResults, Right
<1> HIDE DEF State, Q
<1>4. Leads(steps, {FirstMemory(p)}, Q)
    BY <1>1, <1>2 DEF Leads
<1>5. steps \in StepsOn(p.alloc)
    BY DEF Visits, StepsOn
<1> QED BY <1>3, <1>4, <1>5, SerialRuns

-------------------------------------------------------------------------------
(* What one step of a row leaves in memory.                                *)

(* A step over the cells of A.                                             *)
LEMMA ThenItem ==
    ASSUME NEW A, NEW R, NEW W, R \subseteq A, W \subseteq A
    PROVE  Then(R, W) \in ItemsOn(A)
<1> DEFINE f == [c \in W |-> R]
<1>1. f \in [W -> SUBSET A] /\ Then(R, W) = Item(f, {})
    BY DEF Then, Step
<1> HIDE DEF f
<1> QED BY <1>1 DEF ItemsOn

\* What the cells R hold together.
Gathered(m, R) == UNION {m[r] : r \in R}

\* A step leaves the memory k of the cells A in place of m.
StepLeaves(A, V, R, W, m, k) ==
    /\ R \subseteq A /\ W \subseteq A /\ m \in [A -> SUBSET V]
    /\ k = MemoryAfter(Then(R, W), m)

(* What it leaves behind.                                                  *)
LEMMA ThenAfter ==
    ASSUME NEW A, NEW V, NEW R, NEW W, NEW m, NEW k, StepLeaves(A, V, R, W, m, k)
    PROVE  /\ k \in [A -> SUBSET V]
           /\ \A c \in W : k[c] = Gathered(m, R)
           /\ \A c \in A \ W : k[c] = m[c]
<1> DEFINE item == Then(R, W)
           u == UNION {m[r] : r \in R}
<1>1. item.flow = [c \in W |-> R]
    BY DEF Then, Step, Item
<1>2. Writes(item) = W /\ \A c \in W : item.flow[c] = R
    BY <1>1 DEF Writes
<1>0. /\ R \subseteq A /\ W \subseteq A /\ m \in [A -> SUBSET V]
      /\ k = MemoryAfter(item, m)
    BY DEF StepLeaves
<1> HIDE DEF item
<1>3. k = [c \in A |-> IF c \in W THEN u ELSE m[c]]
    BY <1>0, <1>2 DEF MemoryAfter
<1>4. u \in SUBSET V
    BY <1>0
<1> HIDE DEF u
<1>5. k \in [A -> SUBSET V] /\ (\A c \in W : k[c] = u) /\ \A c \in A \ W : k[c] = m[c]
    BY <1>0, <1>3, <1>4
<1> QED BY <1>5 DEF u, Gathered

(* Steps that lead to Q lead to all that holds Q.                          *)
LEMMA LeadsWeaker ==
    ASSUME NEW steps, NEW P, NEW Q, NEW R, Leads(steps, P, Q), Q \subseteq R
    PROVE  Leads(steps, P, R)
BY DEF Leads

\* The memories that differ from m in the cells X only, where they hold val.
Changed(p, m, X, val) ==
    {k \in Memories(p) : (\A c \in p.alloc \ X : k[c] = m[c]) /\ \A c \in X : k[c] = val[c]}

\* What the cells R hold in such a memory.
HeldBy(m, X, val, R) == UNION {IF r \in X THEN val[r] ELSE m[r] : r \in R}

(* One step changes one cell more, or the same.                            *)
LEMMA StepChanges ==
    ASSUME NEW p, NEW m, NEW X, X \subseteq p.alloc, NEW val, NEW R, R \subseteq p.alloc,
           NEW c \in p.alloc, val[c] = HeldBy(m, X, val, R)
    PROVE  /\ <<Then(R, {c})>> \in StepsOn(p.alloc)
           /\ Leads(<<Then(R, {c})>>, Changed(p, m, X, val), Changed(p, m, X \cup {c}, val))
<1> DEFINE A == p.alloc
           item == Then(R, {c})
<1>1. {c} \subseteq A
    OBVIOUS
<1>2. item \in ItemsOn(A)
    BY <1>1, ThenItem
<1>3. ASSUME NEW k \in Changed(p, m, X, val)
      PROVE  MemoryAfter(item, k) \in Changed(p, m, X \cup {c}, val)
    <2> DEFINE n == MemoryAfter(item, k)
    <2>1. /\ k \in [A -> SUBSET p.inputs] /\ (\A d \in A \ X : k[d] = m[d])
          /\ \A d \in X : k[d] = val[d]
        BY <1>3 DEF Changed, Memories
    <2>2. /\ n \in [A -> SUBSET p.inputs]
          /\ \A d \in {c} : n[d] = Gathered(k, R)
          /\ \A d \in A \ {c} : n[d] = k[d]
        <3> DEFINE V == p.inputs
                   W == {c}
        <3>1. StepLeaves(A, V, R, W, k, n)
            BY <2>1 DEF StepLeaves
        <3> HIDE DEF n, item, V, W, A
        <3>2. /\ n \in [A -> SUBSET V]
              /\ \A d \in W : n[d] = Gathered(k, R)
              /\ \A d \in A \ W : n[d] = k[d]
            BY ONLY <3>1, ThenAfter
        <3> QED BY <3>2 DEF V, W
    <2> HIDE DEF n, item
    <2>3. \A r \in R : k[r] = IF r \in X THEN val[r] ELSE m[r]
        BY <2>1
    <2>4. Gathered(k, R) = val[c]
        BY <2>3 DEF HeldBy, Gathered
    <2>5. \A d \in X \cup {c} : n[d] = val[d]
        BY <2>1, <2>2, <2>4
    <2>6. \A d \in A \ (X \cup {c}) : n[d] = m[d]
        BY <2>1, <2>2
    <2> QED BY <2>2, <2>5, <2>6 DEF n, Changed, Memories
<1> HIDE DEF item
<1> QED BY <1>2, <1>3, OneStep DEF StepsOn, item

-------------------------------------------------------------------------------
(* The row of a norm.                                                      *)

(* The passes of a loop, each of one step, change one cell more each.      *)
LEMMA LoopChanges ==
    ASSUME NEW p, NEW m, NEW val, NEW n \in Nat, NEW X, NEW body, DOMAIN body = 1..n,
           body = [k \in 1..n |-> body[k]],
           \A k \in 1..n : /\ body[k] \in StepsOn(p.alloc)
                           /\ Leads(body[k], Changed(p, m, X[k - 1], val), Changed(p, m, X[k], val))
    PROVE  /\ FlattenSeq(body) \in StepsOn(p.alloc)
           /\ Leads(FlattenSeq(body), Changed(p, m, X[0], val), Changed(p, m, X[n], val))
<1> DEFINE S == ItemsOn(p.alloc)
           P == [k \in 0..n |-> Changed(p, m, X[k], val)]
<1>1. body \in [1..n -> Seq(S)]
    BY DEF StepsOn
<1>2. ASSUME NEW k \in 1..n PROVE Leads(body[k], P[k - 1], P[k])
    <2>1. k - 1 \in 0..n /\ k \in 0..n
        OBVIOUS
    <2>2. P[k - 1] = Changed(p, m, X[k - 1], val) /\ P[k] = Changed(p, m, X[k], val)
        BY <2>1
    <2> HIDE DEF P
    <2> QED BY <2>2
<1>3. P[0] = Changed(p, m, X[0], val) /\ P[n] = Changed(p, m, X[n], val)
    OBVIOUS
<1> HIDE DEF P, S
<1>4. FlattenSeq(body) \in Seq(S) /\ Leads(FlattenSeq(body), P[0], P[n])
    BY ONLY <1>1, <1>2, n \in Nat, InLoop
<1> QED BY <1>3, <1>4 DEF StepsOn, S

(* A cell of the inputs that holds what it held at first holds itself.     *)
LEMMA FirstHeld ==
    ASSUME NEW p, NEW m, NEW c, c \in p.inputs, c \in p.alloc, m[c] = FirstMemory(p)[c]
    PROVE  m[c] = {c}
BY DEF FirstMemory

(* Such cells together hold all of them.                                   *)
LEMMA HeldTogether ==
    ASSUME NEW m, NEW X, NEW val, NEW R, \A r \in R : r \notin X /\ m[r] = {r}
    PROVE  HeldBy(m, X, val, R) = R
<1>1. \A r \in R : (IF r \in X THEN val[r] ELSE m[r]) = {r}
    OBVIOUS
<1>2. UNION {{r} : r \in R} = R
    OBVIOUS
<1>3. HeldBy(m, X, val, R) = UNION {{r} : r \in R}
    BY <1>1 DEF HeldBy
<1> QED BY <1>2, <1>3

\* The row of a norm: the reduction of the n cells in[k], then its results.
NormRowSteps(n, in, w, out, loc) ==
    <<Then({in[k] : k \in 0..(n - 1)}, {loc})>>
    \o FlattenSeq([k \in 1..n |-> <<Then({in[k - 1], w[k - 1], loc}, {out[k - 1]})>>])

NormRowPlaces(p, n, in, w, out, loc) ==
    /\ n \in Nat \ {0} /\ loc \in p.alloc
    /\ \A k \in 0..(n - 1) :
          /\ in[k] \in p.inputs \cap p.alloc /\ w[k] \in p.inputs \cap p.alloc
          /\ out[k] \in p.alloc /\ loc \notin {in[k], w[k], out[k]}
          /\ p.required[out[k]] = {in[j] : j \in 0..(n - 1)} \cup {w[k]}
          /\ p.allowed[out[k]] = p.required[out[k]]
    /\ \A j, k \in 0..(n - 1) :
          /\ out[j] = out[k] => j = k
          /\ in[j] = out[k] => j = k
          /\ w[j] # out[k]

(* It computes the row, in place or not.                                   *)
LEMMA NormRowDone ==
    ASSUME NEW p, NEW n, NEW in, NEW w, NEW out, NEW loc, NormRowPlaces(p, n, in, w, out, loc)
    PROVE  DoesRow(p, NormRowSteps(n, in, w, out, loc),
                   {in[k] : k \in 0..(n - 1)} \cup {w[k] : k \in 0..(n - 1)},
                   {loc} \cup {out[k] : k \in 0..(n - 1)}, {out[k] : k \in 0..(n - 1)})
<1> DEFINE columns == 0..(n - 1)
           V == {in[k] : k \in columns}
           outs == {out[k] : k \in columns}
           A == p.alloc
           val == [c \in {loc} \cup outs |-> IF c = loc THEN V ELSE p.required[c]]
           X(k) == {loc} \cup {out[j] : j \in 0..(k - 1)}
           body == [k \in 1..n |-> <<Then({in[k - 1], w[k - 1], loc}, {out[k - 1]})>>]
           first == <<Then(V, {loc})>>
<1>1. /\ n \in Nat \ {0} /\ loc \in A
      /\ \A k \in columns :
          /\ in[k] \in p.inputs \cap A /\ w[k] \in p.inputs \cap A
          /\ out[k] \in A /\ loc \notin {in[k], w[k], out[k]}
          /\ p.required[out[k]] = V \cup {w[k]} /\ p.allowed[out[k]] = p.required[out[k]]
      /\ \A j, k \in columns : /\ out[j] = out[k] => j = k
                               /\ in[j] = out[k] => j = k
                               /\ w[j] # out[k]
    BY DEF NormRowPlaces
<1>2. val[loc] = V /\ \A k \in columns : val[out[k]] = V \cup {w[k]}
    BY <1>1
<1>3. V \subseteq A /\ outs \subseteq A
    BY <1>1
<1> HIDE DEF val, first
<1>4. ASSUME NEW m \in Memories(p),
             \A c \in V \cup {w[k] : k \in columns} : m[c] = FirstMemory(p)[c]
      PROVE  /\ first \o FlattenSeq(body) \in StepsOn(A)
             /\ Leads(first \o FlattenSeq(body), {m}, RowDone(p, m, {loc} \cup outs, outs))
    <2>1. \A k \in columns : m[in[k]] = {in[k]} /\ m[w[k]] = {w[k]}
        <3>1. ASSUME NEW c \in V \cup {w[k] : k \in columns} PROVE m[c] = {c}
            <4>1. c \in p.inputs /\ c \in p.alloc /\ m[c] = FirstMemory(p)[c]
                BY <1>1, <1>4
            <4> QED BY ONLY <4>1, FirstHeld
        <3>2. \A k \in columns : in[k] \in V
            OBVIOUS
        <3> HIDE DEF V
        <3> QED BY <3>1, <3>2
    <2>2. first \in StepsOn(A) /\ Leads(first, Changed(p, m, {}, val), Changed(p, m, {loc}, val))
        <3>1. val[loc] = HeldBy(m, {}, val, V)
            <4>1. \A r \in V : r \notin {} /\ m[r] = {r}
                BY <2>1
            <4> HIDE DEF V
            <4>2. HeldBy(m, {}, val, V) = V
                BY ONLY <4>1, HeldTogether
            <4> QED BY <1>2, <4>2
        <3> DEFINE O == {}
        <3>2. O \subseteq A /\ O \cup {loc} = {loc}
            OBVIOUS
        <3> HIDE DEF O
        <3>3. val[loc] = HeldBy(m, O, val, V)
            BY <3>1 DEF O
        <3> HIDE DEF V
        <3>4. /\ <<Then(V, {loc})>> \in StepsOn(p.alloc)
              /\ Leads(<<Then(V, {loc})>>, Changed(p, m, O, val), Changed(p, m, O \cup {loc}, val))
            BY ONLY <1>1, <1>3, <3>2, <3>3, StepChanges
        <3> QED BY <3>2, <3>4 DEF first, O
    <2>3. ASSUME NEW k \in 1..n
          PROVE  /\ body[k] \in StepsOn(A)
                 /\ Leads(body[k], Changed(p, m, X(k - 1), val), Changed(p, m, X(k), val))
        <3> DEFINE q == k - 1
                   R == {in[q], w[q], loc}
                   Y == X(q)
        <3>1. q \in columns /\ n \in Nat /\ \A j \in 0..(q - 1) : j \in columns /\ j # q
            BY <1>1
        <3>2. X(k) = Y \cup {out[q]}
            <4>1. 0..(k - 1) = (0..(q - 1)) \cup {q}
                BY <3>1
            <4> QED BY <4>1
        <3>3. Y \subseteq A /\ R \subseteq A /\ out[q] \in A
            BY <1>1, <3>1
        <3>4. in[q] \notin Y /\ w[q] \notin Y /\ loc \in Y
            BY <1>1, <3>1
        <3>5. val[out[q]] = HeldBy(m, Y, val, R)
            <4> HIDE DEF Y, V
            <4>1. HeldBy(m, Y, val, R) = m[in[q]] \cup m[w[q]] \cup val[loc]
                BY <3>4 DEF HeldBy
            <4>2. m[in[q]] = {in[q]} /\ m[w[q]] = {w[q]}
                BY <2>1, <3>1
            <4>3. in[q] \in V
                BY <3>1 DEF V
            <4> HIDE DEF q, columns, R
            <4>4. val[out[q]] = V \cup {w[q]}
                BY <1>2, <3>1
            <4> QED BY <1>2, <4>1, <4>2, <4>3, <4>4
        <3> DEFINE c == out[q]
        <3>6. body[k] = <<Then(R, {c})>>
            OBVIOUS
        <3> HIDE DEF q, R, Y, X, body, c
        <3>7. /\ <<Then(R, {c})>> \in StepsOn(p.alloc)
              /\ Leads(<<Then(R, {c})>>, Changed(p, m, Y, val), Changed(p, m, Y \cup {c}, val))
            <4>1. c \in p.alloc /\ val[c] = HeldBy(m, Y, val, R) /\ Y \subseteq p.alloc /\ R \subseteq p.alloc
                BY <3>3, <3>5 DEF c
            <4> QED BY ONLY <4>1, StepChanges
        <3> QED BY <3>2, <3>6, <3>7 DEF c, Y, q
    <2>4. /\ FlattenSeq(body) \in StepsOn(A)
          /\ Leads(FlattenSeq(body), Changed(p, m, X(0), val), Changed(p, m, X(n), val))
        <3> DEFINE Xs == [k \in 0..n |-> X(k)]
        <3>1. \A k \in 1..n : Xs[k - 1] = X(k - 1) /\ Xs[k] = X(k)
            BY <1>1
        <3>2. Xs[0] = X(0) /\ Xs[n] = X(n)
            BY <1>1
        <3>3. DOMAIN body = 1..n /\ body = [k \in 1..n |-> body[k]] /\ n \in Nat
            BY <1>1
        <3> HIDE DEF Xs, X, body
        <3>4. \A k \in 1..n :
                /\ body[k] \in StepsOn(p.alloc)
                /\ Leads(body[k], Changed(p, m, Xs[k - 1], val), Changed(p, m, Xs[k], val))
            BY <2>3, <3>1
        <3>5. /\ FlattenSeq(body) \in StepsOn(p.alloc)
              /\ Leads(FlattenSeq(body), Changed(p, m, Xs[0], val), Changed(p, m, Xs[n], val))
            BY ONLY <3>3, <3>4, LoopChanges
        <3> QED BY <3>2, <3>5
    <2>5. X(0) = {loc} /\ X(n) = {loc} \cup outs
        BY <1>1
    <2>6. m \in Changed(p, m, {}, val)
        BY DEF Changed
    <2>7. Changed(p, m, {loc} \cup outs, val) \subseteq RowDone(p, m, {loc} \cup outs, outs)
        <3> SUFFICES ASSUME NEW k \in Changed(p, m, {loc} \cup outs, val)
                     PROVE  k \in RowDone(p, m, {loc} \cup outs, outs)
            OBVIOUS
        <3>1. /\ k \in Memories(p) /\ \A c \in A \ ({loc} \cup outs) : k[c] = m[c]
              /\ \A c \in {loc} \cup outs : k[c] = val[c]
            BY DEF Changed
        <3>2. \A c \in outs : Right(p, k, c)
            BY <1>1, <1>2, <3>1, SMTT(30) DEF Right
        <3> QED BY <3>1, <3>2 DEF RowDone
    <2> HIDE DEF X, body, outs
    <2>8. /\ first \o FlattenSeq(body) \in StepsOn(A)
          /\ Leads(first \o FlattenSeq(body), Changed(p, m, {}, val),
                   Changed(p, m, {loc} \cup outs, val))
        BY <2>2, <2>4, <2>5, InSequence DEF StepsOn
    <2>9. Leads(first \o FlattenSeq(body), {m}, RowDone(p, m, {loc} \cup outs, outs))
        BY <2>6, <2>7, <2>8 DEF Leads
    <2> QED BY <2>8, <2>9
<1>5. first \o FlattenSeq(body) \in StepsOn(A)
    <2>1. FirstMemory(p) \in Memories(p)
        BY DEF FirstMemory, Memories
    <2> HIDE DEF body
    <2> QED BY <1>4, <2>1
<1>6. NormRowSteps(n, in, w, out, loc) = first \o FlattenSeq(body)
    BY DEF NormRowSteps, first
<1> HIDE DEF body, V, outs
<1> QED BY <1>4, <1>5, <1>6 DEF DoesRow, V, outs

-------------------------------------------------------------------------------
(* The row of a softmax.                                                   *)

\* The cells R hold parts of V, and one of them all of it.
Filled(m, X, val, R, V) ==
    /\ \A r \in R : (r \in X => val[r] = V) /\ (r \notin X => m[r] \subseteq V)
    /\ \E s \in R : s \in X

(* So V is what they hold.                                                 *)
LEMMA HeldWithin ==
    ASSUME NEW m, NEW X, NEW val, NEW R, NEW V, Filled(m, X, val, R, V)
    PROVE  HeldBy(m, X, val, R) = V
<1>1. \A r \in R : (IF r \in X THEN val[r] ELSE m[r]) \subseteq V
    BY DEF Filled
<1>2. \E s \in R : (IF s \in X THEN val[s] ELSE m[s]) = V
    BY DEF Filled
<1> QED BY <1>1, <1>2 DEF HeldBy

\* The row of a softmax: the maximum of the n cells in[j], their exponentials
\* and sum, and the division by it.
SoftmaxRowSteps(n, in, out, mx, sm) ==
    <<Then({in[j] : j \in 0..(n - 1)}, {mx})>>
    \o FlattenSeq([k \in 1..n |-> <<Then({in[k - 1], mx, sm}, {sm}),
                                    Then({in[k - 1], mx}, {out[k - 1]})>>])
    \o FlattenSeq([k \in 1..n |-> <<Then({out[k - 1], sm}, {out[k - 1]})>>])

SoftmaxRowPlaces(p, n, in, out, mx, sm) ==
    /\ n \in Nat \ {0} /\ mx \in p.alloc /\ sm \in p.alloc /\ mx # sm
    /\ \A k \in 0..(n - 1) :
          /\ in[k] \in p.inputs \cap p.alloc /\ out[k] \in p.alloc
          /\ {mx, sm} \cap {in[k], out[k]} = {}
    /\ \A j, k \in 0..(n - 1) :
          /\ out[j] = out[k] => j = k
          /\ in[j] = out[k] => j = k

\* Memory m before it, and what its cells hold after it: V.
SoftmaxRowBegins(p, n, in, out, mx, sm, m, V, outs, val) ==
    /\ SoftmaxRowPlaces(p, n, in, out, mx, sm)
    /\ m \in Memories(p) /\ m[sm] = {} /\ \A k \in 0..(n - 1) : m[in[k]] = {in[k]}
    /\ V = {in[k] : k \in 0..(n - 1)} /\ outs = {out[k] : k \in 0..(n - 1)}
    /\ val = [c \in {mx, sm} \cup outs |-> V]

(* It leaves all of the row in each of its results, in place or not.       *)
LEMMA SoftmaxRowLeads ==
    ASSUME NEW p, NEW n, NEW in, NEW out, NEW mx, NEW sm, NEW m, NEW V, NEW outs, NEW val,
           SoftmaxRowBegins(p, n, in, out, mx, sm, m, V, outs, val),
           NEW P, P = {m}, NEW Q, Q = Changed(p, m, {mx, sm} \cup outs, val)
    PROVE  /\ SoftmaxRowSteps(n, in, out, mx, sm) \in StepsOn(p.alloc)
           /\ Leads(SoftmaxRowSteps(n, in, out, mx, sm), P, Q)
<1> SUFFICES ASSUME SoftmaxRowPlaces(p, n, in, out, mx, sm), m \in Memories(p), m[sm] = {},
                    \A k \in 0..(n - 1) : m[in[k]] = {in[k]},
                    V = {in[k] : k \in 0..(n - 1)}, outs = {out[k] : k \in 0..(n - 1)},
                    val = [c \in {mx, sm} \cup outs |-> V]
             PROVE  /\ SoftmaxRowSteps(n, in, out, mx, sm) \in StepsOn(p.alloc)
                    /\ Leads(SoftmaxRowSteps(n, in, out, mx, sm), {m},
                             Changed(p, m, {mx, sm} \cup outs, val))
    BY DEF SoftmaxRowBegins
<1> DEFINE columns == 0..(n - 1)
           A == p.alloc
           X(k) == {mx} \cup (IF k = 0 THEN {} ELSE {sm}) \cup {out[j] : j \in 0..(k - 1)}
           Z == {mx, sm} \cup outs
           body == [k \in 1..n |-> <<Then({in[k - 1], mx, sm}, {sm}),
                                     Then({in[k - 1], mx}, {out[k - 1]})>>]
           last == [k \in 1..n |-> <<Then({out[k - 1], sm}, {out[k - 1]})>>]
           first == <<Then(V, {mx})>>
<1>1. /\ n \in Nat \ {0} /\ mx \in A /\ sm \in A /\ mx # sm
      /\ \A k \in columns :
          /\ in[k] \in p.inputs \cap A /\ out[k] \in A
          /\ mx # in[k] /\ mx # out[k] /\ sm # in[k] /\ sm # out[k]
      /\ \A j, k \in columns : /\ out[j] = out[k] => j = k
                               /\ in[j] = out[k] => j = k
    BY DEF SoftmaxRowPlaces
<1>2. V \subseteq A /\ outs \subseteq A /\ \A k \in columns : in[k] \in V /\ out[k] \in outs
    BY <1>1
<1>3. val[mx] = V /\ val[sm] = V /\ \A k \in columns : val[out[k]] = V
    BY <1>1
<1>4. \A r \in V : m[r] = {r}
    OBVIOUS
<1>5. first \in StepsOn(A) /\ Leads(first, Changed(p, m, {}, val), Changed(p, m, {mx}, val))
    <2> DEFINE O == {}
    <2>1. O \subseteq A /\ O \cup {mx} = {mx}
        OBVIOUS
    <2>2. \A r \in V : r \notin O /\ m[r] = {r}
        BY <1>4
    <2> HIDE DEF O
    <2>3. HeldBy(m, O, val, V) = V
        BY ONLY <2>2, HeldTogether
    <2>4. val[mx] = HeldBy(m, O, val, V)
        BY <1>3, <2>3
    <2>5. /\ <<Then(V, {mx})>> \in StepsOn(p.alloc)
          /\ Leads(<<Then(V, {mx})>>, Changed(p, m, O, val), Changed(p, m, O \cup {mx}, val))
        BY ONLY <1>1, <1>2, <2>1, <2>4, StepChanges
    <2> QED BY <2>1, <2>5 DEF O
<1>6. ASSUME NEW k \in 1..n
      PROVE  /\ body[k] \in StepsOn(A)
             /\ Leads(body[k], Changed(p, m, X(k - 1), val), Changed(p, m, X(k), val))
    <2> DEFINE q == k - 1
               Y == X(q)
               W == Y \cup {sm}
               R == {in[q], mx, sm}
               T == {in[q], mx}
               c == out[q]
    <2>1. q \in columns /\ n \in Nat /\ \A j \in 0..(q - 1) : j \in columns /\ j # q
        BY <1>1
    <2>2. X(k) = W \cup {c}
        <3>1. 0..(k - 1) = (0..(q - 1)) \cup {q} /\ k # 0
            BY <2>1
        <3>2. q = 0 => 0..(q - 1) = {}
            OBVIOUS
        <3> QED BY <3>1, <3>2
    <2>3. Y \subseteq A /\ W \subseteq A /\ R \subseteq A /\ T \subseteq A /\ c \in A
        BY <1>1, <2>1
    <2>4. in[q] \notin Y /\ in[q] \notin W /\ mx \in Y /\ mx \in W
        BY <1>1, <2>1
    <2>5. m[in[q]] \subseteq V /\ m[sm] \subseteq V
        BY <1>2, <1>4, <2>1
    <2>6. body[k] = <<Then(R, {sm}), Then(T, {c})>>
        OBVIOUS
    <2> HIDE DEF q, Y, X, body, c, columns
    <2>7. val[sm] = HeldBy(m, Y, val, R)
        <3>1. \A r \in R : (r \in Y => val[r] = V) /\ (r \notin Y => m[r] \subseteq V)
            BY <1>3, <2>4, <2>5
        <3>2. mx \in R /\ mx \in Y
            BY <2>4
        <3>3. Filled(m, Y, val, R, V)
            BY <3>1, <3>2 DEF Filled
        <3>4. HeldBy(m, Y, val, R) = V
            BY ONLY <3>3, HeldWithin
        <3> QED BY <1>3, <3>4
    <2>8. val[c] = HeldBy(m, W, val, T)
        <3>1. \A r \in T : (r \in W => val[r] = V) /\ (r \notin W => m[r] \subseteq V)
            BY <1>3, <2>4, <2>5
        <3>2. mx \in T /\ mx \in W
            BY <2>4
        <3>3. val[c] = V
            BY <1>3, <2>1 DEF c
        <3>4. Filled(m, W, val, T, V)
            BY <3>1, <3>2 DEF Filled
        <3> HIDE DEF T, W
        <3>5. HeldBy(m, W, val, T) = V
            BY ONLY <3>4, HeldWithin
        <3> QED BY <3>3, <3>5
    <2> HIDE DEF R, T
    <2>9. /\ <<Then(R, {sm})>> \in StepsOn(p.alloc)
          /\ Leads(<<Then(R, {sm})>>, Changed(p, m, Y, val), Changed(p, m, W, val))
        <3>1. sm \in p.alloc /\ Y \subseteq p.alloc /\ R \subseteq p.alloc
            BY <1>1, <2>3
        <3>2. /\ <<Then(R, {sm})>> \in StepsOn(p.alloc)
              /\ Leads(<<Then(R, {sm})>>, Changed(p, m, Y, val), Changed(p, m, Y \cup {sm}, val))
            BY ONLY <2>7, <3>1, StepChanges
        <3> QED BY <3>2
    <2> HIDE DEF W
    <2>10. /\ <<Then(T, {c})>> \in StepsOn(p.alloc)
           /\ Leads(<<Then(T, {c})>>, Changed(p, m, W, val), Changed(p, m, W \cup {c}, val))
        BY ONLY <2>3, <2>8, StepChanges DEF A
    <2> DEFINE s == <<Then(R, {sm})>>
               t == <<Then(T, {c})>>
    <2>11. body[k] = s \o t
        BY <2>6
    <2> HIDE DEF s, t
    <2>12. s \o t \in StepsOn(A) /\ Leads(s \o t, Changed(p, m, Y, val), Changed(p, m, W \cup {c}, val))
        BY <2>9, <2>10, InSequence DEF s, t, StepsOn
    <2> QED BY <2>2, <2>11, <2>12 DEF Y, q
<1>7. /\ FlattenSeq(body) \in StepsOn(A)
      /\ Leads(FlattenSeq(body), Changed(p, m, X(0), val), Changed(p, m, X(n), val))
    <2> DEFINE Xs == [k \in 0..n |-> X(k)]
    <2>1. \A k \in 1..n : Xs[k - 1] = X(k - 1) /\ Xs[k] = X(k)
        BY <1>1
    <2>2. Xs[0] = X(0) /\ Xs[n] = X(n)
        BY <1>1
    <2>3. DOMAIN body = 1..n /\ body = [k \in 1..n |-> body[k]] /\ n \in Nat
        BY <1>1
    <2> HIDE DEF Xs, X, body
    <2>4. \A k \in 1..n :
            /\ body[k] \in StepsOn(p.alloc)
            /\ Leads(body[k], Changed(p, m, Xs[k - 1], val), Changed(p, m, Xs[k], val))
        BY <1>6, <2>1
    <2>5. /\ FlattenSeq(body) \in StepsOn(p.alloc)
          /\ Leads(FlattenSeq(body), Changed(p, m, Xs[0], val), Changed(p, m, Xs[n], val))
        BY ONLY <2>3, <2>4, LoopChanges
    <2> QED BY <2>2, <2>5
<1>8. ASSUME NEW k \in 1..n
      PROVE  last[k] \in StepsOn(A) /\ Leads(last[k], Changed(p, m, Z, val), Changed(p, m, Z, val))
    <2> DEFINE c == out[k - 1]
               R == {c, sm}
    <2>1. k - 1 \in columns
        BY <1>1
    <2>2. c \in A /\ c \in Z /\ sm \in Z /\ Z \subseteq A /\ R \subseteq A /\ val[c] = V
        BY <1>1, <1>2, <1>3, <2>1
    <2>3. last[k] = <<Then(R, {c})>>
        OBVIOUS
    <2>4. \A r \in R : (r \in Z => val[r] = V) /\ (r \notin Z => m[r] \subseteq V)
        BY <1>3, <2>2
    <2>5. sm \in R
        OBVIOUS
    <2>6. HeldBy(m, Z, val, R) = V
        <3>1. Filled(m, Z, val, R, V)
            BY <2>2, <2>4, <2>5 DEF Filled
        <3> QED BY ONLY <3>1, HeldWithin
    <2> HIDE DEF R, c, Z, last
    <2>7. val[c] = HeldBy(m, Z, val, R) /\ c \in p.alloc /\ Z \subseteq p.alloc /\ R \subseteq p.alloc
        BY <2>2, <2>6
    <2>8. /\ <<Then(R, {c})>> \in StepsOn(p.alloc)
          /\ Leads(<<Then(R, {c})>>, Changed(p, m, Z, val), Changed(p, m, Z \cup {c}, val))
        BY ONLY <2>7, StepChanges
    <2>9. Z \cup {c} = Z
        BY <2>2
    <2> QED BY <2>3, <2>8, <2>9
<1>9. /\ FlattenSeq(last) \in StepsOn(A)
      /\ Leads(FlattenSeq(last), Changed(p, m, Z, val), Changed(p, m, Z, val))
    <2> DEFINE Xs == [k \in 0..n |-> Z]
    <2>1. \A k \in 1..n : Xs[k - 1] = Z /\ Xs[k] = Z
        BY <1>1
    <2>2. Xs[0] = Z /\ Xs[n] = Z
        BY <1>1
    <2>3. DOMAIN last = 1..n /\ last = [k \in 1..n |-> last[k]] /\ n \in Nat
        BY <1>1
    <2> HIDE DEF Xs, Z, last
    <2>4. \A k \in 1..n :
            /\ last[k] \in StepsOn(p.alloc)
            /\ Leads(last[k], Changed(p, m, Xs[k - 1], val), Changed(p, m, Xs[k], val))
        BY <1>8, <2>1
    <2>5. /\ FlattenSeq(last) \in StepsOn(p.alloc)
          /\ Leads(FlattenSeq(last), Changed(p, m, Xs[0], val), Changed(p, m, Xs[n], val))
        BY ONLY <2>3, <2>4, LoopChanges
    <2> QED BY <2>2, <2>5
<1>10. X(0) = {mx} /\ X(n) = Z
    <2>1. 0..(0 - 1) = {} /\ n # 0
        BY <1>1
    <2> QED BY <2>1
<1>11. m \in Changed(p, m, {}, val)
    BY DEF Changed
<1>12. SoftmaxRowSteps(n, in, out, mx, sm) = (first \o FlattenSeq(body)) \o FlattenSeq(last)
    BY DEF SoftmaxRowSteps
<1> HIDE DEF first, body, last, X, Z
<1> DEFINE s == first \o FlattenSeq(body)
<1>13. s \in StepsOn(A) /\ Leads(s, Changed(p, m, {}, val), Changed(p, m, Z, val))
    BY <1>5, <1>7, <1>10, InSequence DEF StepsOn
<1> HIDE DEF s
<1>14. /\ s \o FlattenSeq(last) \in StepsOn(A)
       /\ Leads(s \o FlattenSeq(last), Changed(p, m, {}, val), Changed(p, m, Z, val))
    BY <1>9, <1>13, InSequence DEF StepsOn
<1> DEFINE all == s \o FlattenSeq(last)
<1> HIDE DEF all
<1>15. Leads(all, {m}, Changed(p, m, Z, val))
    BY <1>11, <1>14 DEF Leads, all
<1>16. SoftmaxRowSteps(n, in, out, mx, sm) = all
    BY <1>12 DEF all, s
<1> QED BY <1>14, <1>15, <1>16 DEF all, Z

-------------------------------------------------------------------------------
(* Loops over one index and over two do every row once.                    *)

\* Pass k of a loop does the row key[k]; all do U.
RowPasses(S, G, State, n, body, key, U) ==
    /\ n \in Nat /\ DOMAIN body = 1..n /\ body = [k \in 1..n |-> body[k]]
    /\ key \in [1..n -> G] /\ U = {key[k] : k \in 1..n}
    /\ \A k \in 1..n : Visits(S, G, State, body[k], {key[k]})
    /\ \A j, k \in 1..n : key[j] = key[k] => j = k

(* A loop whose passes do one row each.                                    *)
LEMMA LineVisited ==
    ASSUME NEW S, NEW G, NEW State, NEW n, NEW body, NEW key, NEW U,
           RowPasses(S, G, State, n, body, key, U)
    PROVE  Visits(S, G, State, FlattenSeq(body), U)
<1> DEFINE N == [k \in 1..n |-> {key[k]}]
<1>1. /\ key \in [1..n -> G] /\ U = {key[k] : k \in 1..n}
      /\ n \in Nat /\ DOMAIN body = 1..n /\ body = [k \in 1..n |-> body[k]]
      /\ \A k \in 1..n : Visits(S, G, State, body[k], {key[k]})
      /\ \A j, k \in 1..n : key[j] = key[k] => j = k
    BY DEF RowPasses
<1>2. N \in [1..n -> SUBSET G] /\ \A k \in 1..n : N[k] = {key[k]}
    BY <1>1
<1> HIDE DEF N
<1>3. \A j, k \in 1..n : j # k => N[j] \cap N[k] = {}
    BY <1>1, <1>2
<1>4. UNION {N[k] : k \in 1..n} = U
    BY <1>1, <1>2
<1>5. BodyPasses(S, G, State, n, body, N, U)
    BY <1>1, <1>2, <1>3, <1>4 DEF BodyPasses
<1> QED BY ONLY <1>5, VisitLoop

\* Two nested loops over the rows of a grid.
GridSteps(m, n, row) ==
    FlattenSeq([b \in 1..m |-> FlattenSeq([h \in 1..n |-> row[<<b - 1, h - 1>>]])])

EachVisits(S, G, State, row) == \A r \in G : Visits(S, G, State, row[r], {r})

(* They do them all.                                                       *)
LEMMA GridVisited ==
    ASSUME NEW S, NEW G, NEW State, NEW m \in Nat, NEW n \in Nat,
           G = (0..(m - 1)) \X (0..(n - 1)),
           NEW row, EachVisits(S, G, State, row)
    PROVE  Visits(S, G, State, GridSteps(m, n, row), G)
<1> DEFINE Inner(b) == [h \in 1..n |-> row[<<b - 1, h - 1>>]]
           body == [b \in 1..m |-> FlattenSeq(Inner(b))]
           N == [b \in 1..m |-> {<<b - 1, h - 1>> : h \in 1..n}]
<1>1. \A b \in 1..m, h \in 1..n : <<b - 1, h - 1>> \in G
    BY SMT
<1>2. ASSUME NEW b \in 1..m
      PROVE  Visits(S, G, State, FlattenSeq(Inner(b)), N[b])
    <2> DEFINE key == [h \in 1..n |-> <<b - 1, h - 1>>]
               f == Inner(b)
    <2>1. key \in [1..n -> G] /\ \A h \in 1..n : key[h] = <<b - 1, h - 1>>
        BY <1>1
    <2>2. DOMAIN f = 1..n /\ f = [h \in 1..n |-> f[h]] /\ \A h \in 1..n : f[h] = row[key[h]]
        OBVIOUS
    <2>3. \A j, k \in 1..n : key[j] = key[k] => j = k
        <3> TAKE j, k \in 1..n
        <3> SUFFICES ASSUME key[j] = key[k] PROVE j = k
            OBVIOUS
        <3>1. <<b - 1, j - 1>> = <<b - 1, k - 1>>
            BY <2>1
        <3>2. j - 1 = k - 1
            BY ONLY <3>1
        <3> QED BY <3>2
    <2>4. N[b] = {key[h] : h \in 1..n}
        OBVIOUS
    <2> HIDE DEF key, f, N
    <2>5. \A h \in 1..n : Visits(S, G, State, f[h], {key[h]})
        BY <2>1, <2>2 DEF EachVisits
    <2>6. RowPasses(S, G, State, n, f, key, N[b])
        BY <2>1, <2>2, <2>3, <2>4, <2>5 DEF RowPasses
    <2>7. Visits(S, G, State, FlattenSeq(f), N[b])
        BY ONLY <2>6, LineVisited
    <2> QED BY <2>7 DEF f
<1>3. N \in [1..m -> SUBSET G]
    BY <1>1
<1>4. \A j, k \in 1..m : j # k => N[j] \cap N[k] = {}
    <2> TAKE j, k \in 1..m
    <2> SUFFICES ASSUME j # k, NEW x \in N[j], x \in N[k] PROVE FALSE
        OBVIOUS
    <2>1. x[1] = j - 1 /\ x[1] = k - 1
        OBVIOUS
    <2> QED BY <2>1
<1>5. UNION {N[k] : k \in 1..m} = G
    <2>1. ASSUME NEW x \in G PROVE \E k \in 1..m : x \in N[k]
        <3>1. x = <<x[1], x[2]>> /\ x[1] \in 0..(m - 1) /\ x[2] \in 0..(n - 1)
            OBVIOUS
        <3> DEFINE k == x[1] + 1
                   h == x[2] + 1
        <3>2. k \in 1..m /\ h \in 1..n /\ k - 1 = x[1] /\ h - 1 = x[2]
            BY <3>1
        <3> HIDE DEF k, h
        <3>3. x = <<k - 1, h - 1>>
            BY <3>1, <3>2
        <3>4. x \in N[k]
            BY <3>2, <3>3
        <3> QED BY <3>2, <3>4
    <2> HIDE DEF N
    <2>2. UNION {N[k] : k \in 1..m} \subseteq G
        BY <1>3
    <2> QED BY <2>1, <2>2
<1>6. DOMAIN body = 1..m /\ body = [b \in 1..m |-> body[b]] /\ \A b \in 1..m : body[b] = FlattenSeq(Inner(b))
    OBVIOUS
<1>7. \A b \in 1..m : Visits(S, G, State, body[b], N[b])
    BY <1>2, <1>6
<1> HIDE DEF body, N
<1>8. BodyPasses(S, G, State, m, body, N, G)
    BY <1>3, <1>4, <1>5, <1>6, <1>7 DEF BodyPasses
<1>9. Visits(S, G, State, FlattenSeq(body), G)
    BY ONLY <1>8, VisitLoop
<1> QED BY <1>9 DEF body, GridSteps

-------------------------------------------------------------------------------
(* The norm of the CPU: its rows.                                          *)

\* Row [b, h] of t in the norm of the CPU.
CpuNormRow(l, t, r) == [k \in 0..(NormDim(l.out) - 1) |-> NormElement(t, r[1], r[2], k)]

CpuNormGrid(l) == (0..(NormBatch(l.out) - 1)) \X (0..(NormHeads(l.out) - 1))

(* Its rows are those of the CUDA kernel, by pairs of batch and head.      *)
LEMMA CpuNormPairs ==
    ASSUME NEW l, CpuNormLaunch(l)
    PROVE  /\ NormBatch(l.out) \in Nat \ {0} /\ NormHeads(l.out) \in Nat \ {0}
           /\ \A r \in CpuNormGrid(l) : \E q \in NormGrid(l) :
                 /\ r = <<q \div NormHeads(l.out), q % NormHeads(l.out)>>
                 /\ \A t : CpuNormRow(l, t, r) = NormRow(l, t, q)
           /\ \A q \in NormGrid(l) : \E r \in CpuNormGrid(l) :
                 \A t : CpuNormRow(l, t, r) = NormRow(l, t, q)
<1> DEFINE nb == NormBatch(l.out)
           nh == NormHeads(l.out)
           Pair(q) == <<q \div nh, q % nh>>
<1>1. nb \in Nat \ {0} /\ nh \in Nat \ {0}
    <2>1. RowTensor(l.out, l.out.shape)
        BY DEF CpuNormLaunch
    <2>2. NDim(l.out) \in {2, 3}
        BY <2>1 DEF RowTensor
    <2>3. CASE NDim(l.out) = 2
        BY <2>1, <2>3, RowTensorSizes DEF NormBatch, NormHeads
    <2>4. CASE NDim(l.out) = 3
        BY <2>1, <2>4, RowTensorSizes DEF NormBatch, NormHeads
    <2> QED BY <2>2, <2>3, <2>4
<1>2. /\ \A q \in 0..(nb * nh - 1) : q \div nh \in 0..(nb - 1) /\ q % nh \in 0..(nh - 1)
      /\ \A b \in 0..(nb - 1), h \in 0..(nh - 1) :
            \E q \in 0..(nb * nh - 1) : q \div nh = b /\ q % nh = h
    <2> HIDE DEF nb, nh
    <2> QED BY <1>1, GridPairs
<1>3. NormGrid(l) = 0..(nb * nh - 1) /\ CpuNormGrid(l) = (0..(nb - 1)) \X (0..(nh - 1))
    BY DEF NormGrid, CpuNormGrid
<1>4. \A q, t : CpuNormRow(l, t, Pair(q)) = NormRow(l, t, q)
    BY DEF CpuNormRow, NormRow
<1> HIDE DEF nb, nh
<1>5. ASSUME NEW r \in CpuNormGrid(l)
      PROVE  \E q \in NormGrid(l) : r = Pair(q) /\ \A t : CpuNormRow(l, t, r) = NormRow(l, t, q)
    <2>1. r = <<r[1], r[2]>> /\ r[1] \in 0..(nb - 1) /\ r[2] \in 0..(nh - 1)
        BY <1>3
    <2>2. PICK q \in 0..(nb * nh - 1) : q \div nh = r[1] /\ q % nh = r[2]
        BY <1>2, <2>1
    <2>3. r = Pair(q)
        BY <2>1, <2>2, Zenon
    <2> QED BY <1>3, <1>4, <2>3
<1>6. ASSUME NEW q \in NormGrid(l)
      PROVE  \E r \in CpuNormGrid(l) : \A t : CpuNormRow(l, t, r) = NormRow(l, t, q)
    <2>1. Pair(q) \in CpuNormGrid(l)
        BY <1>2, <1>3
    <2> QED BY <1>4, <2>1
<1> QED BY <1>1, <1>5, <1>6 DEF nb, nh

CpuNormRows(l, t) == [r \in CpuNormGrid(l) |-> CpuNormRow(l, t, r)]

\* The cells of the norm on the CPU, and what they are to hold.
CpuNormPlaces(l) ==
    LET columns == 0..(NormDim(l.out) - 1)
        in  == CpuNormRows(l, l.input)
        out == CpuNormRows(l, l.out)
    IN  /\ NormDim(l.out) \in Nat \ {0}
        /\ \A r \in CpuNormGrid(l) : \A k \in columns :
              /\ in[r][k] \in Cells(l.input) /\ in[r][k][1] = l.input.buffer
              /\ out[r][k] \in Cells(l.out) /\ out[r][k][1] = l.out.buffer
              /\ RmsNormFrom(l)[out[r][k]] = {in[r][j] : j \in columns} \cup {At(l.weight, k)}
        /\ \A k \in columns : /\ At(l.weight, k) \in Cells(l.weight)
                               /\ At(l.weight, k)[1] = l.weight.buffer
        /\ \A r, s \in CpuNormGrid(l) : \A j, k \in columns :
              /\ out[r][j] = out[s][k] => r = s /\ j = k
              /\ in[r][j] = out[s][k] => r = s /\ j = k
        /\ \A c \in DOMAIN RmsNormFrom(l) :
              \E r \in CpuNormGrid(l) : \E k \in columns : c = out[r][k]

(* They are apart, as the definitions of the operands have it.             *)
LEMMA CpuNormCells ==
    ASSUME NEW l, CpuNormLaunch(l)
    PROVE  CpuNormPlaces(l)
<1> DEFINE n == NormDim(l.out)
           columns == 0..(n - 1)
           G == CpuNormGrid(l)
           in == CpuNormRows(l, l.input)
           out == CpuNormRows(l, l.out)
           cin == NormRows(l, l.input)
           cout == NormRows(l, l.out)
           grid == NormGrid(l)
           from == RmsNormFrom(l)
<1>1. /\ RowTensor(l.input, l.out.shape) /\ RowTensor(l.out, l.out.shape)
      /\ DistinctElements(l.out) /\ VectorTensor(l.weight, n) /\ InPlaceOrApart(l.input, l.out)
    BY DEF CpuNormLaunch
<1>2. /\ n \in Nat \ {0} /\ RowsFound(l, n, cin, cout)
      /\ \A k \in columns : At(l.weight, k) \in Cells(l.weight)
      /\ CudaNormByRows(l)
    <2>1. CudaNormOperands(l)
        BY <1>1 DEF CudaNormOperands, RowOperands
    <2> QED BY <2>1, CudaNormReference
<1>3. /\ \A q \in grid : \A j \in columns : cin[q][j] \in Cells(l.input) /\ cout[q][j] \in Cells(l.out)
      /\ \A q, s \in grid : \A j, k \in columns : cout[q][j] = cout[s][k] => q = s /\ j = k
    <2>1. DOMAIN cout = grid
        BY DEF NormRows
    <2> HIDE DEF cin, cout, n
    <2> QED BY <1>2, <2>1 DEF RowsFound
<1>4. /\ DOMAIN from = UNION {{cout[q][k] : k \in columns} : q \in grid}
      /\ \A q \in grid : \A k \in columns :
            from[cout[q][k]] = {cin[q][j] : j \in columns} \cup {At(l.weight, k)}
    BY <1>2 DEF CudaNormByRows
<1>5. \A q \in grid : cin[q] = NormRow(l, l.input, q) /\ cout[q] = NormRow(l, l.out, q)
    BY DEF NormRows
<1>6. /\ \A r \in G : in[r] = CpuNormRow(l, l.input, r) /\ out[r] = CpuNormRow(l, l.out, r)
      /\ \A r \in G : \A k \in columns : /\ in[r][k] = NormElement(l.input, r[1], r[2], k)
                                         /\ out[r][k] = NormElement(l.out, r[1], r[2], k)
    BY DEF CpuNormRow, CpuNormRows
<1>0. CpuNormPlaces(l) <=>
        /\ n \in Nat \ {0}
        /\ \A r \in G : \A k \in columns :
              /\ in[r][k] \in Cells(l.input) /\ in[r][k][1] = l.input.buffer
              /\ out[r][k] \in Cells(l.out) /\ out[r][k][1] = l.out.buffer
              /\ from[out[r][k]] = {in[r][j] : j \in columns} \cup {At(l.weight, k)}
        /\ \A k \in columns : /\ At(l.weight, k) \in Cells(l.weight)
                               /\ At(l.weight, k)[1] = l.weight.buffer
        /\ \A r, s \in G : \A j, k \in columns :
              /\ out[r][j] = out[s][k] => r = s /\ j = k
              /\ in[r][j] = out[s][k] => r = s /\ j = k
        /\ \A c \in DOMAIN from : \E r \in G : \E k \in columns : c = out[r][k]
    BY DEF CpuNormPlaces
<1> HIDE DEF in, out, cin, cout, n, grid, from, G
<1>7. /\ \A r \in G : \E q \in grid : /\ r = <<q \div NormHeads(l.out), q % NormHeads(l.out)>>
                                      /\ in[r] = cin[q] /\ out[r] = cout[q]
      /\ \A q \in grid : \E r \in G : in[r] = cin[q] /\ out[r] = cout[q]
    BY <1>5, <1>6, CpuNormPairs DEF G, grid
<1>8. \A r \in G : \A k \in columns :
        /\ in[r][k] \in Cells(l.input) /\ in[r][k][1] = l.input.buffer
        /\ out[r][k] \in Cells(l.out) /\ out[r][k][1] = l.out.buffer
        /\ from[out[r][k]] = {in[r][j] : j \in columns} \cup {At(l.weight, k)}
    <2> TAKE r \in G
    <2> TAKE k \in columns
    <2>1. PICK q \in grid : in[r] = cin[q] /\ out[r] = cout[q]
        BY <1>7
    <2>2. in[r][k][1] = l.input.buffer /\ out[r][k][1] = l.out.buffer
        BY <1>6 DEF NormElement, At
    <2> QED BY <1>3, <1>4, <2>1, <2>2
<1>9. \A r, s \in G : \A j, k \in columns : out[r][j] = out[s][k] => r = s /\ j = k
    <2> TAKE r, s \in G
    <2> TAKE j, k \in columns
    <2> SUFFICES ASSUME out[r][j] = out[s][k] PROVE r = s /\ j = k
        OBVIOUS
    <2>1. PICK q \in grid : /\ r = <<q \div NormHeads(l.out), q % NormHeads(l.out)>>
                            /\ out[r] = cout[q]
        BY <1>7
    <2>2. PICK u \in grid : /\ s = <<u \div NormHeads(l.out), u % NormHeads(l.out)>>
                            /\ out[s] = cout[u]
        BY <1>7
    <2>3. q = u /\ j = k
        BY <1>3, <2>1, <2>2
    <2> QED BY ONLY <2>1, <2>2, <2>3, Zenon
<1>10. \A r, s \in G : \A j, k \in columns : in[r][j] = out[s][k] => r = s /\ j = k
    <2> TAKE r, s \in G
    <2> TAKE j, k \in columns
    <2> SUFFICES ASSUME in[r][j] = out[s][k] PROVE r = s /\ j = k
        OBVIOUS
    <2>1. l.input.buffer = l.out.buffer
        BY <1>8
    <2>2. l.input.base = l.out.base /\ l.input.strides = l.out.strides /\ l.input.shape = l.out.shape
        BY <1>1, <2>1 DEF InPlaceOrApart, RowTensor
    <2>3. NormElement(l.input, r[1], r[2], j) = NormElement(l.out, r[1], r[2], j)
        BY <2>1, <2>2 DEF NormElement, At, NDim, Stride
    <2>4. in[r][j] = out[r][j]
        BY <1>6, <2>3
    <2>5. out[r][j] = out[s][k]
        BY <2>4
    <2> HIDE DEF columns
    <2> QED BY <1>9, <2>5
<1>11. \A c \in DOMAIN from : \E r \in G : \E k \in columns : c = out[r][k]
    BY <1>4, <1>7
<1>12. \A k : At(l.weight, k)[1] = l.weight.buffer
    BY DEF At
<1>13. n \in Nat \ {0} /\ \A k \in columns : At(l.weight, k) \in Cells(l.weight)
    BY <1>2
<1> HIDE DEF columns
<1>14. \A k \in columns : /\ At(l.weight, k) \in Cells(l.weight)
                          /\ At(l.weight, k)[1] = l.weight.buffer
    BY <1>12, <1>13
<1>15. \A r, s \in G : \A j, k \in columns :
        /\ out[r][j] = out[s][k] => r = s /\ j = k
        /\ in[r][j] = out[s][k] => r = s /\ j = k
    BY <1>9, <1>10
<1> QED BY <1>0, <1>8, <1>11, <1>13, <1>14, <1>15

-------------------------------------------------------------------------------
(* The norm of the CPU: its launch.                                        *)

CpuNormWeight(l) == [k \in 0..(NormDim(l.out) - 1) |-> At(l.weight, k)]

CpuNormSteps(l) ==
    [r \in CpuNormGrid(l) |->
        NormRowSteps(NormDim(l.out), CpuNormRows(l, l.input)[r], CpuNormWeight(l),
                     CpuNormRows(l, l.out)[r], Local("rms", r))]

(* The program of the norm is a loop over its rows.                        *)
LEMMA CpuNormProgram ==
    ASSUME NEW l, CpuNormLaunch(l)
    PROVE  LET p == CpuRmsNorm(l)
           IN  /\ p.work = Serial(GridSteps(NormBatch(l.out), NormHeads(l.out), CpuNormSteps(l)))
               /\ p.alloc = Cells(l.input) \cup Cells(l.weight) \cup Cells(l.out)
                            \cup ({"rms"} \X CpuNormGrid(l))
               /\ p.inputs = Cells(l.input) \cup Cells(l.weight)
               /\ p.required = RmsNormFrom(l) /\ p.allowed = RmsNormFrom(l)
<1> DEFINE p == CpuRmsNorm(l)
           n == NormDim(l.out)
           nb == NormBatch(l.out)
           nh == NormHeads(l.out)
           columns == 0..(n - 1)
           in == CpuNormRows(l, l.input)
           out == CpuNormRows(l, l.out)
           w == CpuNormWeight(l)
           Row(b, h) ==
            <<Then({NormElement(l.input, b, h, k) : k \in 0..(NormDim(l.out) - 1)},
                   {Local("rms", <<b, h>>)})>>
            \o Loop(NormDim(l.out), LAMBDA k :
                   <<Then({NormElement(l.input, b, h, k), At(l.weight, k),
                           Local("rms", <<b, h>>)},
                          {NormElement(l.out, b, h, k)})>>)
<1>1. n \in Nat \ {0} /\ nb \in Nat \ {0} /\ nh \in Nat \ {0}
    BY CpuNormPairs, CpuNormCells DEF CpuNormPlaces
<1>2. ASSUME NEW r \in CpuNormGrid(l) PROVE Row(r[1], r[2]) = CpuNormSteps(l)[r]
    <2> DEFINE f == [k \in 1..n |-> <<Then({NormElement(l.input, r[1], r[2], k - 1),
                                            At(l.weight, k - 1), Local("rms", <<r[1], r[2]>>)},
                                           {NormElement(l.out, r[1], r[2], k - 1)})>>]
               g == [k \in 1..n |-> <<Then({in[r][k - 1], w[k - 1], Local("rms", r)},
                                           {out[r][k - 1]})>>]
    <2>1. r = <<r[1], r[2]>>
        BY DEF CpuNormGrid
    <2>2. \A k \in columns : /\ in[r][k] = NormElement(l.input, r[1], r[2], k)
                             /\ out[r][k] = NormElement(l.out, r[1], r[2], k)
                             /\ w[k] = At(l.weight, k)
        BY DEF CpuNormRows, CpuNormRow, CpuNormWeight
    <2>3. {NormElement(l.input, r[1], r[2], k) : k \in columns} = {in[r][k] : k \in columns}
        BY <2>2
    <2>4. \A k \in 1..n : k - 1 \in columns
        BY <1>1
    <2>5. f = g
        <3> HIDE DEF in, out, w, columns
        <3> QED BY <2>1, <2>2, <2>4
    <2>6. Row(r[1], r[2]) = <<Then({NormElement(l.input, r[1], r[2], k) : k \in columns},
                                   {Local("rms", <<r[1], r[2]>>)})>> \o FlattenSeq(f)
        BY DEF Loop
    <2>7. CpuNormSteps(l)[r]
             = <<Then({in[r][k] : k \in columns}, {Local("rms", r)})>> \o FlattenSeq(g)
        BY DEF CpuNormSteps, NormRowSteps
    <2> HIDE DEF f, g, Row, in
    <2> QED BY <2>1, <2>3, <2>5, <2>6, <2>7
<1>3. p.work = Serial(FlattenSeq([b \in 1..nb |-> FlattenSeq([h \in 1..nh |-> Row(b - 1, h - 1)])]))
    BY DEF CpuRmsNorm, Program, Loop
<1>4. ASSUME NEW b \in 1..nb, NEW h \in 1..nh
      PROVE  Row(b - 1, h - 1) = CpuNormSteps(l)[<<b - 1, h - 1>>]
    <2>1. b - 1 \in 0..(nb - 1) /\ h - 1 \in 0..(nh - 1)
        BY <1>1
    <2>2. <<b - 1, h - 1>> \in CpuNormGrid(l)
        BY <2>1 DEF CpuNormGrid
    <2>3. <<b - 1, h - 1>>[1] = b - 1 /\ <<b - 1, h - 1>>[2] = h - 1
        OBVIOUS
    <2> DEFINE r == <<b - 1, h - 1>>
    <2> HIDE DEF r, Row
    <2>4. Row(r[1], r[2]) = CpuNormSteps(l)[r]
        BY <1>2, <2>2 DEF r
    <2> QED BY <2>3, <2>4 DEF r
<1>5. \A b \in 1..nb : FlattenSeq([h \in 1..nh |-> Row(b - 1, h - 1)])
                     = FlattenSeq([h \in 1..nh |-> CpuNormSteps(l)[<<b - 1, h - 1>>]])
    <2> TAKE b \in 1..nb
    <2> HIDE DEF Row, nh, nb
    <2>1. [h \in 1..nh |-> Row(b - 1, h - 1)] = [h \in 1..nh |-> CpuNormSteps(l)[<<b - 1, h - 1>>]]
        BY <1>4
    <2> QED BY <2>1
<1>6. p.work = Serial(GridSteps(nb, nh, CpuNormSteps(l)))
    <2> HIDE DEF Row, nh, nb, p
    <2>1. [b \in 1..nb |-> FlattenSeq([h \in 1..nh |-> Row(b - 1, h - 1)])]
            = [b \in 1..nb |-> FlattenSeq([h \in 1..nh |-> CpuNormSteps(l)[<<b - 1, h - 1>>]])]
        BY <1>5
    <2> QED BY <1>3, <2>1 DEF GridSteps
<1>7. /\ p.required = RmsNormFrom(l) /\ p.allowed = RmsNormFrom(l)
      /\ p.inputs = UNION {Cells(t) : t \in {l.input, l.weight}}
      /\ p.alloc = (UNION {Cells(t) : t \in {l.input, l.weight} \cup {l.out}})
                   \cup ({"rms"} \X ((0..(nb - 1)) \X (0..(nh - 1))))
    BY DEF CpuRmsNorm, Program
<1>8. /\ UNION {Cells(t) : t \in {l.input, l.weight}} = Cells(l.input) \cup Cells(l.weight)
      /\ (UNION {Cells(t) : t \in {l.input, l.weight} \cup {l.out}})
           = Cells(l.input) \cup Cells(l.weight) \cup Cells(l.out)
    OBVIOUS
<1>9. CpuNormGrid(l) = (0..(nb - 1)) \X (0..(nh - 1))
    BY DEF CpuNormGrid
<1> HIDE DEF p
<1>10. /\ p.alloc = Cells(l.input) \cup Cells(l.weight) \cup Cells(l.out)
                            \cup ({"rms"} \X CpuNormGrid(l))
       /\ p.inputs = Cells(l.input) \cup Cells(l.weight)
    BY <1>7, <1>8, <1>9
<1> QED BY <1>6, <1>7, <1>10 DEF p

(* It runs right: its rows do not depend on each other, in place too.      *)
LEMMA CpuNormRuns ==
    ASSUME NEW l, CpuNormLaunch(l)
    PROVE  RunsRight(CpuRmsNorm(l))
<1> DEFINE p == CpuRmsNorm(l)
           n == NormDim(l.out)
           nb == NormBatch(l.out)
           nh == NormHeads(l.out)
           columns == 0..(n - 1)
           G == CpuNormGrid(l)
           in == CpuNormRows(l, l.input)
           out == CpuNormRows(l, l.out)
           w == CpuNormWeight(l)
           loc == [r \in G |-> Local("rms", r)]
           In == [r \in G |-> {in[r][k] : k \in columns} \cup {w[k] : k \in columns}]
           Own == [r \in G |-> {loc[r]} \cup {out[r][k] : k \in columns}]
           Out == [r \in G |-> {out[r][k] : k \in columns}]
           row == CpuNormSteps(l)
           from == RmsNormFrom(l)
           steps == GridSteps(nb, nh, row)
<1>1. /\ p.work = Serial(steps) /\ p.required = from /\ p.allowed = from
      /\ p.alloc = Cells(l.input) \cup Cells(l.weight) \cup Cells(l.out) \cup ({"rms"} \X G)
      /\ p.inputs = Cells(l.input) \cup Cells(l.weight)
    BY CpuNormProgram
<1>2. /\ n \in Nat \ {0}
      /\ \A r \in G : \A k \in columns :
            /\ in[r][k] \in Cells(l.input) /\ in[r][k][1] = l.input.buffer
            /\ out[r][k] \in Cells(l.out) /\ out[r][k][1] = l.out.buffer
            /\ from[out[r][k]] = {in[r][j] : j \in columns} \cup {At(l.weight, k)}
      /\ \A k \in columns : /\ At(l.weight, k) \in Cells(l.weight)
                             /\ At(l.weight, k)[1] = l.weight.buffer
      /\ \A r, s \in G : \A j, k \in columns :
            /\ out[r][j] = out[s][k] => r = s /\ j = k
            /\ in[r][j] = out[s][k] => r = s /\ j = k
      /\ \A c \in DOMAIN from : \E r \in G : \E k \in columns : c = out[r][k]
    <2>1. CpuNormPlaces(l) <=>
            /\ n \in Nat \ {0}
            /\ \A r \in G : \A k \in columns :
                  /\ in[r][k] \in Cells(l.input) /\ in[r][k][1] = l.input.buffer
                  /\ out[r][k] \in Cells(l.out) /\ out[r][k][1] = l.out.buffer
                  /\ from[out[r][k]] = {in[r][j] : j \in columns} \cup {At(l.weight, k)}
            /\ \A k \in columns : /\ At(l.weight, k) \in Cells(l.weight)
                                   /\ At(l.weight, k)[1] = l.weight.buffer
            /\ \A r, s \in G : \A j, k \in columns :
                  /\ out[r][j] = out[s][k] => r = s /\ j = k
                  /\ in[r][j] = out[s][k] => r = s /\ j = k
            /\ \A c \in DOMAIN from : \E r \in G : \E k \in columns : c = out[r][k]
        BY DEF CpuNormPlaces
    <2>2. CpuNormPlaces(l)
        BY CpuNormCells
    <2> HIDE DEF n, G, in, out, from, columns
    <2> QED BY <2>1, <2>2
<1>13. nb \in Nat \ {0} /\ nh \in Nat \ {0} /\ G = (0..(nb - 1)) \X (0..(nh - 1))
    BY CpuNormPairs DEF CpuNormGrid
<1>14. \A k \in columns : w[k] = At(l.weight, k)
    BY DEF CpuNormWeight
<1>3. /\ l.weight.buffer # l.out.buffer
      /\ "rms" \notin {l.input.buffer, l.weight.buffer, l.out.buffer}
    BY DEF CpuNormLaunch, LocalMemory
<1>4. \A r \in G : row[r] = NormRowSteps(n, in[r], w, out[r], loc[r])
    BY DEF CpuNormSteps
<1>5. \A r \in G : loc[r] \in {"rms"} \X G /\ loc[r][1] = "rms" /\ loc[r][2] = r
    BY DEF Local
<1>6. \A r \in G : /\ In[r] = {in[r][k] : k \in columns} \cup {w[k] : k \in columns}
                   /\ Own[r] = {loc[r]} \cup {out[r][k] : k \in columns}
                   /\ Out[r] = {out[r][k] : k \in columns}
    OBVIOUS
<1> HIDE DEF p, n, nb, nh, G, in, out, w, loc, In, Own, Out, row, from, steps
<1>7. ASSUME NEW r \in G PROVE NormRowPlaces(p, n, in[r], w, out[r], loc[r])
    <2>1. n \in Nat \ {0} /\ loc[r] \in p.alloc
        BY <1>1, <1>2, <1>5
    <2>2. \A k \in columns :
            /\ in[r][k] \in p.inputs \cap p.alloc /\ w[k] \in p.inputs \cap p.alloc
            /\ out[r][k] \in p.alloc
        BY <1>1, <1>2, <1>14
    <2>3. \A k \in columns : loc[r] \notin {in[r][k], w[k], out[r][k]}
        BY <1>2, <1>3, <1>5, <1>14
    <2>4. \A k \in columns : /\ p.required[out[r][k]] = {in[r][j] : j \in columns} \cup {w[k]}
                             /\ p.allowed[out[r][k]] = p.required[out[r][k]]
        <3> TAKE k \in columns
        <3>1. from[out[r][k]] = {in[r][j] : j \in columns} \cup {At(l.weight, k)}
            <4> HIDE DEF columns
            <4> QED BY <1>2, ZenonT(60)
        <3>2. w[k] = At(l.weight, k) /\ p.required = from /\ p.allowed = from
            BY <1>1, <1>14
        <3> HIDE DEF columns
        <3> QED BY <3>1, <3>2
    <2>5. \A j, k \in columns : /\ out[r][j] = out[r][k] => j = k
                                /\ in[r][j] = out[r][k] => j = k
                                /\ w[j] # out[r][k]
        BY <1>2, <1>3, <1>14
    <2> QED BY <2>1, <2>2, <2>3, <2>4, <2>5 DEF NormRowPlaces
<1>8. ASSUME NEW r \in G PROVE DoesRow(p, row[r], In[r], Own[r], Out[r])
    <2> DEFINE i == in[r]
               o == out[r]
               c == loc[r]
    <2>1. NormRowPlaces(p, n, i, w, o, c)
        BY <1>7
    <2> HIDE DEF i, o, c
    <2>2. DoesRow(p, NormRowSteps(n, i, w, o, c),
                  {i[k] : k \in 0..(n - 1)} \cup {w[k] : k \in 0..(n - 1)},
                  {c} \cup {o[k] : k \in 0..(n - 1)}, {o[k] : k \in 0..(n - 1)})
        BY ONLY <2>1, NormRowDone
    <2> QED BY <1>4, <1>6, <2>2 DEF i, o, c
<1>9. RowsOfTheirOwn(p, G, In, Own, Out)
    <2>1. \A r \in G : In[r] \subseteq p.alloc /\ Out[r] \subseteq p.alloc
        BY <1>1, <1>2, <1>6, <1>14
    <2>2. ASSUME NEW r \in G, NEW s \in G, r # s, NEW x \in Own[r]
          PROVE  x \notin In[s] \cup Out[s]
        <3>1. CASE x = loc[r]
            <4>1. \A y \in In[s] \cup Out[s] : y[1] # "rms"
                BY <1>2, <1>3, <1>6, <1>14
            <4> QED BY <1>5, <3>1, <4>1
        <3>2. CASE x # loc[r]
            <4>1. PICK k \in columns : x = out[r][k]
                BY <1>6, <2>2, <3>2
            <4>2. \A j \in columns : x # in[s][j] /\ x # out[s][j] /\ x # w[j]
                BY <1>2, <1>3, <1>14, <2>2, <4>1
            <4> QED BY <1>6, <4>2
        <3> QED BY <3>1, <3>2
    <2>3. DOMAIN p.required \subseteq UNION {Out[r] : r \in G}
        BY <1>1, <1>2, <1>6
    <2> QED BY <2>1, <2>2, <2>3 DEF RowsOfTheirOwn
<1> DEFINE A == ItemsOn(p.alloc)
           State == RowState(p, G, In, Out)
<1>10. \A r \in G : Visits(A, G, State, row[r], {r})
    <2> TAKE r \in G
    <2> DEFINE s == row[r]
    <2>1. DoesRow(p, s, In[r], Own[r], Out[r])
        BY <1>8
    <2> HIDE DEF s
    <2>2. Visits(ItemsOn(p.alloc), G, RowState(p, G, In, Out), s, {r})
        BY ONLY <1>9, <2>1, r \in G, RowVisited
    <2> QED BY <2>2 DEF s
<1> HIDE DEF A, State
<1>11. Visits(A, G, State, steps, G)
    <2>1. nb \in Nat /\ nh \in Nat /\ EachVisits(A, G, State, row)
        BY <1>13, <1>10 DEF EachVisits
    <2>2. Visits(A, G, State, GridSteps(nb, nh, row), G)
        BY ONLY <1>13, <2>1, GridVisited
    <2> QED BY <2>2 DEF steps
<1>12. RunsRight(p)
    BY <1>1, <1>9, <1>11, RowsRun DEF A, State
<1> QED BY <1>12 DEF p

-------------------------------------------------------------------------------
(* The row of a softmax that masks its last cells.                         *)

\* A row of which the softmax takes the first v of its n cells: the others of
\* the result are cleared.
MaskSteps(n, v, out) == FlattenSeq([j \in 1..(n - v) |-> <<Then({}, {out[v + (j - 1)]})>>])

MaskedRowSteps(n, v, in, out, mx, sm) ==
    MaskSteps(n, v, out) \o SoftmaxRowSteps(v, in, out, mx, sm)

MaskedRowPlaces(p, n, v, in, out, mx, sm) ==
    /\ n \in Nat \ {0} /\ v \in 1..n
    /\ mx \in p.alloc /\ sm \in p.alloc \ p.inputs /\ mx # sm
    /\ \A k \in 0..(n - 1) :
          /\ in[k] \in p.inputs \cap p.alloc /\ out[k] \in p.alloc
          /\ {mx, sm} \cap {in[k], out[k]} = {}
          /\ p.required[out[k]] = IF k < v THEN {in[j] : j \in 0..(v - 1)} ELSE {}
          /\ p.allowed[out[k]] = p.required[out[k]]
    /\ \A j, k \in 0..(n - 1) :
          /\ out[j] = out[k] => j = k
          /\ in[j] = out[k] => j = k

(* The mask clears what is beyond v.                                       *)
LEMMA MaskLeads ==
    ASSUME NEW p, NEW n \in Nat \ {0}, NEW v \in 1..n, NEW out, NEW m,
           \A k \in 0..(n - 1) : out[k] \in p.alloc,
           NEW Z, Z = {out[v + (j - 1)] : j \in 1..(n - v)},
           NEW val, val = [c \in Z |-> {}]
    PROVE  /\ MaskSteps(n, v, out) \in StepsOn(p.alloc)
           /\ Leads(MaskSteps(n, v, out), Changed(p, m, {}, val), Changed(p, m, Z, val))
<1> DEFINE w == n - v
           X == [k \in 0..w |-> {out[v + (j - 1)] : j \in 1..k}]
           body == [j \in 1..w |-> <<Then({}, {out[v + (j - 1)]})>>]
<1>1. w \in Nat /\ \A j \in 1..w : v + (j - 1) \in 0..(n - 1)
    OBVIOUS
<1>2. X[0] = {} /\ X[w] = Z
    BY <1>1
<1>3. DOMAIN body = 1..w /\ body = [j \in 1..w |-> body[j]]
    OBVIOUS
<1>4. ASSUME NEW k \in 1..w
      PROVE  /\ body[k] \in StepsOn(p.alloc)
             /\ Leads(body[k], Changed(p, m, X[k - 1], val), Changed(p, m, X[k], val))
    <2> DEFINE c == out[v + (k - 1)]
               Y == X[k - 1]
               R == {}
    <2>1. k - 1 \in 0..w /\ k \in 0..w /\ 1..k = (1..(k - 1)) \cup {k}
        BY <1>1
    <2>2. X[k] = Y \cup {c}
        BY <2>1
    <2>3. c \in p.alloc /\ c \in Z /\ val[c] = {}
        BY <1>1
    <2>4. Y \subseteq p.alloc
        BY <1>1, <2>1
    <2>5. body[k] = <<Then(R, {c})>> /\ R \subseteq p.alloc
        OBVIOUS
    <2>6. HeldBy(m, Y, val, R) = {}
        BY DEF HeldBy
    <2> HIDE DEF X, body, c, Y, R
    <2>7. /\ <<Then(R, {c})>> \in StepsOn(p.alloc)
          /\ Leads(<<Then(R, {c})>>, Changed(p, m, Y, val), Changed(p, m, Y \cup {c}, val))
        <3>1. val[c] = HeldBy(m, Y, val, R)
            BY <2>3, <2>6
        <3> QED BY ONLY <2>3, <2>4, <2>5, <3>1, StepChanges
    <2> QED BY <2>2, <2>5, <2>7 DEF Y
<1>5. MaskSteps(n, v, out) = FlattenSeq(body)
    BY DEF MaskSteps
<1> HIDE DEF X, body, w
<1>6. /\ FlattenSeq(body) \in StepsOn(p.alloc)
      /\ Leads(FlattenSeq(body), Changed(p, m, X[0], val), Changed(p, m, X[w], val))
    BY ONLY <1>1, <1>3, <1>4, LoopChanges
<1> QED BY <1>2, <1>5, <1>6

(* So the row is computed, in place or not.                                *)
LEMMA MaskedRowDone ==
    ASSUME NEW p, NEW n, NEW v, NEW in, NEW out, NEW mx, NEW sm,
           MaskedRowPlaces(p, n, v, in, out, mx, sm),
           NEW outs, outs = {out[k] : k \in 0..(n - 1)}
    PROVE  DoesRow(p, MaskedRowSteps(n, v, in, out, mx, sm),
                   {in[j] : j \in 0..(v - 1)} \cup {sm}, {mx, sm} \cup outs, outs)
<1> DEFINE columns == 0..(n - 1)
           seen == 0..(v - 1)
           V == {in[j] : j \in seen}
           A == p.alloc
           Z == {out[v + (j - 1)] : j \in 1..(n - v)}
           val == [c \in Z |-> {}]
           own == {mx, sm} \cup outs
           results == {out[k] : k \in seen}
           last == [c \in {mx, sm} \cup results |-> V]
           mask == MaskSteps(n, v, out)
           row == SoftmaxRowSteps(v, in, out, mx, sm)
<1>1. /\ n \in Nat \ {0} /\ v \in 1..n /\ v \in Nat \ {0} /\ seen \subseteq columns
      /\ mx \in A /\ sm \in A /\ sm \notin p.inputs /\ mx # sm
      /\ \A k \in columns :
          /\ in[k] \in p.inputs \cap A /\ out[k] \in A
          /\ {mx, sm} \cap {in[k], out[k]} = {}
          /\ p.required[out[k]] = IF k < v THEN V ELSE {}
          /\ p.allowed[out[k]] = p.required[out[k]]
      /\ \A j, k \in columns : /\ out[j] = out[k] => j = k
                               /\ in[j] = out[k] => j = k
    <2>1. /\ n \in Nat \ {0} /\ v \in 1..n
          /\ mx \in A /\ sm \in A /\ sm \notin p.inputs /\ mx # sm
          /\ \A k \in columns :
              /\ in[k] \in p.inputs \cap A /\ out[k] \in A
              /\ {mx, sm} \cap {in[k], out[k]} = {}
              /\ p.required[out[k]] = IF k < v THEN V ELSE {}
              /\ p.allowed[out[k]] = p.required[out[k]]
          /\ \A j, k \in columns : /\ out[j] = out[k] => j = k
                                   /\ in[j] = out[k] => j = k
        BY DEF MaskedRowPlaces
    <2>2. v \in Nat \ {0} /\ seen \subseteq columns
        BY <2>1
    <2> HIDE DEF columns, seen, V
    <2> QED BY <2>1, <2>2
<1>2. /\ \A c \in Z : \E k \in columns : c = out[k] /\ k \notin seen
      /\ \A k \in columns : k \notin seen => out[k] \in Z
    <2>1. \A j \in 1..(n - v) : v + (j - 1) \in columns /\ v + (j - 1) \notin seen
        BY <1>1
    <2>2. ASSUME NEW k \in columns, k \notin seen PROVE out[k] \in Z
        <3> DEFINE j == k - v + 1
        <3>1. j \in 1..(n - v) /\ v + (j - 1) = k
            BY <1>1, <2>2
        <3> HIDE DEF j
        <3> QED BY <3>1
    <2> QED BY <2>1, <2>2
<1>3. /\ sm \notin Z /\ mx \notin Z /\ \A k \in seen : in[k] \notin Z /\ out[k] \notin Z
      /\ Z \subseteq outs /\ results \subseteq outs /\ outs = results \cup Z /\ outs \subseteq A
    <2> HIDE DEF Z, seen, columns, V
    <2>1. Z \subseteq outs
        BY <1>2 DEF columns
    <2>2. results \subseteq outs
        BY <1>1 DEF columns
    <2>3. outs \subseteq results \cup Z
        BY <1>2 DEF columns
    <2>4. outs \subseteq A
        BY <1>1 DEF columns
    <2>5. sm \notin outs /\ mx \notin outs
        BY <1>1 DEF columns
    <2>6. \A k \in seen : in[k] \notin Z /\ out[k] \notin Z
        BY <1>1, <1>2
    <2> HIDE DEF results
    <2> QED BY <2>1, <2>2, <2>3, <2>4, <2>5, <2>6
<1>4. \A k \in columns : k < v <=> k \in seen
    BY <1>1
<1>5. last[mx] = V /\ last[sm] = V /\ \A c \in results : last[c] = V
    OBVIOUS
<1>6. \A c \in Z : val[c] = {}
    OBVIOUS
<1>7. \A k \in seen : p.required[out[k]] = V /\ p.allowed[out[k]] = V
    BY <1>1, <1>4
<1>8. \A c \in Z : p.required[c] = {} /\ p.allowed[c] = {}
    <2> HIDE DEF Z, seen, columns, V
    <2> QED BY <1>1, <1>2, <1>4
<1>9. \A c \in results : p.required[c] = V /\ p.allowed[c] = V
    BY <1>7
<1> HIDE DEF columns, seen, V, Z, val, results, last, mask, row
<1>10. ASSUME NEW m \in Memories(p), \A c \in V \cup {sm} : m[c] = FirstMemory(p)[c]
       PROVE  mask \o row \in StepsOn(A) /\ Leads(mask \o row, {m}, RowDone(p, m, own, outs))
    <2>1. m[sm] = {} /\ \A k \in seen : m[in[k]] = {in[k]}
        <3>1. ASSUME NEW k \in seen PROVE m[in[k]] = {in[k]}
            <4> DEFINE c == in[k]
            <4>1. c \in p.inputs /\ c \in p.alloc /\ c \in V
                BY <1>1 DEF V
            <4> HIDE DEF c
            <4>2. m[c] = FirstMemory(p)[c]
                BY <1>10, <4>1
            <4>3. m[c] = {c}
                BY ONLY <4>1, <4>2, FirstHeld
            <4> QED BY <4>3 DEF c
        <3>2. m[sm] = {}
            BY <1>1, <1>10 DEF FirstMemory
        <3> QED BY <3>1, <3>2
    <2>2. /\ mask \in StepsOn(A)
          /\ Leads(mask, Changed(p, m, {}, val), Changed(p, m, Z, val))
        <3>1. \A k \in 0..(n - 1) : out[k] \in p.alloc
            BY <1>1 DEF columns
        <3>2. Z = {out[v + (j - 1)] : j \in 1..(n - v)} /\ val = [c \in Z |-> {}]
            BY DEF Z, val
        <3>3. /\ MaskSteps(n, v, out) \in StepsOn(p.alloc)
              /\ Leads(MaskSteps(n, v, out), Changed(p, m, {}, val), Changed(p, m, Z, val))
            BY ONLY <1>1, <3>1, <3>2, MaskLeads
        <3> QED BY <3>3 DEF mask
    <2>3. ASSUME NEW k \in Changed(p, m, Z, val)
          PROVE  row \in StepsOn(A) /\ Leads(row, {k}, RowDone(p, m, own, outs))
        <3>1. /\ k \in Memories(p) /\ (\A c \in A \ Z : k[c] = m[c]) /\ \A c \in Z : k[c] = {}
            BY <1>6, <2>3 DEF Changed
        <3>2. k[sm] = {} /\ \A j \in seen : k[in[j]] = {in[j]}
            BY <1>1, <1>3, <2>1, <3>1
        <3>3. SoftmaxRowPlaces(p, v, in, out, mx, sm)
            BY <1>1 DEF SoftmaxRowPlaces, seen
        <3>4. /\ SoftmaxRowSteps(v, in, out, mx, sm) \in StepsOn(p.alloc)
              /\ Leads(SoftmaxRowSteps(v, in, out, mx, sm), {k},
                       Changed(p, k, {mx, sm} \cup results, last))
            <4>1. \A j \in 0..(v - 1) : k[in[j]] = {in[j]}
                BY <3>2 DEF seen
            <4>2. V = {in[j] : j \in 0..(v - 1)} /\ results = {out[j] : j \in 0..(v - 1)}
                  /\ last = [c \in {mx, sm} \cup results |-> V]
                BY DEF V, seen, results, last
            <4>3. k \in Memories(p) /\ k[sm] = {}
                BY <3>1, <3>2
            <4> DEFINE P == {k}
                       Q == Changed(p, k, {mx, sm} \cup results, last)
            <4>4. P = {k} /\ Q = Changed(p, k, {mx, sm} \cup results, last)
                OBVIOUS
            <4>5. SoftmaxRowBegins(p, v, in, out, mx, sm, k, V, results, last)
                BY <3>3, <4>1, <4>2, <4>3 DEF SoftmaxRowBegins
            <4> HIDE DEF P, Q
            <4>6. /\ SoftmaxRowSteps(v, in, out, mx, sm) \in StepsOn(p.alloc)
                  /\ Leads(SoftmaxRowSteps(v, in, out, mx, sm), P, Q)
                BY ONLY <4>4, <4>5, SoftmaxRowLeads
            <4> QED BY <4>6 DEF P, Q
        <3>5. Changed(p, k, {mx, sm} \cup results, last) \subseteq RowDone(p, m, own, outs)
            <4> SUFFICES ASSUME NEW d \in Changed(p, k, {mx, sm} \cup results, last)
                         PROVE  d \in RowDone(p, m, own, outs)
                OBVIOUS
            <4>1. /\ d \in Memories(p)
                  /\ \A c \in A \ ({mx, sm} \cup results) : d[c] = k[c]
                  /\ \A c \in results : d[c] = V
                BY <1>5 DEF Changed
            <4>2. \A c \in A \ own : d[c] = m[c]
                BY <1>3, <3>1, <4>1
            <4>3. \A c \in results : Right(p, d, c)
                BY <1>9, <4>1 DEF Right
            <4>4. ASSUME NEW c \in Z, c \notin results PROVE Right(p, d, c)
                <5>1. c \in A /\ c \notin {mx, sm} \cup results
                    BY <1>3, <4>4
                <5>2. d[c] = {}
                    BY <3>1, <4>1, <5>1
                <5> QED BY <1>8, <5>2 DEF Right
            <4>5. \A c \in outs : Right(p, d, c)
                BY <1>3, <4>3, <4>4
            <4> QED BY <4>1, <4>2, <4>5 DEF RowDone
        <3>6. Leads(row, {k}, RowDone(p, m, own, outs))
            <4> DEFINE P == Changed(p, k, {mx, sm} \cup results, last)
            <4>1. Leads(row, {k}, P) /\ P \subseteq RowDone(p, m, own, outs)
                BY <3>4, <3>5 DEF row
            <4> HIDE DEF P, own
            <4> QED BY ONLY <4>1, LeadsWeaker
        <3> QED BY <3>4, <3>6 DEF row
    <2>4. row \in StepsOn(A)
        <3>1. SoftmaxRowPlaces(p, v, in, out, mx, sm)
            BY <1>1 DEF SoftmaxRowPlaces, seen
        <3>2. \A j \in 0..(v - 1) : m[in[j]] = {in[j]}
            BY <2>1 DEF seen
        <3>3. V = {in[j] : j \in 0..(v - 1)} /\ results = {out[j] : j \in 0..(v - 1)}
              /\ last = [c \in {mx, sm} \cup results |-> V]
            BY DEF V, seen, results, last
        <3>4. SoftmaxRowBegins(p, v, in, out, mx, sm, m, V, results, last)
            BY <1>10, <2>1, <3>1, <3>2, <3>3 DEF SoftmaxRowBegins
        <3>5. SoftmaxRowSteps(v, in, out, mx, sm) \in StepsOn(p.alloc)
            BY ONLY <3>4, SoftmaxRowLeads
        <3> QED BY <3>5 DEF row
    <2>5. Leads(row, Changed(p, m, Z, val), RowDone(p, m, own, outs))
        <3> HIDE DEF own
        <3> QED BY <2>3 DEF Leads
    <2> DEFINE P == Changed(p, m, {}, val)
               Q == Changed(p, m, Z, val)
               R == RowDone(p, m, own, outs)
    <2>6. m \in P
        BY DEF Changed
    <2> HIDE DEF P, Q, R
    <2>7. mask \o row \in StepsOn(A) /\ Leads(mask \o row, P, R)
        <3>1. mask \in Seq(ItemsOn(A)) /\ row \in Seq(ItemsOn(A)) /\ Leads(mask, P, Q) /\ Leads(row, Q, R)
            BY <2>2, <2>4, <2>5 DEF P, Q, R, StepsOn
        <3>2. mask \o row \in Seq(ItemsOn(A)) /\ Leads(mask \o row, P, R)
            BY ONLY <3>1, InSequence
        <3> QED BY <3>2 DEF StepsOn
    <2> DEFINE all == mask \o row
    <2> HIDE DEF all
    <2>8. Leads(all, {m}, R)
        BY <2>6, <2>7 DEF Leads, all
    <2> QED BY <2>7, <2>8 DEF all, R
<1>11. MaskedRowSteps(n, v, in, out, mx, sm) = mask \o row
    BY DEF MaskedRowSteps, mask, row
<1>12. mask \o row \in StepsOn(A)
    <2> DEFINE m == FirstMemory(p)
    <2>1. m \in Memories(p) /\ \A c \in V \cup {sm} : m[c] = FirstMemory(p)[c]
        BY DEF FirstMemory, Memories
    <2> HIDE DEF m
    <2> QED BY <1>10, <2>1
<1> HIDE DEF own
<1>13. DoesRow(p, mask \o row, V \cup {sm}, own, outs)
    BY <1>10, <1>12 DEF DoesRow
<1> QED BY <1>11, <1>13 DEF V, seen, own

-------------------------------------------------------------------------------
(* The rows of masked softmaxes.                                           *)

\* The rows G of a softmax, row r of which takes the first v[r] of its n cells.
MaskedRows(p, G, n, v, in, out) ==
    /\ n \in Nat \ {0}
    /\ \A r \in G : /\ v[r] \in 1..n
                    /\ Local("max", r) \in p.alloc /\ Local("sum", r) \in p.alloc \ p.inputs
    /\ \A r \in G : \A k \in 0..(n - 1) :
          /\ in[r][k] \in p.inputs \cap p.alloc /\ in[r][k][1] \notin LocalMemory
          /\ out[r][k] \in p.alloc /\ out[r][k][1] \notin LocalMemory
          /\ p.required[out[r][k]] = IF k < v[r] THEN {in[r][j] : j \in 0..(v[r] - 1)} ELSE {}
          /\ p.allowed[out[r][k]] = p.required[out[r][k]]
    /\ \A r, s \in G : \A j, k \in 0..(n - 1) :
          /\ out[r][j] = out[s][k] => r = s /\ j = k
          /\ in[r][j] = out[s][k] => r = s /\ j = k
    /\ \A c \in DOMAIN p.required : \E r \in G : \E k \in 0..(n - 1) : c = out[r][k]

MaskedSteps(G, n, v, in, out) ==
    [r \in G |-> MaskedRowSteps(n, v[r], in[r], out[r], Local("max", r), Local("sum", r))]

MaskedIn(G, v, in) == [r \in G |-> {in[r][j] : j \in 0..(v[r] - 1)} \cup {Local("sum", r)}]

MaskedOut(G, n, out) == [r \in G |-> {out[r][k] : k \in 0..(n - 1)}]

MaskedOwn(G, n, out) ==
    [r \in G |-> {Local("max", r), Local("sum", r)} \cup MaskedOut(G, n, out)[r]]

(* Each row is done by its own steps, and spoils no other.                 *)
LEMMA MaskedRowsVisited ==
    ASSUME NEW p, NEW G, NEW n, NEW v, NEW in, NEW out, MaskedRows(p, G, n, v, in, out),
           NEW In, In = MaskedIn(G, v, in), NEW Out, Out = MaskedOut(G, n, out),
           NEW Own, Own = MaskedOwn(G, n, out), NEW row, row = MaskedSteps(G, n, v, in, out)
    PROVE  /\ RowsOfTheirOwn(p, G, In, Own, Out)
           /\ EachVisits(ItemsOn(p.alloc), G, RowState(p, G, In, Out), row)
<1> DEFINE columns == 0..(n - 1)
           mx == [r \in G |-> Local("max", r)]
           sm == [r \in G |-> Local("sum", r)]
<1>1. /\ n \in Nat \ {0}
      /\ \A r \in G : v[r] \in 1..n /\ Local("max", r) \in p.alloc
                      /\ Local("sum", r) \in p.alloc \ p.inputs
      /\ \A r \in G : \A k \in columns :
          /\ in[r][k] \in p.inputs \cap p.alloc /\ in[r][k][1] \notin LocalMemory
          /\ out[r][k] \in p.alloc /\ out[r][k][1] \notin LocalMemory
          /\ p.required[out[r][k]] = IF k < v[r] THEN {in[r][j] : j \in 0..(v[r] - 1)} ELSE {}
          /\ p.allowed[out[r][k]] = p.required[out[r][k]]
      /\ \A r, s \in G : \A j, k \in columns : /\ out[r][j] = out[s][k] => r = s /\ j = k
                                               /\ in[r][j] = out[s][k] => r = s /\ j = k
      /\ \A c \in DOMAIN p.required : \E r \in G : \E k \in columns : c = out[r][k]
    BY DEF MaskedRows
<1>2. \A r \in G : /\ mx[r] = Local("max", r) /\ sm[r] = Local("sum", r) /\ mx[r] # sm[r]
                   /\ mx[r][1] = "max" /\ sm[r][1] = "sum" /\ mx[r][2] = r /\ sm[r][2] = r
    BY DEF Local
<1>3. \A r \in G : /\ In[r] = {in[r][j] : j \in 0..(v[r] - 1)} \cup {sm[r]}
                   /\ Out[r] = {out[r][k] : k \in columns}
                   /\ Own[r] = {mx[r], sm[r]} \cup Out[r]
                   /\ row[r] = MaskedRowSteps(n, v[r], in[r], out[r], mx[r], sm[r])
    BY <1>2 DEF MaskedIn, MaskedOut, MaskedOwn, MaskedSteps
<1> HIDE DEF mx, sm
<1>4. \A r \in G : 0..(v[r] - 1) \subseteq columns
    BY <1>1
<1>5. {"max", "sum"} \subseteq LocalMemory
    BY DEF LocalMemory
<1>6. ASSUME NEW r \in G PROVE MaskedRowPlaces(p, n, v[r], in[r], out[r], mx[r], sm[r])
    <2> DEFINE u == v[r]
               i == in[r]
               o == out[r]
               required == p.required
               allowed == p.allowed
    <2>1. n \in Nat \ {0} /\ u \in 1..n /\ mx[r] \in p.alloc /\ sm[r] \in p.alloc \ p.inputs
          /\ mx[r] # sm[r]
        BY <1>1, <1>2
    <2>2. \A k \in columns : /\ i[k] \in p.inputs \cap p.alloc /\ o[k] \in p.alloc
                             /\ i[k][1] \notin LocalMemory /\ o[k][1] \notin LocalMemory
        BY <1>1
    <2>3. \A k \in columns : {mx[r], sm[r]} \cap {i[k], o[k]} = {}
        <3> HIDE DEF columns, i, o
        <3> QED BY <1>2, <1>5, <2>2
    <2>4. \A k \in columns : /\ required[o[k]] = IF k < u THEN {i[j] : j \in 0..(u - 1)} ELSE {}
                             /\ allowed[o[k]] = required[o[k]]
        BY <1>1, ZenonT(60)
    <2>5. \A j, k \in columns : /\ o[j] = o[k] => j = k
                                /\ i[j] = o[k] => j = k
        BY <1>1
    <2>6. MaskedRowPlaces(p, n, u, i, o, mx[r], sm[r]) <=>
            /\ n \in Nat \ {0} /\ u \in 1..n
            /\ mx[r] \in p.alloc /\ sm[r] \in p.alloc \ p.inputs /\ mx[r] # sm[r]
            /\ \A k \in columns :
                  /\ i[k] \in p.inputs \cap p.alloc /\ o[k] \in p.alloc
                  /\ {mx[r], sm[r]} \cap {i[k], o[k]} = {}
                  /\ required[o[k]] = IF k < u THEN {i[j] : j \in 0..(u - 1)} ELSE {}
                  /\ allowed[o[k]] = required[o[k]]
            /\ \A j, k \in columns : /\ o[j] = o[k] => j = k
                                     /\ i[j] = o[k] => j = k
        BY DEF MaskedRowPlaces
    <2> HIDE DEF u, i, o, required, allowed, columns
    <2>7. MaskedRowPlaces(p, n, u, i, o, mx[r], sm[r])
        BY <2>1, <2>2, <2>3, <2>4, <2>5, <2>6
    <2> QED BY <2>7 DEF u, i, o
<1>7. ASSUME NEW r \in G PROVE DoesRow(p, row[r], In[r], Own[r], Out[r])
    <2> DEFINE u == v[r]
               i == in[r]
               o == out[r]
               a == mx[r]
               b == sm[r]
               outs == Out[r]
    <2>1. MaskedRowPlaces(p, n, u, i, o, a, b)
        BY <1>6
    <2>2. outs = {o[k] : k \in 0..(n - 1)}
        BY <1>3
    <2> HIDE DEF u, i, o, a, b, outs
    <2>3. DoesRow(p, MaskedRowSteps(n, u, i, o, a, b), {i[j] : j \in 0..(u - 1)} \cup {b},
                  {a, b} \cup outs, outs)
        BY ONLY <2>1, <2>2, MaskedRowDone
    <2> QED BY <1>3, <2>3 DEF u, i, o, a, b, outs
<1>8. \A r \in G : \A x \in In[r] \cup Out[r] :
        \/ x = sm[r]
        \/ \E k \in columns : x = in[r][k]
        \/ \E k \in columns : x = out[r][k]
    <2> HIDE DEF columns
    <2> QED BY <1>3, <1>4
<1>9. RowsOfTheirOwn(p, G, In, Own, Out)
    <2> HIDE DEF columns
    <2>4. \A r \in G : \A k \in columns :
            /\ in[r][k] \in p.alloc /\ in[r][k][1] \notin LocalMemory
            /\ out[r][k] \in p.alloc /\ out[r][k][1] \notin LocalMemory
        BY <1>1
    <2>5. \A r \in G : sm[r] \in p.alloc /\ sm[r][1] \in LocalMemory
        BY <1>1, <1>2, <1>5
    <2>6. \A r, s \in G : \A j, k \in columns :
            /\ out[r][j] = out[s][k] => r = s /\ j = k
            /\ in[r][j] = out[s][k] => r = s /\ j = k
        BY <1>1
    <2>1. \A r \in G : In[r] \subseteq p.alloc /\ Out[r] \subseteq p.alloc
        BY <1>8, <2>4, <2>5
    <2>2. ASSUME NEW r \in G, NEW s \in G, r # s, NEW x \in Own[r], x \in In[s] \cup Out[s]
          PROVE  FALSE
        <3>1. CASE x \in {mx[r], sm[r]}
            <4>1. x[1] \in LocalMemory /\ x[2] = r
                BY <1>2, <1>5, <3>1
            <4>2. x # sm[s]
                BY <1>2, <2>2, <4>1
            <4>3. \A k \in columns : x # in[s][k] /\ x # out[s][k]
                BY <2>4, <4>1
            <4> QED BY <1>8, <2>2, <4>2, <4>3
        <3>2. CASE x \notin {mx[r], sm[r]}
            <4>1. PICK k \in columns : x = out[r][k]
                BY <1>3, <2>2, <3>2
            <4>2. \A j \in columns : x # in[s][j] /\ x # out[s][j]
                BY <2>2, <2>6, <4>1
            <4>3. x # sm[s]
                BY <2>4, <2>5, <4>1
            <4> QED BY <1>8, <2>2, <4>2, <4>3
        <3> QED BY <3>1, <3>2
    <2>3. DOMAIN p.required \subseteq UNION {Out[r] : r \in G}
        BY <1>1, <1>3
    <2> QED BY <2>1, <2>2, <2>3 DEF RowsOfTheirOwn
<1>10. ASSUME NEW r \in G
       PROVE  Visits(ItemsOn(p.alloc), G, RowState(p, G, In, Out), row[r], {r})
    <2> DEFINE s == row[r]
    <2>1. DoesRow(p, s, In[r], Own[r], Out[r])
        BY <1>7
    <2> HIDE DEF s
    <2>2. Visits(ItemsOn(p.alloc), G, RowState(p, G, In, Out), s, {r})
        BY ONLY <1>9, <2>1, r \in G, RowVisited
    <2> QED BY <2>2 DEF s
<1> QED BY <1>9, <1>10 DEF EachVisits

-------------------------------------------------------------------------------
(* The rows of the softmaxes of the CPU are apart.                         *)

\* The rows of t in the softmax of the CPU, by pairs of row and batch.
CpuSoftmaxRows(l, t) ==
    [r \in SoftmaxGrid(l) |-> [k \in 0..(TotalSeqLen(l) - 1) |-> RowElement(t, r[2], r[1], k)]]

(* They are rows of elements, of any strides.                              *)
LEMMA StridedRowCells ==
    ASSUME NEW l, RowsOf(l.out, l.out.shape), NEW t, RowsOf(t, l.out.shape)
    PROVE  /\ AlongRows(t, TotalSeqLen(l), SoftmaxGrid(l), SoftmaxIndices(l), CpuSoftmaxRows(l, t))
           /\ Stride(t, -1) # 0 =>
                \A r \in SoftmaxGrid(l) : \A j, k \in 0..(TotalSeqLen(l) - 1) :
                   CpuSoftmaxRows(l, t)[r][j] = CpuSoftmaxRows(l, t)[r][k] => j = k
<1> DEFINE n == TotalSeqLen(l)
           X == SoftmaxIndices(l)
           grid == SoftmaxGrid(l)
           row == CpuSoftmaxRows(l, t)
           d == Stride(t, -1)
<1>1. \A r \in grid : \A k \in 0..(n - 1) : row[r][k] = RowElement(t, r[2], r[1], k)
    BY DEF CpuSoftmaxRows
<1>2. /\ WellFormed(t) /\ t.shape = l.out.shape /\ NDim(t) = NDim(l.out) /\ NDim(t) \in {2, 3}
      /\ RowsOf(t, t.shape)
    BY DEF RowsOf, NDim
<1>3. /\ \A r \in grid : r[1] \in 0..(SeqLen(l) - 1) /\ r[2] \in 0..(SoftmaxBatch(l) - 1)
      /\ \A k \in 0..(n - 1) : k \in Nat
    <2>1. n \in Nat \ {0}
        BY SoftmaxRowIndices
    <2> HIDE DEF n
    <2>2. \A k \in 0..(n - 1) : k \in Nat
        BY <2>1
    <2> QED BY <2>2 DEF SoftmaxGrid
<1>4. ASSUME NEW r \in grid
      PROVE  /\ d \in Int
             /\ \E c \in Int : \A k \in 0..(n - 1) :
                  row[r][k] = At(t, c + k * d) /\ Cell(t, X[r][k]) = At(t, c + k * d)
    <2>1. CASE NDim(t) = 2
        <3>1. /\ SoftmaxBatch(l) = 1 /\ SeqLen(l) = l.out.shape[1]
              /\ l.out.shape[1] \in Nat \ {0}
            <4>1. NDim(l.out) = 2
                BY <1>2, <2>1
            <4>2. Size(l.out, -2) = l.out.shape[1] /\ l.out.shape[1] \in Nat \ {0}
                BY <4>1, RowSizes
            <4> QED BY <4>1, <4>2 DEF SeqLen, SoftmaxBatch
        <3>2. /\ Stride(t, -2) = t.strides[1] /\ d = t.strides[2]
              /\ t.strides[1] \in Int /\ t.strides[2] \in Int
            BY <1>2, <2>1, RowSizes
        <3>3. \A k \in 0..(n - 1) : X[r][k] = <<r[1], k>>
            BY <1>2, <2>1 DEF SoftmaxIndices
        <3>4. r[1] \in Nat /\ r[2] \in 0..(1 - 1)
            BY <1>3, <3>1
        <3>5. \A k \in Nat : Cell(t, <<r[1], k>>) = At(t, r[1] * t.strides[1] + k * t.strides[2])
            BY <1>2, <2>1, <3>4, MatrixElement
        <3>6. BatchStride(t) = 0
            BY <2>1 DEF BatchStride
        <3> HIDE DEF d, n
        <3>7. \A k \in Nat : RowElement(t, r[2], r[1], k) = At(t, r[1] * t.strides[1] + k * d)
            <4> TAKE k \in Nat
            <4>1. RowElement(t, r[2], r[1], k) = At(t, r[2] * 0 + r[1] * t.strides[1] + k * d)
                BY <3>2, <3>6 DEF RowElement, d
            <4>2. r[2] * 0 = 0
                BY <3>4
            <4>3. 0 + r[1] * t.strides[1] + k * d = r[1] * t.strides[1] + k * d
                BY <3>2, <3>4
            <4> QED BY <4>1, <4>2, <4>3
        <3> DEFINE c == r[1] * t.strides[1]
        <3>8. c \in Int
            BY <3>2, <3>4
        <3>9. \A k \in 0..(n - 1) : row[r][k] = At(t, c + k * d) /\ Cell(t, X[r][k]) = At(t, c + k * d)
            <4> HIDE DEF row, X
            <4> QED BY <1>1, <1>3, <3>2, <3>3, <3>5, <3>7 DEF n
        <3> HIDE DEF c, row, X
        <3> QED BY <3>2, <3>8, <3>9
    <2>2. CASE NDim(t) = 3
        <3>1. /\ SoftmaxBatch(l) = l.out.shape[1] /\ SeqLen(l) = l.out.shape[2]
              /\ l.out.shape[1] \in Nat \ {0} /\ l.out.shape[2] \in Nat \ {0}
            <4>1. NDim(l.out) = 3
                BY <1>2, <2>2
            <4>2. /\ Size(l.out, -2) = l.out.shape[2] /\ Size(l.out, -3) = l.out.shape[1]
                  /\ \A k \in 1..3 : l.out.shape[k] \in Nat \ {0}
                BY <4>1, RowSizes
            <4> QED BY <4>1, <4>2 DEF SeqLen, SoftmaxBatch
        <3>2. /\ Stride(t, -3) = t.strides[1] /\ Stride(t, -2) = t.strides[2] /\ d = t.strides[3]
              /\ t.strides[1] \in Int /\ t.strides[2] \in Int /\ t.strides[3] \in Int
            BY <1>2, <2>2, RowSizes
        <3>3. \A k \in 0..(n - 1) : X[r][k] = <<r[2], r[1], k>>
            BY <1>2, <2>2 DEF SoftmaxIndices
        <3>4. r[1] \in Nat /\ r[2] \in Nat
            BY <1>3, <3>1
        <3>5. \A k \in Nat :
                Cell(t, <<r[2], r[1], k>>)
                  = At(t, r[2] * t.strides[1] + r[1] * t.strides[2] + k * t.strides[3])
            BY <1>2, <2>2, <3>4, BatchElement
        <3>6. BatchStride(t) = t.strides[1]
            BY <2>2, <3>2 DEF BatchStride
        <3> HIDE DEF d, n
        <3> DEFINE c == r[2] * t.strides[1] + r[1] * t.strides[2]
        <3>7. \A k \in Nat : RowElement(t, r[2], r[1], k) = At(t, c + k * d)
            BY <3>2, <3>6 DEF RowElement, d
        <3>8. c \in Int
            BY <3>2, <3>4
        <3>9. \A k \in 0..(n - 1) : row[r][k] = At(t, c + k * d) /\ Cell(t, X[r][k]) = At(t, c + k * d)
            <4> HIDE DEF row, X
            <4> QED BY <1>1, <1>3, <3>2, <3>3, <3>5, <3>7 DEF n
        <3> HIDE DEF c, row, X
        <3> QED BY <3>2, <3>8, <3>9
    <2> QED BY <1>2, <2>1, <2>2
<1>5. AlongRows(t, n, grid, X, row)
    <2> HIDE DEF n, X, grid, row, d
    <2> QED BY <1>4 DEF AlongRows
<1> HIDE DEF n, X, grid, row, d
<1>6. ASSUME d # 0, NEW r \in grid, NEW j \in 0..(n - 1), NEW k \in 0..(n - 1), row[r][j] = row[r][k]
      PROVE  j = k
    <2>1. PICK c \in Int : row[r][j] = At(t, c + j * d) /\ row[r][k] = At(t, c + k * d)
        BY <1>4
    <2>2. t.base + (c + j * d) = t.base + (c + k * d)
        <3>1. At(t, c + j * d) = At(t, c + k * d)
            BY <1>6, <2>1
        <3>2. <<t.buffer, t.base + (c + j * d)>> = <<t.buffer, t.base + (c + k * d)>>
            BY <3>1 DEF At
        <3> QED BY ONLY <3>2, Zenon
    <2>3. t.base \in Int /\ j \in Nat /\ k \in Nat /\ d \in Int
        BY <1>2, <1>3, <1>4, WellFormedStrides
    <2>4. \A x, y \in Int : x * d = y * d => x = y
        BY <1>6, <2>3
    <2>5. j * d = k * d
        <3>1. \A x, y \in Int : t.base + (c + x) = t.base + (c + y) => x = y
            BY <2>3
        <3>2. j * d \in Int /\ k * d \in Int
            BY <2>3
        <3> QED BY <2>2, <3>1, <3>2
    <2> QED BY <2>3, <2>4, <2>5
<1> QED BY <1>5, <1>6 DEF n, X, grid, row, d

-------------------------------------------------------------------------------
(* The causal softmax of the CPU as a loop over rows.                      *)

(* The steps of a softmax by the cells they touch.                         *)
LEMMA SoftmaxStepsOfRow ==
    ASSUME NEW r, NEW n \in Nat, NEW in, NEW out,
           NEW f, f = [j \in 0..(n - 1) |-> in[j]], NEW g, g = [j \in 0..(n - 1) |-> out[j]]
    PROVE  SoftmaxSteps(r, n, f, g) = SoftmaxRowSteps(n, in, out, Local("max", r), Local("sum", r))
<1> DEFINE mx == Local("max", r)
           sm == Local("sum", r)
           B(F, H) == [k \in 1..n |-> <<Then({F[k - 1], mx, sm}, {sm}),
                                        Then({F[k - 1], mx}, {H[k - 1]})>>]
           D(H) == [k \in 1..n |-> <<Then({H[k - 1], sm}, {H[k - 1]})>>]
<1>1. \A k \in 1..n : f[k - 1] = in[k - 1] /\ g[k - 1] = out[k - 1]
    OBVIOUS
<1>2. Range(f) = {in[j] : j \in 0..(n - 1)}
    BY DEF Range
<1>3. SoftmaxSteps(r, n, f, g)
        = <<Then(Range(f), {mx})>> \o FlattenSeq(B(f, g)) \o FlattenSeq(D(g))
    BY DEF SoftmaxSteps, Loop
<1>4. SoftmaxRowSteps(n, in, out, mx, sm)
        = <<Then({in[j] : j \in 0..(n - 1)}, {mx})>> \o FlattenSeq(B(in, out)) \o FlattenSeq(D(out))
    BY DEF SoftmaxRowSteps
<1> HIDE DEF mx, sm
<1>5. B(f, g) = B(in, out)
    <2>1. ASSUME NEW k \in 1..n
          PROVE  <<Then({f[k - 1], mx, sm}, {sm}), Then({f[k - 1], mx}, {g[k - 1]})>>
                    = <<Then({in[k - 1], mx, sm}, {sm}), Then({in[k - 1], mx}, {out[k - 1]})>>
        <3>1. f[k - 1] = in[k - 1] /\ g[k - 1] = out[k - 1]
            BY ONLY <1>1, <2>1
        <3> QED BY ONLY <3>1
    <2> QED BY ONLY <2>1, Zenon
<1>6. D(g) = D(out)
    <2>1. ASSUME NEW k \in 1..n
          PROVE  <<Then({g[k - 1], sm}, {g[k - 1]})>> = <<Then({out[k - 1], sm}, {out[k - 1]})>>
        <3>1. g[k - 1] = out[k - 1]
            BY ONLY <1>1, <2>1
        <3> QED BY ONLY <3>1
    <2> QED BY ONLY <2>1, Zenon
<1> HIDE DEF B, D
<1>7. SoftmaxSteps(r, n, f, g) = SoftmaxRowSteps(n, in, out, mx, sm)
    BY <1>2, <1>3, <1>4, <1>5, <1>6
<1> QED BY <1>7 DEF mx, sm

-------------------------------------------------------------------------------
\* The rows of the causal softmax on the CPU, by pairs of batch and row.
CpuCausalGrid(l) == (0..(SoftmaxBatch(l) - 1)) \X (0..(SeqLen(l) - 1))

CpuCausalRows(l, t) == [r \in CpuCausalGrid(l) |-> CpuSoftmaxRows(l, t)[<<r[2], r[1]>>]]

CpuCausalValid(l) == [r \in CpuCausalGrid(l) |-> ValidLen(l, r[2])]

CpuCausalSteps(l) ==
    MaskedSteps(CpuCausalGrid(l), TotalSeqLen(l), CpuCausalValid(l),
                CpuCausalRows(l, l.input), CpuCausalRows(l, l.out))

(* Its sizes.                                                              *)
LEMMA SoftmaxSizes ==
    ASSUME NEW l, RowsOf(l.out, l.out.shape)
    PROVE  /\ TotalSeqLen(l) \in Nat \ {0} /\ SeqLen(l) \in Nat \ {0}
           /\ SoftmaxBatch(l) \in Nat \ {0}
<1>1. NDim(l.out) \in {2, 3}
    BY DEF RowsOf
<1>2. CASE NDim(l.out) = 2
    <2>1. /\ Size(l.out, -1) = l.out.shape[2] /\ Size(l.out, -2) = l.out.shape[1]
          /\ \A k \in 1..2 : l.out.shape[k] \in Nat \ {0}
        BY <1>2, RowSizes
    <2> QED BY <1>2, <2>1 DEF TotalSeqLen, SeqLen, SoftmaxBatch
<1>3. CASE NDim(l.out) = 3
    <2>1. /\ Size(l.out, -1) = l.out.shape[3] /\ Size(l.out, -2) = l.out.shape[2]
          /\ Size(l.out, -3) = l.out.shape[1] /\ \A k \in 1..3 : l.out.shape[k] \in Nat \ {0}
        BY <1>3, RowSizes
    <2> QED BY <1>3, <2>1 DEF TotalSeqLen, SeqLen, SoftmaxBatch
<1> QED BY <1>1, <1>2, <1>3

(* Its program is a loop over these rows.                                  *)
LEMMA CpuCausalProgram ==
    ASSUME NEW l, CpuCausalLaunch(l)
    PROVE  LET p == CpuCausalSoftmax(l)
           IN  /\ p.work = Serial(GridSteps(SoftmaxBatch(l), SeqLen(l), CpuCausalSteps(l)))
               /\ p.alloc = Cells(l.input) \cup Cells(l.out) \cup ({"max", "sum"} \X CpuCausalGrid(l))
               /\ p.inputs = Cells(l.input)
               /\ p.required = CausalSoftmaxFrom(l) /\ p.allowed = CausalSoftmaxFrom(l)
<1> DEFINE p == CpuCausalSoftmax(l)
           n == TotalSeqLen(l)
           nb == SoftmaxBatch(l)
           ni == SeqLen(l)
           G == CpuCausalGrid(l)
           in == CpuCausalRows(l, l.input)
           out == CpuCausalRows(l, l.out)
           valid == CpuCausalValid(l)
           F(t, b, i) == [j \in 0..(ValidLen(l, i) - 1) |-> RowElement(t, b, i, j)]
           Row(b, i) ==
              FlattenSeq([j \in 1..(n - ValidLen(l, i)) |->
                     <<Then({}, {RowElement(l.out, b, i, ValidLen(l, i) + (j - 1))})>>])
              \o SoftmaxSteps(<<b, i>>, ValidLen(l, i), F(l.input, b, i), F(l.out, b, i))
<1>1. n \in Nat \ {0} /\ nb \in Nat \ {0} /\ ni \in Nat \ {0} /\ ni <= n
    BY SoftmaxSizes DEF CpuCausalLaunch, CpuSoftmaxLaunch
<1>2. ASSUME NEW r \in G
      PROVE  Row(r[1], r[2]) = CpuCausalSteps(l)[r]
    <2> DEFINE b == r[1]
               i == r[2]
               v == ValidLen(l, i)
               iin == in[r]
               iout == out[r]
               mask == [j \in 1..(n - v) |-> <<Then({}, {RowElement(l.out, b, i, v + (j - 1))})>>]
               mask2 == [j \in 1..(n - v) |-> <<Then({}, {iout[v + (j - 1)]})>>]
               steps == SoftmaxSteps(<<b, i>>, v, F(l.input, b, i), F(l.out, b, i))
    <2>1. r = <<b, i>> /\ b \in 0..(nb - 1) /\ i \in 0..(ni - 1)
        BY DEF CpuCausalGrid
    <2>2. <<i, b>> \in SoftmaxGrid(l) /\ <<i, b>>[1] = i /\ <<i, b>>[2] = b
        BY <2>1 DEF SoftmaxGrid
    <2>3. \A k \in 0..(n - 1) : /\ iin[k] = RowElement(l.input, b, i, k)
                                /\ iout[k] = RowElement(l.out, b, i, k)
        BY <2>2 DEF CpuCausalRows, CpuSoftmaxRows
    <2>4. v = n - ni + i + 1 /\ v \in 1..n /\ v \in Nat
        <3>1. v = n - ni + i + 1
            BY DEF ValidLen
        <3> HIDE DEF v, n, ni, i
        <3> QED BY <1>1, <2>1, <3>1
    <2>5. mask = mask2
        <3>1. \A j \in 1..(n - v) : v + (j - 1) \in 0..(n - 1)
            <4> HIDE DEF v, n
            <4> QED BY <1>1, <2>4
        <3> HIDE DEF iout, v, n, b, i
        <3> QED BY <2>3, <3>1
    <2>6. /\ F(l.input, b, i) = [j \in 0..(v - 1) |-> iin[j]]
          /\ F(l.out, b, i) = [j \in 0..(v - 1) |-> iout[j]]
        <3>1. \A j \in 0..(v - 1) : j \in 0..(n - 1)
            <4> HIDE DEF v, n
            <4> QED BY <1>1, <2>4
        <3> HIDE DEF iin, iout, n
        <3> QED BY <2>3, <3>1
    <2>7. Row(b, i) = FlattenSeq(mask) \o steps
        OBVIOUS
    <2>8. CpuCausalSteps(l)[r] = MaskSteps(n, v, iout)
              \o SoftmaxRowSteps(v, iin, iout, Local("max", r), Local("sum", r))
        BY DEF CpuCausalSteps, MaskedSteps, MaskedRowSteps, CpuCausalValid
    <2>9. MaskSteps(n, v, iout) = FlattenSeq(mask2)
        BY DEF MaskSteps
    <2>10. steps = SoftmaxRowSteps(v, iin, iout, Local("max", r), Local("sum", r))
        <3> DEFINE f == F(l.input, b, i)
                   g == F(l.out, b, i)
        <3>1. f = [j \in 0..(v - 1) |-> iin[j]] /\ g = [j \in 0..(v - 1) |-> iout[j]]
            BY <2>6
        <3>2. steps = SoftmaxSteps(r, v, f, g)
            BY <2>1
        <3> HIDE DEF f, g, v, iin, iout, steps
        <3>3. SoftmaxSteps(r, v, f, g) = SoftmaxRowSteps(v, iin, iout, Local("max", r), Local("sum", r))
            BY ONLY <2>4, <3>1, SoftmaxStepsOfRow
        <3> QED BY <3>2, <3>3
    <2> HIDE DEF mask, mask2, steps, iin, iout, Row, v, b, i
    <2>11. Row(b, i) = CpuCausalSteps(l)[r]
        BY <2>5, <2>7, <2>8, <2>9, <2>10
    <2> QED BY <2>11 DEF b, i
<1>3. p.work = Serial(FlattenSeq([b \in 1..nb |-> FlattenSeq([i \in 1..ni |-> Row(b - 1, i - 1)])]))
    BY DEF CpuCausalSoftmax, Program, Loop
<1>4. ASSUME NEW b \in 1..nb, NEW i \in 1..ni
      PROVE  Row(b - 1, i - 1) = CpuCausalSteps(l)[<<b - 1, i - 1>>]
    <2>1. b - 1 \in 0..(nb - 1) /\ i - 1 \in 0..(ni - 1)
        BY <1>1
    <2> DEFINE r == <<b - 1, i - 1>>
    <2>2. r \in G
        BY <2>1 DEF CpuCausalGrid
    <2>3. r[1] = b - 1 /\ r[2] = i - 1
        OBVIOUS
    <2> HIDE DEF r, Row, G
    <2>4. Row(r[1], r[2]) = CpuCausalSteps(l)[r]
        BY <1>2, <2>2
    <2> QED BY <2>3, <2>4 DEF r
<1>5. \A b \in 1..nb : FlattenSeq([i \in 1..ni |-> Row(b - 1, i - 1)])
                     = FlattenSeq([i \in 1..ni |-> CpuCausalSteps(l)[<<b - 1, i - 1>>]])
    <2> TAKE b \in 1..nb
    <2> HIDE DEF Row, ni, nb
    <2>1. [i \in 1..ni |-> Row(b - 1, i - 1)] = [i \in 1..ni |-> CpuCausalSteps(l)[<<b - 1, i - 1>>]]
        BY <1>4
    <2> QED BY <2>1
<1>6. p.work = Serial(GridSteps(nb, ni, CpuCausalSteps(l)))
    <2> HIDE DEF Row, nb, ni, p
    <2>1. [b \in 1..nb |-> FlattenSeq([i \in 1..ni |-> Row(b - 1, i - 1)])]
            = [b \in 1..nb |-> FlattenSeq([i \in 1..ni |-> CpuCausalSteps(l)[<<b - 1, i - 1>>]])]
        BY <1>5
    <2> QED BY <1>3, <2>1 DEF GridSteps
<1>7. /\ p.required = CausalSoftmaxFrom(l) /\ p.allowed = CausalSoftmaxFrom(l)
      /\ p.inputs = UNION {Cells(t) : t \in {l.input}}
      /\ p.alloc = (UNION {Cells(t) : t \in {l.input} \cup {l.out}})
                   \cup ({"max", "sum"} \X ((0..(nb - 1)) \X (0..(ni - 1))))
    BY DEF CpuCausalSoftmax, Program
<1>8. /\ UNION {Cells(t) : t \in {l.input}} = Cells(l.input)
      /\ (UNION {Cells(t) : t \in {l.input} \cup {l.out}}) = Cells(l.input) \cup Cells(l.out)
    OBVIOUS
<1>9. G = (0..(nb - 1)) \X (0..(ni - 1))
    BY DEF CpuCausalGrid
<1> HIDE DEF p, G, nb, ni
<1>10. /\ p.alloc = Cells(l.input) \cup Cells(l.out) \cup ({"max", "sum"} \X G)
       /\ p.inputs = Cells(l.input)
    BY <1>7, <1>8, <1>9
<1> QED BY <1>6, <1>7, <1>10 DEF p, G, nb, ni

-------------------------------------------------------------------------------
(* The causal softmax of the CPU: its launch.                              *)

\* The rows in[r] and out[r] of a softmax of the CPU are apart.
SoftmaxRowsFound(l) ==
    LET columns == 0..(TotalSeqLen(l) - 1)
        in  == CpuSoftmaxRows(l, l.input)
        out == CpuSoftmaxRows(l, l.out)
    IN  /\ \A r \in SoftmaxGrid(l) : \A k \in columns :
              /\ in[r][k] \in Cells(l.input) /\ in[r][k][1] = l.input.buffer
              /\ out[r][k] \in Cells(l.out) /\ out[r][k][1] = l.out.buffer
        /\ \A r, s \in SoftmaxGrid(l) : \A j, k \in columns :
              /\ out[r][j] = out[s][k] => r = s /\ j = k
              /\ in[r][j] = out[s][k] => r = s /\ j = k
        /\ Cells(l.out) = UNION {{out[r][k] : k \in columns} : r \in SoftmaxGrid(l)}

(* In place or not.                                                        *)
LEMMA CpuSoftmaxApart ==
    ASSUME NEW l, CpuSoftmaxLaunch(l)
    PROVE  SoftmaxRowsFound(l)
<1> DEFINE n == TotalSeqLen(l)
           columns == 0..(n - 1)
           grid == SoftmaxGrid(l)
           X == SoftmaxIndices(l)
           in == CpuSoftmaxRows(l, l.input)
           out == CpuSoftmaxRows(l, l.out)
<1>1. /\ RowsOf(l.input, l.out.shape) /\ RowsOf(l.out, l.out.shape)
      /\ DistinctElements(l.out) /\ InPlaceOrApart(l.input, l.out)
      /\ l.input.shape = l.out.shape
    BY DEF CpuSoftmaxLaunch, RowsOf
<1>2. /\ RowIndices(l.out.shape, n, grid, X)
      /\ AlongRows(l.input, n, grid, X, in) /\ AlongRows(l.out, n, grid, X, out)
    BY <1>1, SoftmaxRowIndices, StridedRowCells
<1>3. SoftmaxRowsFound(l) <=>
        /\ \A r \in grid : \A k \in columns :
              /\ in[r][k] \in Cells(l.input) /\ in[r][k][1] = l.input.buffer
              /\ out[r][k] \in Cells(l.out) /\ out[r][k][1] = l.out.buffer
        /\ \A r, s \in grid : \A j, k \in columns :
              /\ out[r][j] = out[s][k] => r = s /\ j = k
              /\ in[r][j] = out[s][k] => r = s /\ j = k
        /\ Cells(l.out) = UNION {{out[r][k] : k \in columns} : r \in grid}
    BY DEF SoftmaxRowsFound
<1>4. \A r \in grid : \A k \in columns : /\ in[r][k] = RowElement(l.input, r[2], r[1], k)
                                         /\ out[r][k] = RowElement(l.out, r[2], r[1], k)
    BY DEF CpuSoftmaxRows
<1> HIDE DEF n, grid, X, in, out
<1>5. /\ Cells(l.out) = UNION {{out[r][j] : j \in columns} : r \in grid}
      /\ \A r \in grid : \A j \in columns : out[r][j] \in Cells(l.out)
      /\ \A r, s \in grid : \A j, k \in columns : out[r][j] = out[s][k] => r = s /\ j = k
    BY ONLY <1>1, <1>2, ElementsInRows
<1>6. \A r \in grid : \A j \in columns : in[r][j] \in Cells(l.input)
    <2>1. RowIndices(l.input.shape, n, grid, X)
        BY <1>1, <1>2
    <2> QED BY ONLY <1>2, <2>1, ElementsInRows
<1>7. \A r \in grid : \A k \in columns : in[r][k][1] = l.input.buffer /\ out[r][k][1] = l.out.buffer
    BY <1>4 DEF RowElement, At
<1>8. \A r, s \in grid : \A j, k \in columns : in[r][j] = out[s][k] => r = s /\ j = k
    <2> TAKE r, s \in grid
    <2> TAKE j, k \in columns
    <2> SUFFICES ASSUME in[r][j] = out[s][k] PROVE r = s /\ j = k
        OBVIOUS
    <2>1. l.input.buffer = l.out.buffer
        BY <1>7
    <2>2. l.input.base = l.out.base /\ l.input.strides = l.out.strides
        BY <1>1, <2>1 DEF InPlaceOrApart
    <2>3. RowElement(l.input, r[2], r[1], j) = RowElement(l.out, r[2], r[1], j)
        BY <1>1, <2>1, <2>2 DEF RowElement, At, NDim, Stride, BatchStride
    <2>4. out[r][j] = out[s][k]
        BY <1>4, <2>3
    <2> HIDE DEF columns
    <2> QED BY <1>5, <2>4
<1> HIDE DEF columns
<1> QED BY <1>3, <1>5, <1>6, <1>7, <1>8

(* The causal softmax runs right: a row is masked before it is read.       *)
LEMMA CpuCausalRuns ==
    ASSUME NEW l, CpuCausalLaunch(l)
    PROVE  RunsRight(CpuCausalSoftmax(l))
<1> DEFINE p == CpuCausalSoftmax(l)
           n == TotalSeqLen(l)
           nb == SoftmaxBatch(l)
           ni == SeqLen(l)
           columns == 0..(n - 1)
           G == CpuCausalGrid(l)
           grid == SoftmaxGrid(l)
           in == CpuCausalRows(l, l.input)
           out == CpuCausalRows(l, l.out)
           cin == CpuSoftmaxRows(l, l.input)
           cout == CpuSoftmaxRows(l, l.out)
           v == CpuCausalValid(l)
           from == CausalSoftmaxFrom(l)
           row == CpuCausalSteps(l)
           Swap(r) == <<r[2], r[1]>>
           Seen(r) == {cin[r][j] : j \in 0..(ValidLen(l, r[1]) - 1)}
<1>1. /\ p.work = Serial(GridSteps(nb, ni, row)) /\ p.required = from /\ p.allowed = from
      /\ p.alloc = Cells(l.input) \cup Cells(l.out) \cup ({"max", "sum"} \X G)
      /\ p.inputs = Cells(l.input)
    BY CpuCausalProgram
<1>2. /\ CpuSoftmaxLaunch(l) /\ SeqLen(l) <= TotalSeqLen(l) /\ Stride(l.input, -1) # 0
      /\ RowsOf(l.input, l.out.shape) /\ RowsOf(l.out, l.out.shape) /\ DistinctElements(l.out)
      /\ l.input.buffer \notin LocalMemory /\ l.out.buffer \notin LocalMemory
    BY DEF CpuCausalLaunch, CpuSoftmaxLaunch
<1>3. CausalRows(l, cin, cout)
    <2>1. DOMAIN cout = grid
        BY DEF CpuSoftmaxRows
    <2>2. /\ AlongRows(l.input, n, grid, SoftmaxIndices(l), cin)
          /\ AlongRows(l.out, n, grid, SoftmaxIndices(l), cout)
          /\ \A r \in grid : \A j, k \in columns : cin[r][j] = cin[r][k] => j = k
        BY <1>2, StridedRowCells
    <2> HIDE DEF cin, cout, grid, n
    <2> QED BY <1>2, <2>1, <2>2 DEF CausalRows, grid, n
<1>4. /\ n \in Nat \ {0} /\ \A q \in grid : ValidLen(l, q[1]) \in 1..n
      /\ SoftmaxByRows(l, cin, cout)
    BY ONLY <1>3, SoftmaxReference
<1>5. /\ DOMAIN from = UNION {{cout[r][j] : j \in columns} : r \in grid}
      /\ \A q \in grid : \A k \in columns :
            from[cout[q][k]] = IF k < ValidLen(l, q[1]) THEN Seen(q) ELSE {}
    BY <1>4 DEF SoftmaxByRows
<1>6. /\ \A q \in grid : \A k \in columns :
            /\ cin[q][k] \in Cells(l.input) /\ cin[q][k][1] = l.input.buffer
            /\ cout[q][k] \in Cells(l.out) /\ cout[q][k][1] = l.out.buffer
      /\ \A q, s \in grid : \A j, k \in columns : /\ cout[q][j] = cout[s][k] => q = s /\ j = k
                                                  /\ cin[q][j] = cout[s][k] => q = s /\ j = k
    <2>1. SoftmaxRowsFound(l)
        BY <1>2, CpuSoftmaxApart
    <2> QED BY <2>1 DEF SoftmaxRowsFound
<1>7. /\ \A r \in G : /\ Swap(r) \in grid /\ r = <<r[1], r[2]>> /\ Swap(r)[1] = r[2]
                      /\ Swap(r)[2] = r[1]
                      /\ in[r] = cin[Swap(r)] /\ out[r] = cout[Swap(r)]
                      /\ v[r] = ValidLen(l, r[2])
      /\ \A q \in grid : \E r \in G : q = Swap(r)
    <2>1. \A r \in G : /\ Swap(r) \in grid /\ r = <<r[1], r[2]>>
                       /\ Swap(r)[1] = r[2] /\ Swap(r)[2] = r[1]
        BY DEF CpuCausalGrid, SoftmaxGrid
    <2>2. \A r \in G : in[r] = cin[Swap(r)] /\ out[r] = cout[Swap(r)] /\ v[r] = ValidLen(l, r[2])
        BY DEF CpuCausalRows, CpuCausalValid
    <2>3. ASSUME NEW q \in grid PROVE \E r \in G : q = Swap(r)
        <3> DEFINE r == <<q[2], q[1]>>
        <3>1. r \in G /\ q = <<q[1], q[2]>> /\ r[1] = q[2] /\ r[2] = q[1]
            BY DEF CpuCausalGrid, SoftmaxGrid
        <3> HIDE DEF r
        <3>2. q = Swap(r)
            BY <3>1
        <3> QED BY <3>1, <3>2
    <2> HIDE DEF in, out, cin, cout, v, G, grid
    <2> QED BY <2>1, <2>2, <2>3
<1>8. nb \in Nat /\ ni \in Nat /\ G = (0..(nb - 1)) \X (0..(ni - 1))
    BY <1>2, SoftmaxSizes DEF CpuCausalGrid
<1>9. row = MaskedSteps(G, n, v, in, out)
    BY DEF CpuCausalSteps
<1> HIDE DEF p, n, nb, ni, G, grid, in, out, cin, cout, v, from, row
<1>10. \A r \in G : /\ v[r] \in 1..n
                    /\ Local("max", r) \in p.alloc /\ Local("sum", r) \in p.alloc \ p.inputs
    <2> TAKE r \in G
    <2>1. v[r] \in 1..n
        BY <1>4, <1>7
    <2>2. Local("max", r) \in p.alloc /\ Local("sum", r) \in p.alloc
        BY <1>1 DEF Local
    <2>3. \A c \in p.inputs : c[1] = l.input.buffer
        <3>1. \A c \in Cells(l.input) : \E x : c = At(l.input, x)
            BY Zenon DEF Cells, Cell
        <3>2. \A x : At(l.input, x)[1] = l.input.buffer
            BY DEF At
        <3> QED BY <1>1, <3>1, <3>2
    <2>4. Local("sum", r)[1] = "sum" /\ "sum" \in LocalMemory
        BY DEF Local, LocalMemory
    <2> QED BY <1>2, <2>1, <2>2, <2>3, <2>4
<1>11. \A r \in G : \A k \in columns :
          /\ in[r][k] \in p.inputs \cap p.alloc /\ in[r][k][1] \notin LocalMemory
          /\ out[r][k] \in p.alloc /\ out[r][k][1] \notin LocalMemory
    <2> TAKE r \in G
    <2> TAKE k \in columns
    <2> DEFINE q == Swap(r)
    <2>1. q \in grid /\ in[r] = cin[q] /\ out[r] = cout[q]
        BY <1>7
    <2> HIDE DEF q, columns
    <2> QED BY <1>1, <1>2, <1>6, <2>1
<1>12. \A r \in G : \A k \in columns :
          /\ from[out[r][k]] = IF k < v[r] THEN {in[r][j] : j \in 0..(v[r] - 1)} ELSE {}
    <2> TAKE r \in G
    <2> TAKE k \in columns
    <2> DEFINE q == Swap(r)
    <2>1. q \in grid /\ in[r] = cin[q] /\ out[r] = cout[q] /\ v[r] = ValidLen(l, q[1])
        BY <1>7
    <2>2. from[cout[q][k]] = IF k < ValidLen(l, q[1]) THEN Seen(q) ELSE {}
        <3> HIDE DEF q, columns, Seen
        <3> QED BY <1>5, <2>1
    <2>3. Seen(q) = {in[r][j] : j \in 0..(v[r] - 1)}
        <3> HIDE DEF q
        <3> QED BY <2>1
    <2> HIDE DEF q, Seen
    <2> QED BY <2>1, <2>2, <2>3
<1>13. \A r, s \in G : \A j, k \in columns :
          /\ out[r][j] = out[s][k] => r = s /\ j = k
          /\ in[r][j] = out[s][k] => r = s /\ j = k
    <2> TAKE r, s \in G
    <2> TAKE j, k \in columns
    <2> DEFINE q == Swap(r)
               u == Swap(s)
    <2>1. /\ q \in grid /\ in[r] = cin[q] /\ out[r] = cout[q]
          /\ u \in grid /\ in[s] = cin[u] /\ out[s] = cout[u]
          /\ q[1] = r[2] /\ q[2] = r[1] /\ u[1] = s[2] /\ u[2] = s[1]
          /\ r = <<r[1], r[2]>> /\ s = <<s[1], s[2]>>
        BY <1>7
    <2> HIDE DEF q, u, columns
    <2>2. q = u => r = s
        BY <2>1
    <2> QED BY <1>6, <2>1, <2>2
<1>14. \A c \in DOMAIN from : \E r \in G : \E k \in columns : c = out[r][k]
    <2> HIDE DEF Swap, columns
    <2> QED BY <1>5, <1>7
<1>15. MaskedRows(p, G, n, v, in, out)
    <2>1. p.required = from /\ p.allowed = from
        BY <1>1
    <2> DEFINE required == p.required
               allowed == p.allowed
               Takes(r, k) == IF k < v[r] THEN {in[r][j] : j \in 0..(v[r] - 1)} ELSE {}
    <2>2. \A r \in G : \A k \in columns : /\ required[out[r][k]] = Takes(r, k)
                                           /\ allowed[out[r][k]] = required[out[r][k]]
        BY <1>12, <2>1
    <2>3. MaskedRows(p, G, n, v, in, out) <=>
            /\ n \in Nat \ {0}
            /\ \A r \in G : /\ v[r] \in 1..n
                            /\ Local("max", r) \in p.alloc /\ Local("sum", r) \in p.alloc \ p.inputs
            /\ \A r \in G : \A k \in columns :
                  /\ in[r][k] \in p.inputs \cap p.alloc /\ in[r][k][1] \notin LocalMemory
                  /\ out[r][k] \in p.alloc /\ out[r][k][1] \notin LocalMemory
                  /\ required[out[r][k]] = Takes(r, k)
                  /\ allowed[out[r][k]] = required[out[r][k]]
            /\ \A r, s \in G : \A j, k \in columns :
                  /\ out[r][j] = out[s][k] => r = s /\ j = k
                  /\ in[r][j] = out[s][k] => r = s /\ j = k
            /\ \A c \in DOMAIN required : \E r \in G : \E k \in columns : c = out[r][k]
        BY DEF MaskedRows
    <2>4. \A c \in DOMAIN required : \E r \in G : \E k \in columns : c = out[r][k]
        BY <1>14, <2>1
    <2> HIDE DEF columns, required, allowed, Takes
    <2> QED BY <1>4, <1>10, <1>11, <1>13, <2>2, <2>3, <2>4
<1> DEFINE In == MaskedIn(G, v, in)
           Out == MaskedOut(G, n, out)
           Own == MaskedOwn(G, n, out)
           S == ItemsOn(p.alloc)
           State == RowState(p, G, In, Out)
<1>16. /\ In = MaskedIn(G, v, in) /\ Out = MaskedOut(G, n, out) /\ Own = MaskedOwn(G, n, out)
    OBVIOUS
<1> HIDE DEF In, Out, Own
<1>17. RowsOfTheirOwn(p, G, In, Own, Out) /\ EachVisits(ItemsOn(p.alloc), G, RowState(p, G, In, Out), row)
    BY ONLY <1>9, <1>15, <1>16, MaskedRowsVisited
<1>18. Visits(S, G, State, GridSteps(nb, ni, row), G)
    <2>1. EachVisits(S, G, State, row)
        BY <1>17
    <2> HIDE DEF S, State
    <2> QED BY ONLY <1>8, <2>1, GridVisited
<1>19. RunsRight(p)
    <2> DEFINE steps == GridSteps(nb, ni, row)
    <2>1. p.work = Serial(steps) /\ Visits(ItemsOn(p.alloc), G, RowState(p, G, In, Out), steps, G)
        BY <1>1, <1>18
    <2> HIDE DEF steps
    <2> QED BY ONLY <1>17, <2>1, RowsRun
<1> QED BY <1>19 DEF p

-------------------------------------------------------------------------------
(* The softmax over a vocabulary of the CPU.                               *)

\* The rows of the softmax over a vocabulary.
CpuScaledGrid(l) == 0..(SeqLen(l) - 1)

CpuScaledRows(l, t) == [i \in CpuScaledGrid(l) |-> CpuSoftmaxRows(l, t)[<<i, 0>>]]

CpuScaledSteps(l) ==
    [i \in CpuScaledGrid(l) |->
        SoftmaxRowSteps(TotalSeqLen(l), CpuScaledRows(l, l.input)[i],
                        CpuScaledRows(l, l.out)[i], Local("max", i), Local("sum", i))]

(* Its program is a loop over them.                                        *)
LEMMA CpuScaledProgram ==
    ASSUME NEW l, CpuScaledLaunch(l)
    PROVE  LET p == CpuScaledSoftmax(l)
           IN  /\ p.work = Serial(FlattenSeq([k \in 1..SeqLen(l) |-> CpuScaledSteps(l)[k - 1]]))
               /\ p.alloc = Cells(l.input) \cup Cells(l.out) \cup ({"max", "sum"} \X CpuScaledGrid(l))
               /\ p.inputs = Cells(l.input)
               /\ p.required = ScaledSoftmaxFrom(l) /\ p.allowed = ScaledSoftmaxFrom(l)
<1> DEFINE p == CpuScaledSoftmax(l)
           n == TotalSeqLen(l)
           m == SeqLen(l)
           G == CpuScaledGrid(l)
           in == CpuScaledRows(l, l.input)
           out == CpuScaledRows(l, l.out)
           Row(t, i) == [j \in 0..(n - 1) |-> At(t, i * Stride(t, 0) + j * Stride(t, 1))]
<1>1. /\ RowsOf(l.input, l.out.shape) /\ RowsOf(l.out, l.out.shape) /\ l.input.shape = l.out.shape
      /\ NDim(l.out) = 2 /\ NDim(l.input) = 2 /\ RowsOf(l.input, l.input.shape)
    BY DEF CpuScaledLaunch, CpuSoftmaxLaunch, RowsOf, NDim
<1>2. Size(l.input, 0) = m /\ Size(l.input, 1) = n
    <2>1. Size(l.input, 0) = l.input.shape[1] /\ Size(l.input, 1) = l.input.shape[2]
        BY <1>1, RowSizes
    <2>2. Size(l.out, -1) = l.out.shape[2] /\ Size(l.out, -2) = l.out.shape[1]
        BY <1>1, RowSizes
    <2> QED BY <1>1, <2>1, <2>2 DEF TotalSeqLen, SeqLen
<1>3. n \in Nat \ {0} /\ m \in Nat \ {0} /\ SoftmaxBatch(l) = 1
    BY <1>1, SoftmaxSizes DEF SoftmaxBatch
<1>4. ASSUME NEW t \in {l.input, l.out}, NEW i \in G, NEW j \in 0..(n - 1)
      PROVE  At(t, i * Stride(t, 0) + j * Stride(t, 1)) = CpuScaledRows(l, t)[i][j]
    <2>1. NDim(t) = 2 /\ RowsOf(t, t.shape)
        BY <1>1
    <2>2. /\ Stride(t, -2) = t.strides[1] /\ Stride(t, 0) = t.strides[1]
          /\ Stride(t, 1) = t.strides[2] /\ Stride(t, -1) = t.strides[2]
          /\ t.strides[1] \in Int /\ t.strides[2] \in Int
        BY <2>1, RowSizes
    <2>3. BatchStride(t) = 0
        BY <2>1 DEF BatchStride
    <2>4. i \in Nat /\ j \in Nat /\ i \in 0..(m - 1)
        <3> HIDE DEF n, m
        <3> QED BY <1>3 DEF CpuScaledGrid, m
    <2>5. <<i, 0>> \in SoftmaxGrid(l) /\ <<i, 0>>[1] = i /\ <<i, 0>>[2] = 0
        BY <1>3, <2>4 DEF SoftmaxGrid
    <2>6. CpuScaledRows(l, t)[i][j] = RowElement(t, 0, i, j)
        BY <2>5 DEF CpuScaledRows, CpuSoftmaxRows
    <2>7. RowElement(t, 0, i, j) = At(t, 0 * 0 + i * t.strides[1] + j * t.strides[2])
        BY <2>2, <2>3 DEF RowElement
    <2>8. 0 * 0 + i * t.strides[1] + j * t.strides[2] = i * t.strides[1] + j * t.strides[2]
        BY <2>2, <2>4
    <2> QED BY <2>2, <2>6, <2>7, <2>8
<1>5. \A i \in G : SoftmaxSteps(i, n, Row(l.input, i), Row(l.out, i)) = CpuScaledSteps(l)[i]
    <2> TAKE i \in G
    <2> DEFINE f == Row(l.input, i)
               g == Row(l.out, i)
               iin == in[i]
               iout == out[i]
    <2>1. f = [j \in 0..(n - 1) |-> iin[j]] /\ g = [j \in 0..(n - 1) |-> iout[j]]
        BY <1>4
    <2>2. CpuScaledSteps(l)[i] = SoftmaxRowSteps(n, iin, iout, Local("max", i), Local("sum", i))
        BY DEF CpuScaledSteps
    <2>3. n \in Nat
        BY <1>3
    <2> HIDE DEF f, g, iin, iout, n
    <2>4. SoftmaxSteps(i, n, f, g) = SoftmaxRowSteps(n, iin, iout, Local("max", i), Local("sum", i))
        BY ONLY <2>1, <2>3, SoftmaxStepsOfRow
    <2> QED BY <2>2, <2>4 DEF f, g
<1>6. p.work = Serial(FlattenSeq([k \in 1..m |->
                    SoftmaxSteps(k - 1, n, Row(l.input, k - 1), Row(l.out, k - 1))]))
    BY <1>2 DEF CpuScaledSoftmax, Program, Loop
<1>7. [k \in 1..m |-> SoftmaxSteps(k - 1, n, Row(l.input, k - 1), Row(l.out, k - 1))]
        = [k \in 1..m |-> CpuScaledSteps(l)[k - 1]]
    <2>1. \A k \in 1..m : k - 1 \in G
        BY <1>3 DEF CpuScaledGrid
    <2> HIDE DEF Row, G, n, m
    <2> QED BY <1>5, <2>1
<1>8. /\ p.required = ScaledSoftmaxFrom(l) /\ p.allowed = ScaledSoftmaxFrom(l)
      /\ p.inputs = UNION {Cells(t) : t \in {l.input}}
      /\ p.alloc = (UNION {Cells(t) : t \in {l.input} \cup {l.out}}) \cup ({"max", "sum"} \X (0..(m - 1)))
    BY <1>2 DEF CpuScaledSoftmax, Program
<1>9. /\ UNION {Cells(t) : t \in {l.input}} = Cells(l.input)
      /\ (UNION {Cells(t) : t \in {l.input} \cup {l.out}}) = Cells(l.input) \cup Cells(l.out)
    OBVIOUS
<1>10. G = 0..(m - 1)
    BY DEF CpuScaledGrid
<1> HIDE DEF p, G, Row
<1>11. /\ p.alloc = Cells(l.input) \cup Cells(l.out) \cup ({"max", "sum"} \X G)
       /\ p.inputs = Cells(l.input)
    <2> HIDE DEF m
    <2> QED BY <1>8, <1>9, <1>10
<1>12. p.work = Serial(FlattenSeq([k \in 1..m |-> CpuScaledSteps(l)[k - 1]]))
    BY <1>6, <1>7
<1> QED BY <1>8, <1>11, <1>12 DEF p, G

(* The reference of the softmax over a vocabulary by its rows.             *)
LEMMA ScaledReference ==
    ASSUME NEW l, CpuScaledLaunch(l)
    PROVE  LET columns == 0..(TotalSeqLen(l) - 1)
               in  == CpuSoftmaxRows(l, l.input)
               out == CpuSoftmaxRows(l, l.out)
           IN  /\ DOMAIN ScaledSoftmaxFrom(l) = Cells(l.out)
               /\ \A r \in SoftmaxGrid(l) : \A k \in columns :
                     ScaledSoftmaxFrom(l)[out[r][k]] = {in[r][j] : j \in columns}
<1> DEFINE n == TotalSeqLen(l)
           columns == 0..(n - 1)
           grid == SoftmaxGrid(l)
           X == SoftmaxIndices(l)
           in == CpuSoftmaxRows(l, l.input)
           out == CpuSoftmaxRows(l, l.out)
           ixs == Indices(l.out.shape)
           from == ScaledSoftmaxFrom(l)
           From(ix) == {Cell(l.input, With(ix, -1, j)) : j \in columns}
<1>1. /\ RowsOf(l.input, l.out.shape) /\ RowsOf(l.out, l.out.shape) /\ l.input.shape = l.out.shape
      /\ NDim(l.input) = 2 /\ NDim(l.out) = 2 /\ DistinctElements(l.out) /\ RowsOf(l.input, l.input.shape)
    BY DEF CpuScaledLaunch, CpuSoftmaxLaunch, RowsOf, NDim
<1>2. /\ RowIndices(l.out.shape, n, grid, X)
      /\ AlongRows(l.input, n, grid, X, in) /\ AlongRows(l.out, n, grid, X, out)
    BY <1>1, SoftmaxRowIndices, StridedRowCells
<1>3. Size(l.input, 1) = n
    <2>1. Size(l.input, 1) = l.input.shape[2]
        BY <1>1, RowSizes
    <2>2. Size(l.out, -1) = l.out.shape[2]
        BY <1>1, RowSizes
    <2> QED BY <1>1, <2>1, <2>2 DEF TotalSeqLen
<1>4. from = [c \in Cells(l.out) |-> UNION {From(ix) : ix \in {x \in ixs : Cell(l.out, x) = c}}]
    BY <1>3 DEF ScaledSoftmaxFrom, Elementwise
<1> HIDE DEF n, grid, X, in, out, from
<1>5. ASSUME NEW r \in grid, NEW k \in columns
      PROVE  from[out[r][k]] = {in[r][j] : j \in columns}
    <2> DEFINE u == X[r][k]
    <2>1. u \in ixs /\ \A j \in columns : With(u, -1, j) = X[r][j]
        BY <1>2 DEF RowIndices
    <2>2. {x \in ixs : Cell(l.out, x) = Cell(l.out, u)} = {u}
        BY <1>1, <2>1, OneIndex
    <2>3. out[r][k] = Cell(l.out, u) /\ out[r][k] \in Cells(l.out)
        BY <1>2, <2>1 DEF AlongRows, Cells
    <2>4. \A j \in columns : Cell(l.input, With(u, -1, j)) = in[r][j]
        BY <1>2, <2>1 DEF AlongRows
    <2> HIDE DEF u, columns
    <2>5. From(u) = {in[r][j] : j \in columns}
        BY <2>4
    <2> HIDE DEF From, ixs
    <2>6. from[out[r][k]] = UNION {From(ix) : ix \in {u}}
        BY <1>4, <2>2, <2>3
    <2>7. UNION {From(ix) : ix \in {u}} = From(u)
        OBVIOUS
    <2> QED BY <2>5, <2>6, <2>7
<1>6. DOMAIN from = Cells(l.out)
    BY <1>4
<1> QED BY <1>5, <1>6 DEF n, grid, in, out, from

(* With nothing to mask, a row is the softmax alone.                       *)
LEMMA UnmaskedRow ==
    ASSUME NEW p, NEW n, NEW in, NEW out, NEW mx, NEW sm,
           MaskedRowPlaces(p, n, n, in, out, mx, sm)
    PROVE  MaskedRowSteps(n, n, in, out, mx, sm) = SoftmaxRowSteps(n, in, out, mx, sm)
<1> DEFINE V == {in[k] : k \in 0..(n - 1)}
           outs == {out[k] : k \in 0..(n - 1)}
           val == [c \in {mx, sm} \cup outs |-> V]
           m == [c \in p.alloc |-> IF c \in p.inputs THEN {c} ELSE {}]
           P == {m}
           Q == Changed(p, m, {mx, sm} \cup outs, val)
           s == SoftmaxRowSteps(n, in, out, mx, sm)
           body == [j \in 1..(n - n) |-> <<Then({}, {out[n + (j - 1)]})>>]
<1>1. /\ n \in Nat \ {0} /\ mx \in p.alloc /\ sm \in p.alloc /\ sm \notin p.inputs /\ mx # sm
      /\ \A k \in 0..(n - 1) :
          /\ in[k] \in p.inputs \cap p.alloc /\ out[k] \in p.alloc
          /\ {mx, sm} \cap {in[k], out[k]} = {}
      /\ \A j, k \in 0..(n - 1) : /\ out[j] = out[k] => j = k
                                  /\ in[j] = out[k] => j = k
    BY DEF MaskedRowPlaces
<1>2. SoftmaxRowBegins(p, n, in, out, mx, sm, m, V, outs, val)
    <2>1. SoftmaxRowPlaces(p, n, in, out, mx, sm)
        BY <1>1 DEF SoftmaxRowPlaces
    <2>2. m \in Memories(p)
        BY DEF Memories
    <2>3. m[sm] = {} /\ \A k \in 0..(n - 1) : m[in[k]] = {in[k]}
        BY <1>1
    <2>4. /\ V = {in[k] : k \in 0..(n - 1)} /\ outs = {out[k] : k \in 0..(n - 1)}
          /\ val = [c \in {mx, sm} \cup outs |-> V]
        OBVIOUS
    <2> HIDE DEF m, V, outs, val
    <2> QED BY <2>1, <2>2, <2>3, <2>4 DEF SoftmaxRowBegins
<1>3. P = {m} /\ Q = Changed(p, m, {mx, sm} \cup outs, val)
    OBVIOUS
<1> HIDE DEF P, Q, V, outs, val, m
<1>4. SoftmaxRowSteps(n, in, out, mx, sm) \in StepsOn(p.alloc)
    BY ONLY <1>2, <1>3, SoftmaxRowLeads
<1>5. FlattenSeq(body) = <<>>
    <2>1. body = <<>>
        BY <1>1
    <2> HIDE DEF body
    <2> QED BY <2>1 DEF FlattenSeq
<1>6. MaskedRowSteps(n, n, in, out, mx, sm) = FlattenSeq(body) \o s
    BY DEF MaskedRowSteps, MaskSteps
<1> HIDE DEF body, s
<1>7. s \in StepsOn(p.alloc)
    BY <1>4 DEF s
<1>8. <<>> \o s = s
    BY <1>7 DEF StepsOn
<1> QED BY <1>5, <1>6, <1>8 DEF s

(* The softmax over a vocabulary runs right, in place or not.              *)
LEMMA CpuScaledRuns ==
    ASSUME NEW l, CpuScaledLaunch(l)
    PROVE  RunsRight(CpuScaledSoftmax(l))
<1> DEFINE p == CpuScaledSoftmax(l)
           n == TotalSeqLen(l)
           m == SeqLen(l)
           columns == 0..(n - 1)
           G == CpuScaledGrid(l)
           grid == SoftmaxGrid(l)
           in == CpuScaledRows(l, l.input)
           out == CpuScaledRows(l, l.out)
           cin == CpuSoftmaxRows(l, l.input)
           cout == CpuSoftmaxRows(l, l.out)
           v == [i \in G |-> n]
           from == ScaledSoftmaxFrom(l)
           row == MaskedSteps(G, n, v, in, out)
           body == [k \in 1..m |-> CpuScaledSteps(l)[k - 1]]
           key == [k \in 1..m |-> k - 1]
<1>1. /\ p.work = Serial(FlattenSeq(body)) /\ p.required = from /\ p.allowed = from
      /\ p.alloc = Cells(l.input) \cup Cells(l.out) \cup ({"max", "sum"} \X G)
      /\ p.inputs = Cells(l.input)
    BY CpuScaledProgram
<1>2. /\ CpuSoftmaxLaunch(l) /\ NDim(l.out) = 2 /\ RowsOf(l.out, l.out.shape)
      /\ l.input.buffer \notin LocalMemory /\ l.out.buffer \notin LocalMemory
    BY DEF CpuScaledLaunch, CpuSoftmaxLaunch
<1>3. n \in Nat \ {0} /\ m \in Nat \ {0} /\ SoftmaxBatch(l) = 1
    BY <1>2, SoftmaxSizes DEF SoftmaxBatch
<1>4. /\ \A q \in grid : \A k \in columns :
            /\ cin[q][k] \in Cells(l.input) /\ cin[q][k][1] = l.input.buffer
            /\ cout[q][k] \in Cells(l.out) /\ cout[q][k][1] = l.out.buffer
      /\ \A q, s \in grid : \A j, k \in columns : /\ cout[q][j] = cout[s][k] => q = s /\ j = k
                                                  /\ cin[q][j] = cout[s][k] => q = s /\ j = k
      /\ Cells(l.out) = UNION {{cout[q][k] : k \in columns} : q \in grid}
    <2>1. SoftmaxRowsFound(l)
        BY <1>2, CpuSoftmaxApart
    <2> QED BY <2>1 DEF SoftmaxRowsFound
<1>5. /\ DOMAIN from = Cells(l.out)
      /\ \A q \in grid : \A k \in columns : from[cout[q][k]] = {cin[q][j] : j \in columns}
    BY ScaledReference
<1>6. /\ \A i \in G : /\ <<i, 0>> \in grid /\ <<i, 0>>[1] = i
                      /\ in[i] = cin[<<i, 0>>] /\ out[i] = cout[<<i, 0>>] /\ v[i] = n
      /\ \A q \in grid : q[1] \in G /\ q = <<q[1], 0>>
    <2>1. \A i \in G : <<i, 0>> \in grid /\ <<i, 0>>[1] = i
        BY <1>3 DEF CpuScaledGrid, SoftmaxGrid
    <2>2. \A i \in G : in[i] = cin[<<i, 0>>] /\ out[i] = cout[<<i, 0>>] /\ v[i] = n
        BY DEF CpuScaledRows
    <2>3. ASSUME NEW q \in grid PROVE q[1] \in G /\ q = <<q[1], 0>>
        <3>1. q = <<q[1], q[2]>> /\ q[1] \in G /\ q[2] \in 0..(1 - 1)
            BY <1>3 DEF CpuScaledGrid, SoftmaxGrid
        <3>2. q[2] = 0
            BY <3>1
        <3> QED BY <3>1, <3>2
    <2> HIDE DEF in, out, cin, cout, v, G, grid
    <2> QED BY <2>1, <2>2, <2>3
<1>7. G = 0..(m - 1)
    BY DEF CpuScaledGrid
<1>8. /\ \A i \in G : row[i] = MaskedRowSteps(n, v[i], in[i], out[i], Local("max", i), Local("sum", i))
      /\ \A i \in G : CpuScaledSteps(l)[i]
                        = SoftmaxRowSteps(n, in[i], out[i], Local("max", i), Local("sum", i))
      /\ row = MaskedSteps(G, n, v, in, out)
    BY DEF MaskedSteps, CpuScaledSteps
<1> HIDE DEF p, n, m, G, grid, in, out, cin, cout, v, from, row
<1>9. \A i \in G : /\ v[i] \in 1..n
                   /\ Local("max", i) \in p.alloc /\ Local("sum", i) \in p.alloc \ p.inputs
    <2> TAKE i \in G
    <2>1. v[i] \in 1..n
        <3>1. v[i] = n
            BY <1>6
        <3>2. n \in 1..n
            BY <1>3
        <3> QED BY <3>1, <3>2
    <2>2. Local("max", i) \in p.alloc /\ Local("sum", i) \in p.alloc
        BY <1>1 DEF Local
    <2>3. \A c \in p.inputs : c[1] = l.input.buffer
        <3>1. \A c \in Cells(l.input) : \E x : c = At(l.input, x)
            BY Zenon DEF Cells, Cell
        <3>2. \A x : At(l.input, x)[1] = l.input.buffer
            BY DEF At
        <3> QED BY <1>1, <3>1, <3>2
    <2>4. Local("sum", i)[1] = "sum" /\ "sum" \in LocalMemory
        BY DEF Local, LocalMemory
    <2> QED BY <1>2, <2>1, <2>2, <2>3, <2>4
<1>10. \A i \in G : \A k \in columns :
          /\ in[i][k] \in p.inputs \cap p.alloc /\ in[i][k][1] \notin LocalMemory
          /\ out[i][k] \in p.alloc /\ out[i][k][1] \notin LocalMemory
    <2> TAKE i \in G
    <2> TAKE k \in columns
    <2> DEFINE q == <<i, 0>>
    <2>1. q \in grid /\ in[i] = cin[q] /\ out[i] = cout[q]
        BY <1>6
    <2> HIDE DEF q, columns
    <2> QED BY <1>1, <1>2, <1>4, <2>1
<1>11. \A i \in G : \A k \in columns :
          from[out[i][k]] = IF k < v[i] THEN {in[i][j] : j \in 0..(v[i] - 1)} ELSE {}
    <2> TAKE i \in G
    <2> TAKE k \in columns
    <2> DEFINE q == <<i, 0>>
    <2>1. q \in grid /\ in[i] = cin[q] /\ out[i] = cout[q] /\ v[i] = n
        BY <1>6
    <2> HIDE DEF q
    <2>2. from[cout[q][k]] = {cin[q][j] : j \in columns}
        BY <1>5, <2>1
    <2>3. k < n
        BY <1>3
    <2>4. {cin[q][j] : j \in columns} = {in[i][j] : j \in 0..(v[i] - 1)}
        BY <2>1
    <2> HIDE DEF columns
    <2> QED BY <2>1, <2>2, <2>3, <2>4
<1>12. \A r, s \in G : \A j, k \in columns :
          /\ out[r][j] = out[s][k] => r = s /\ j = k
          /\ in[r][j] = out[s][k] => r = s /\ j = k
    <2> TAKE r, s \in G
    <2> TAKE j, k \in columns
    <2> DEFINE q == <<r, 0>>
               u == <<s, 0>>
    <2>1. /\ q \in grid /\ in[r] = cin[q] /\ out[r] = cout[q] /\ q[1] = r
          /\ u \in grid /\ in[s] = cin[u] /\ out[s] = cout[u] /\ u[1] = s
        BY <1>6
    <2> HIDE DEF q, u, columns
    <2> QED BY <1>4, <2>1
<1>13. \A c \in DOMAIN from : \E r \in G : \E k \in columns : c = out[r][k]
    <2> HIDE DEF columns
    <2> QED BY <1>4, <1>5, <1>6
<1>14. MaskedRows(p, G, n, v, in, out)
    <2> DEFINE required == p.required
               allowed == p.allowed
               Takes(r, k) == IF k < v[r] THEN {in[r][j] : j \in 0..(v[r] - 1)} ELSE {}
    <2>1. \A r \in G : \A k \in columns : /\ required[out[r][k]] = Takes(r, k)
                                          /\ allowed[out[r][k]] = required[out[r][k]]
        BY <1>1, <1>11
    <2>2. MaskedRows(p, G, n, v, in, out) <=>
            /\ n \in Nat \ {0}
            /\ \A r \in G : /\ v[r] \in 1..n
                            /\ Local("max", r) \in p.alloc /\ Local("sum", r) \in p.alloc \ p.inputs
            /\ \A r \in G : \A k \in columns :
                  /\ in[r][k] \in p.inputs \cap p.alloc /\ in[r][k][1] \notin LocalMemory
                  /\ out[r][k] \in p.alloc /\ out[r][k][1] \notin LocalMemory
                  /\ required[out[r][k]] = Takes(r, k)
                  /\ allowed[out[r][k]] = required[out[r][k]]
            /\ \A r, s \in G : \A j, k \in columns :
                  /\ out[r][j] = out[s][k] => r = s /\ j = k
                  /\ in[r][j] = out[s][k] => r = s /\ j = k
            /\ \A c \in DOMAIN required : \E r \in G : \E k \in columns : c = out[r][k]
        BY DEF MaskedRows
    <2>3. \A c \in DOMAIN required : \E r \in G : \E k \in columns : c = out[r][k]
        BY <1>1, <1>13
    <2> HIDE DEF columns, required, allowed, Takes
    <2> QED BY <1>3, <1>9, <1>10, <1>12, <2>1, <2>2, <2>3
<1> DEFINE In == MaskedIn(G, v, in)
           Out == MaskedOut(G, n, out)
           Own == MaskedOwn(G, n, out)
           S == ItemsOn(p.alloc)
           State == RowState(p, G, In, Out)
<1>15. /\ In = MaskedIn(G, v, in) /\ Out = MaskedOut(G, n, out) /\ Own = MaskedOwn(G, n, out)
    OBVIOUS
<1> HIDE DEF In, Out, Own
<1>16. RowsOfTheirOwn(p, G, In, Own, Out) /\ EachVisits(ItemsOn(p.alloc), G, RowState(p, G, In, Out), row)
    BY ONLY <1>8, <1>14, <1>15, MaskedRowsVisited
<1>17. \A i \in G : row[i] = CpuScaledSteps(l)[i]
    <2> TAKE i \in G
    <2> DEFINE a == in[i]
               b == out[i]
               mx == Local("max", i)
               sm == Local("sum", i)
               req == p.required
               all == p.allowed
    <2>1. MaskedRowPlaces(p, n, n, a, b, mx, sm) <=>
            /\ n \in Nat \ {0} /\ n \in 1..n
            /\ mx \in p.alloc /\ sm \in p.alloc \ p.inputs /\ mx # sm
            /\ \A k \in columns :
                  /\ a[k] \in p.inputs \cap p.alloc /\ b[k] \in p.alloc
                  /\ {mx, sm} \cap {a[k], b[k]} = {}
                  /\ req[b[k]] = IF k < n THEN {a[j] : j \in 0..(n - 1)} ELSE {}
                  /\ all[b[k]] = req[b[k]]
            /\ \A j, k \in columns : /\ b[j] = b[k] => j = k
                                     /\ a[j] = b[k] => j = k
        BY DEF MaskedRowPlaces
    <2>2. \A k \in columns : /\ req[b[k]] = IF k < n THEN {a[j] : j \in 0..(n - 1)} ELSE {}
                             /\ all[b[k]] = req[b[k]]
        <3> DEFINE Takes(u, k) == IF k < u THEN {a[j] : j \in 0..(u - 1)} ELSE {}
        <3>1. \A k \in columns : from[b[k]] = Takes(v[i], k)
            BY <1>11
        <3>2. v[i] = n
            BY <1>6
        <3>3. req = from /\ all = from
            BY <1>1
        <3>4. \A k \in columns : req[b[k]] = Takes(n, k) /\ all[b[k]] = req[b[k]]
            <4> HIDE DEF Takes, columns, req, all
            <4> QED BY <3>1, <3>2, <3>3
        <3> QED BY <3>4
    <2>3. /\ mx # sm /\ mx[1] \in LocalMemory /\ sm[1] \in LocalMemory
        BY DEF Local, LocalMemory
    <2>4. \A k \in columns : /\ a[k] \in p.inputs \cap p.alloc /\ a[k][1] \notin LocalMemory
                             /\ b[k] \in p.alloc /\ b[k][1] \notin LocalMemory
        BY <1>10
    <2>5. mx \in p.alloc /\ sm \in p.alloc \ p.inputs /\ n \in 1..n
        BY <1>3, <1>9
    <2>6. \A j, k \in columns : /\ b[j] = b[k] => j = k
                                /\ a[j] = b[k] => j = k
        BY <1>12
    <2>7. row[i] = MaskedRowSteps(n, n, a, b, mx, sm)
          /\ CpuScaledSteps(l)[i] = SoftmaxRowSteps(n, a, b, mx, sm)
        BY <1>6, <1>8
    <2> HIDE DEF a, b, mx, sm, req, all, columns
    <2>8. \A k \in columns : {mx, sm} \cap {a[k], b[k]} = {}
        BY <2>3, <2>4
    <2> DEFINE Takes(k) == IF k < n THEN {a[j] : j \in 0..(n - 1)} ELSE {}
    <2>9. MaskedRowPlaces(p, n, n, a, b, mx, sm)
        <3>1. /\ n \in Nat \ {0} /\ n \in 1..n
              /\ mx \in p.alloc /\ sm \in p.alloc \ p.inputs /\ mx # sm
              /\ \A k \in columns :
                    /\ a[k] \in p.inputs \cap p.alloc /\ b[k] \in p.alloc
                    /\ {mx, sm} \cap {a[k], b[k]} = {}
                    /\ req[b[k]] = Takes(k)
                    /\ all[b[k]] = req[b[k]]
              /\ \A j, k \in columns : /\ b[j] = b[k] => j = k
                                       /\ a[j] = b[k] => j = k
            <4>1. \A k \in columns : req[b[k]] = Takes(k) /\ all[b[k]] = req[b[k]]
                BY <2>2
            <4> HIDE DEF Takes
            <4> QED BY <1>3, <2>3, <2>4, <2>5, <2>6, <2>8, <4>1
        <3> QED BY <2>1, <3>1
    <2>10. MaskedRowSteps(n, n, a, b, mx, sm) = SoftmaxRowSteps(n, a, b, mx, sm)
        BY ONLY <2>9, UnmaskedRow
    <2> QED BY <2>7, <2>10
<1>18. Visits(S, G, State, FlattenSeq(body), G)
    <2>1. /\ key \in [1..m -> G] /\ \A k \in 1..m : key[k] = k - 1
          /\ m \in Nat /\ DOMAIN body = 1..m /\ body = [k \in 1..m |-> body[k]]
        BY <1>3, <1>7
    <2>2. G = {key[k] : k \in 1..m}
        <3>1. ASSUME NEW i \in G PROVE \E k \in 1..m : key[k] = i
            <4> DEFINE k == i + 1
            <4>1. k \in 1..m /\ k - 1 = i
                BY <1>3, <1>7
            <4> HIDE DEF k
            <4> QED BY <2>1, <4>1
        <3> HIDE DEF key
        <3> QED BY <2>1, <3>1
    <2>3. \A j, k \in 1..m : key[j] = key[k] => j = k
        BY <1>3
    <2>4. \A k \in 1..m : body[k] = row[key[k]]
        BY <1>17, <2>1
    <2>5. EachVisits(S, G, State, row)
        BY <1>16
    <2> HIDE DEF key, body, S, State
    <2>6. \A k \in 1..m : Visits(S, G, State, body[k], {key[k]})
        BY <2>1, <2>4, <2>5 DEF EachVisits
    <2>7. RowPasses(S, G, State, m, body, key, G)
        BY <2>1, <2>2, <2>3, <2>6 DEF RowPasses
    <2> QED BY ONLY <2>7, LineVisited
<1>19. RunsRight(p)
    <2> DEFINE steps == FlattenSeq(body)
    <2>1. p.work = Serial(steps) /\ Visits(ItemsOn(p.alloc), G, RowState(p, G, In, Out), steps, G)
        BY <1>1, <1>18
    <2> HIDE DEF steps
    <2> QED BY ONLY <1>16, <2>1, RowsRun
<1> QED BY <1>19 DEF p

-------------------------------------------------------------------------------
(* The launches of the CPU.                                                *)

(* A launch of one of the CPU kernels that are loops over elements or rows. *)
CpuLaunch(l) ==
    \/ /\ ProgramOf(l) \in {CpuAdd(l), CpuMul(l), CpuSwiglu(l)}
       /\ CpuElementwiseLaunch({l.input, l.other}, l.out)
    \/ ProgramOf(l) = CpuCast(l) /\ CpuElementwiseLaunch({l.input}, l.out)
    \/ ProgramOf(l) = CpuRmsNorm(l) /\ CpuNormLaunch(l)
    \/ ProgramOf(l) = CpuCausalSoftmax(l) /\ CpuCausalLaunch(l)
    \/ ProgramOf(l) = CpuScaledSoftmax(l) /\ CpuScaledLaunch(l)

(* Each of them stays in its operands and computes what its definition     *)
(* names.                                                                  *)
LEMMA CpuPrograms ==
    ASSUME NEW l, CpuLaunch(l)
    PROVE  /\ Confined(ProgramOf(l))
           /\ \E before, least, most : /\ OrderedBy(ProgramOf(l), before)
                                       /\ Computes(ProgramOf(l), before, least, most)
<1>1. RunsRight(ProgramOf(l))
    <2>1. CASE /\ ProgramOf(l) \in {CpuAdd(l), CpuMul(l), CpuSwiglu(l)}
               /\ CpuElementwiseLaunch({l.input, l.other}, l.out)
        <3> DEFINE ins == {l.input, l.other}
                   out == l.out
        <3>1. CpuElementwiseLaunch(ins, out)
            BY <2>1
        <3>2. ProgramOf(l) = ElementwiseProgram(ins, out, ElementwiseWork(ins, out))
            BY <2>1 DEF CpuAdd, CpuMul, CpuSwiglu, CpuBinary
        <3> HIDE DEF ins, out
        <3>3. RunsRight(ElementwiseProgram(ins, out, ElementwiseWork(ins, out)))
            BY ONLY <3>1, ElementwiseLoops
        <3> QED BY <3>2, <3>3
    <2>2. CASE ProgramOf(l) = CpuCast(l) /\ CpuElementwiseLaunch({l.input}, l.out)
        <3> DEFINE ins == {l.input}
                   out == l.out
        <3>1. CpuElementwiseLaunch(ins, out)
            BY <2>2
        <3>2. ProgramOf(l) = ElementwiseProgram(ins, out, ElementwiseWork(ins, out))
            BY <2>2 DEF CpuCast
        <3> HIDE DEF ins, out
        <3>3. RunsRight(ElementwiseProgram(ins, out, ElementwiseWork(ins, out)))
            BY ONLY <3>1, ElementwiseLoops
        <3> QED BY <3>2, <3>3
    <2>3. CASE ProgramOf(l) = CpuRmsNorm(l) /\ CpuNormLaunch(l)
        BY <2>3, CpuNormRuns
    <2>4. CASE ProgramOf(l) = CpuCausalSoftmax(l) /\ CpuCausalLaunch(l)
        BY <2>4, CpuCausalRuns
    <2>5. CASE ProgramOf(l) = CpuScaledSoftmax(l) /\ CpuScaledLaunch(l)
        BY <2>5, CpuScaledRuns
    <2> QED BY <2>1, <2>2, <2>3, <2>4, <2>5 DEF CpuLaunch
<1> QED BY <1>1 DEF RunsRight

(* The CPU kernels add, mul, swiglu, cast, rms_norm, causal_softmax and    *)
(* scaled_softmax touch nothing outside their operands and their locals,   *)
(* for tensors of any shape and stride they take.                          *)
THEOREM CpuLaunchesStayTyped ==
    ASSUME \A l \in Launches : CpuLaunch(l)
    PROVE  Spec => [](TypeOK /\ InBounds)
<1>1. \A l \in Launches : Confined(ProgramOf(l))
    BY CpuPrograms
<1> QED BY <1>1, ConfinedLaunchesStayTyped

(* The iterations of their parallel loops meet in no cell: where the       *)
(* output is the input, each reads the element it writes.                  *)
THEOREM CpuLaunchesDoNotRace ==
    ASSUME \A l \in Launches : CpuLaunch(l)
    PROVE  Spec => []NoRace
<1>1. \A l \in Launches : \E before : OrderedBy(ProgramOf(l), before)
    BY CpuPrograms
<1> QED BY <1>1, OrderedLaunchesDoNotRace

(* Every element ends as a function of the inputs its operator's           *)
(* definition names, in place too: a row is masked and reduced before it   *)
(* is written, and no row needs another that was overwritten.              *)
THEOREM CpuLaunchesComputeTheirResults ==
    ASSUME \A l \in Launches : CpuLaunch(l)
    PROVE  Spec => []ResultsComplete
<1>1. \A l \in Launches : \E before, least, most :
        /\ OrderedBy(ProgramOf(l), before)
        /\ Computes(ProgramOf(l), before, least, most)
    BY CpuPrograms
<1> QED BY <1>1, OrderedLaunchesComputeOneResult
===============================================================================
