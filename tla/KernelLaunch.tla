----------------------------- MODULE KernelLaunch -----------------------------
(***************************************************************************)
(* One launch of a kernel: its work items run in any order their           *)
(* dependences allow, as the threads of a block, the cores of a device or  *)
(* the iterations of a parallel loop do.                                   *)
(***************************************************************************)
EXTENDS KernelProgram

CONSTANTS
    Launches,       \* the launches considered: a set of records
    ProgramOf(_)    \* what a launch does

VARIABLES
    launch,   \* which one runs
    program,  \* what it does, fixed from the start
    done,     \* its finished work items
    memory    \* for each cell, the input cells its value depends on

vars == <<launch, program, done, memory>>

Ready == {i \in DOMAIN program.work \ done : program.work[i].after \subseteq done}

Finished == done = DOMAIN program.work

-------------------------------------------------------------------------------
Init ==
    /\ launch \in Launches
    /\ program = ProgramOf(launch)
    /\ done = {}
    /\ memory = [c \in program.alloc |-> IF c \in program.inputs THEN {c} ELSE {}]

\* An item reads what its cells hold now.  Accesses outside the tensors are
\* left to InBounds.
Run(i) ==
    LET item == program.work[i]
    IN  \E drawn \in item.yields :
            /\ memory' = [c \in DOMAIN memory |->
                  IF c \in Writes(item)
                  THEN drawn \cup UNION {memory[r] : r \in item.flow[c] \cap DOMAIN memory}
                  ELSE memory[c]]
            /\ done' = done \cup {i}
            /\ UNCHANGED <<launch, program>>

Stop == Finished /\ UNCHANGED vars

Next == (\E i \in Ready : Run(i)) \/ Stop

Spec == Init /\ [][Next]_vars

-------------------------------------------------------------------------------
(* Every cell holds inputs of this launch, or a token drawn, and items wait *)
(* only for items there are.                                               *)
TypeOK ==
    /\ launch \in Launches
    /\ done \subseteq DOMAIN program.work
    /\ \A i \in DOMAIN program.work : program.work[i].after \subseteq DOMAIN program.work
    /\ memory \in [program.alloc ->
          SUBSET (program.inputs
                  \cup UNION UNION {program.work[i].yields : i \in DOMAIN program.work})]

(* No thread touches an address outside the elements of the operands and   *)
(* the memory the kernel declares: index arithmetic and guards agree with  *)
(* the shapes and strides.                                                 *)
InBounds ==
    \A i \in Ready :
        Reads(program.work[i]) \cup Writes(program.work[i]) \subseteq program.alloc

(* Two items that may run at the same time never touch one cell unless     *)
(* both only read it: barriers, queues and disjoint indices order the      *)
(* rest.                                                                   *)
NoRace ==
    \A i, j \in Ready : i # j =>
        Writes(program.work[i])
            \cap (Reads(program.work[j]) \cup Writes(program.work[j])) = {}

(* When a launch ends, each output element was computed from exactly the   *)
(* inputs its operator's definition names: none is left unwritten, none is *)
(* taken from a wrong element, masked or not yet computed ones included.   *)
ResultsComplete ==
    Finished => \A c \in DOMAIN program.required :
        /\ program.required[c] \subseteq memory[c]
        /\ memory[c] \subseteq program.allowed[c]

-------------------------------------------------------------------------------
(* What makes a launch independent of its schedule, as conditions on the   *)
(* program alone.  before[i] are items that come before i in every         *)
(* schedule; what every item writes depends on at least `least' and at     *)
(* most `most'.                                                            *)
Confined(p) ==
    \A i \in DOMAIN p.work :
        /\ p.work[i].after \subseteq DOMAIN p.work
        /\ Reads(p.work[i]) \cup Writes(p.work[i]) \subseteq p.alloc

Conflict(a, b) ==
    \/ Writes(a) \cap (Reads(b) \cup Writes(b)) # {}
    \/ Reads(a) \cap Writes(b) # {}

\* Chains of `after' put before[i] before i, and order what conflicts.
OrderedBy(p, before) ==
    /\ \A i \in DOMAIN p.work : \A k \in before[i] :
            k \in p.work[i].after \/ \E m \in p.work[i].after : k \in before[m]
    /\ \A i, j \in DOMAIN p.work :
            i # j /\ Conflict(p.work[i], p.work[j]) => i \in before[j] \/ j \in before[i]

\* What cell c holds once the items of S are done, if item i wrote value[i][c].
LastWriters(p, before, S, c) ==
    {k \in S : /\ c \in Writes(p.work[k])
               /\ \A m \in S : c \in Writes(p.work[m]) => m = k \/ m \in before[k]}

ValueAfter(p, before, value, S, c) ==
    IF \E k \in S : c \in Writes(p.work[k])
    THEN UNION {value[k][c] : k \in LastWriters(p, before, S, c)}
    ELSE {c} \cap p.inputs

Computes(p, before, least, most) ==
    /\ \A i \in DOMAIN p.work : \A c \in Writes(p.work[i]) :
          LET item == p.work[i]
              From(value) == UNION {ValueAfter(p, before, value, before[i], r) :
                                       r \in item.flow[c] \cap p.alloc}
          IN  /\ least[i][c] \subseteq From(least)
              /\ From(most) \cup UNION item.yields \subseteq most[i][c]
    /\ \A c \in DOMAIN p.required :
          /\ c \in p.alloc
          /\ p.required[c] \subseteq ValueAfter(p, before, least, DOMAIN p.work, c)
          /\ ValueAfter(p, before, most, DOMAIN p.work, c) \subseteq p.allowed[c]
===============================================================================
