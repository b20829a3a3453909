--------------------------- MODULE CachedExecutors --------------------------
(***************************************************************************)
(* One cached operator object and its Repeatable executors over many calls *)
(* (the Ascend operators' operator(), AclTensorCache in                    *)
(* src/native/ascend/common.h).                                            *)
(*                                                                         *)
(* An executor is made in the first call with the addresses of that call.  *)
(* Later calls come with other tensors of the same geometry, on other      *)
(* streams, and after the pool has moved an arena.                         *)
(*                                                                         *)
(* The runtime (external) is the one that the operators' comments          *)
(* describe.  An executor uses the address set for an operand last.  It    *)
(* follows the descriptors in a tensor list, which get() updates in every  *)
(* call (cat/kernel.h:77-80), but of an operation in place only the input  *)
(* can be set, never the output (reshape_and_cache/kernel.h:74-76).  An    *)
(* operand that nothing sets keeps the address of the first call.          *)
(***************************************************************************)
EXTENDS AscendKernels

CONSTANTS
  Kernels,      \* kernels to look at, a subset of DOMAIN KernelTable
  Streams,
  Allocations,  \* addresses a caller's tensor can be at
  None,
  MaxGrowth     \* bound on the times an arena moves

ASSUME KernelsAreKnown == Kernels \subseteq DOMAIN KernelTable
ASSUME GrowthIsBounded == MaxGrowth \in Nat

(* Where an operand can be: a buffer of the object, an arena of a stream,  *)
(* which moves, or a tensor of the caller; and the addresses of a launch.  *)
Addresses ==
  {<<o>> : o \in Owned} \cup (Pooled \X Streams \X (0 .. MaxGrowth))
    \cup ((UNION {Arguments(k) : k \in Kernels}) \X Allocations)
Bindings(l) == [ins : [DOMAIN l.ins -> Addresses], outs : [DOMAIN l.outs -> Addresses]]

ASSUME NoneIsNoBinding ==
  \A k \in Kernels : \A i \in DOMAIN KernelTable[k] : None \notin Bindings(KernelTable[k][i])

VARIABLES
  kernel,    \* the operator's kernel, fixed
  arenas,    \* arenas[s][n]: how often arena n of stream s has moved
  bound,     \* bound[i]: addresses [ins, outs] launch i would use, or None
  wanted,    \* wanted[i]: addresses of the operands in the latest call
  launched,  \* the launches of the latest call
  given      \* the caller's tensors in the latest call, or None

vars == <<kernel, arenas, bound, wanted, launched, given>>

Launches == KernelTable[kernel]

Address(o, s, args) ==
  IF o \in Pooled THEN <<o, s, arenas[s][o]>>
  ELSE IF o \in Owned THEN <<o>> ELSE <<o, args[o]>>

(* The addresses a launch should use. *)
Fresh(l, s, args) ==
  [ins |-> [j \in DOMAIN l.ins |-> Address(l.ins[j], s, args)],
   outs |-> [j \in DOMAIN l.outs |-> Address(l.outs[j], s, args)]]

(* Whether an executor that is used again takes operand j's new address.   *)
InputFollows(l, j) == j \in l.setIn \/ l.list
OutputFollows(l, j) == j \in l.setOut

(* The addresses an executor that had old uses after it was refreshed. *)
Refreshed(l, old, fresh) ==
  [ins |-> [j \in DOMAIN l.ins |->
              IF InputFollows(l, j) THEN fresh.ins[j] ELSE old.ins[j]],
   outs |-> [j \in DOMAIN l.outs |->
              IF OutputFollows(l, j) THEN fresh.outs[j] ELSE old.outs[j]]]

(* A launch guarded by a remembered address runs when that has changed. *)
Runs(l, args) == l.memo = {} \/ given = None \/ \E o \in l.memo : args[o] # given[o]

Binding(i, s, args) ==
  LET l == Launches[i] IN
  IF ~Runs(l, args) THEN bound[i]
  ELSE IF l.reuse /\ bound[i] # None THEN Refreshed(l, bound[i], Fresh(l, s, args))
  ELSE Fresh(l, s, args)

-----------------------------------------------------------------------------
Init ==
  /\ kernel \in Kernels
  /\ arenas = [s \in Streams |-> [n \in Arenas(kernel) |-> 0]]
  /\ bound = [i \in DOMAIN Launches |-> None]
  /\ wanted = [i \in DOMAIN Launches |-> None]
  /\ launched = {}
  /\ given = None

(* operator(): refresh the executors and launch. *)
Call(s, args) ==
  /\ bound' = [i \in DOMAIN Launches |-> Binding(i, s, args)]
  /\ wanted' = [i \in DOMAIN Launches |-> Fresh(Launches[i], s, args)]
  /\ launched' = {i \in DOMAIN Launches : Runs(Launches[i], args)}
  /\ given' = args
  /\ UNCHANGED <<kernel, arenas>>

(* Another operator asks for a larger arena, which moves. *)
MoveArena(s, n) ==
  /\ arenas[s][n] < MaxGrowth
  /\ arenas' = [arenas EXCEPT ![s][n] = @ + 1]
  /\ UNCHANGED <<kernel, bound, wanted, launched, given>>

(* Mutant of Recreate: the new object inherits the remembered addresses.   *)
RecreateKeepsMemo ==
  /\ given # None
  /\ bound' = [i \in DOMAIN Launches |-> None]
  /\ wanted' = [i \in DOMAIN Launches |-> None]
  /\ launched' = {}
  /\ UNCHANGED <<kernel, arenas, given>>

(* clear_cache: the next call is that of a new object. *)
Recreate ==
  /\ given # None
  /\ bound' = [i \in DOMAIN Launches |-> None]
  /\ wanted' = [i \in DOMAIN Launches |-> None]
  /\ launched' = {}
  /\ given' = None
  /\ UNCHANGED <<kernel, arenas>>

Next ==
  \/ \E s \in Streams, args \in [Arguments(kernel) -> Allocations] : Call(s, args)
  \/ \E s \in Streams, n \in Arenas(kernel) : MoveArena(s, n)
  \/ Recreate

Spec == Init /\ [][Next]_vars

-----------------------------------------------------------------------------
(* Types.  An object that was called has all its executors, each with an   *)
(* address for every operand of its launch.                                *)
TypeOK ==
  /\ kernel \in Kernels
  /\ arenas \in [Streams -> [Arenas(kernel) -> 0 .. MaxGrowth]]
  /\ DOMAIN bound = DOMAIN Launches
  /\ DOMAIN wanted = DOMAIN Launches
  /\ \A i \in DOMAIN Launches : /\ bound[i] \in Bindings(Launches[i]) \cup {None}
                               /\ wanted[i] \in Bindings(Launches[i]) \cup {None}
  /\ launched \subseteq DOMAIN Launches
  /\ given \in [Arguments(kernel) -> Allocations] \cup {None}
  /\ given # None => \A i \in DOMAIN Launches : bound[i] # None

(* The softmax kernel sets neither the temporary arena that it masks nor   *)
(* the one it reads in its last launch (causal_softmax/kernel.h:119-135).  *)
LeftToRuntime == {"causal_softmax"}

(* Every launch of a call uses the addresses of that call's tensors, of    *)
(* the arenas of its stream as they are now, and of the object's buffers,  *)
(* although its executor was made for another call (operator.h:198 returns *)
(* objects by geometry; the operators' "else" branches refresh them).      *)
(* Nothing is claimed of where an operation in place writes, if its        *)
(* executor is cached: no line of the operators sets that address.         *)
BindingsCurrent ==
  kernel \notin LeftToRuntime =>
    \A i \in launched :
      /\ bound[i].ins = wanted[i].ins
      /\ \A j \in DOMAIN Launches[i].outs \ Launches[i].inplace :
           bound[i].outs[j] = wanted[i].outs[j]
=============================================================================
