---------------------------- MODULE WorkspacePool ---------------------------
(***************************************************************************)
(* The pool of device scratch buffers behind the Ascend operators          *)
(* (src/native/ascend/workspace_pool_.h) and the operators that use it.    *)
(*                                                                         *)
(* An operator call is a program of steps: each asks the pool for the      *)
(* arena of a (stream, slot) pair and then, if the step says so, launches  *)
(* a kernel that will use buffers obtained by earlier steps of the call.   *)
(* Kernels run later, in stream order, or are recorded in a graph while    *)
(* the stream is captured.  Growing an arena waits for the stream, frees   *)
(* the old buffer and allocates another, whose address may be one that     *)
(* was in use before.                                                      *)
(*                                                                         *)
(* Callers issue no two calls on the same stream at a time: the Python     *)
(* bindings hold the interpreter lock during a call, and a C++ thread      *)
(* owns the stream it computes on.                                         *)
(***************************************************************************)
EXTENDS Integers, Sequences, FiniteSets

CONSTANTS
  Threads,     \* host threads
  Streams,     \* aclrtStream values
  Slots,       \* slot names: "workspace", "temp", "staging", ...
  Buffers,     \* device addresses aclrtMalloc can return
  NullPtr,     \* the null pointer
  None,        \* no thread, no stream
  Ops,         \* operators, with the shapes they are called with
  Program,     \* Program[o]: the steps [slot, need, uses] of a call of o
  CacheSize,   \* kCacheSize
  MaxPending,  \* bound on the kernels waiting in a stream
  MaxSince     \* bound on the calls begun after an unnoticed failure

Keys == Streams \X Slots

ASSUME NullPtrIsNone ==
  /\ NullPtr \notin Buffers
  /\ None \notin Threads \cup Streams \cup [stream: Streams, op: Ops]
ASSUME BoundsArePositive ==
  /\ CacheSize \in Nat \ {0} /\ MaxPending \in Nat \ {0}
  /\ MaxSince \in Nat

(* What the operators' bodies do: a step uses buffers of this and earlier  *)
(* steps, and never one whose slot a later step asked for again, since     *)
(* that may have replaced the buffer.                                      *)
ASSUME ProgramsRederive ==
  \A o \in Ops :
    /\ Program[o] \in Seq([slot: Slots, need: Nat, uses: SUBSET Nat]) \ {<<>>}
    /\ \A i \in 1 .. Len(Program[o]) : \A u \in Program[o][i].uses :
         /\ u \in 1 .. i
         /\ \A k \in u + 1 .. i : Program[o][k].slot # Program[o][u].slot

VARIABLES
  arenas,    \* arenas[k]: buf and capacity of the arena of stream and slot k
  holder,    \* holder[k]: the thread in WorkspaceArena::mutex, or None
  cache,     \* cache[t]: the thread-local array, most recent entry first
  memory,    \* memory[b]: bytes allocated at address b, 0 if none are
  pending,   \* pending[s]: kernels waiting in stream s, each a set of uses
  pc,        \* pc[t]: the next step of thread t
  call,      \* call[t]: stream and operator of t's current call
  at,        \* at[t]: index of the step of the program t is at
  held,      \* held[t]: the buffers the call's steps obtained so far
  capture,   \* "before", "during" or "after" the capture of a graph
  capStream, \* the captured stream, or None
  warmed,    \* every operator ran eagerly on capStream before the capture
  graph,     \* the uses recorded in the captured graph
  ran,       \* ran[s]: operators that completed eagerly on stream s
  asserts,   \* the build has assertions (no NDEBUG)
  failed,    \* an allocation failed and nothing noticed (no code variable)
  since,     \* calls begun since then (no code variable)
  process    \* "runs", "aborted" or "exited"

callVars == <<pc, call, at, held>>
captureVars == <<capture, capStream, warmed>>
vars == <<arenas, holder, cache, memory, pending, callVars, captureVars, graph,
          ran, asserts, failed, since, process>>

capturing == capture = "during"

Init ==
  /\ arenas = [k \in Keys |-> [buf |-> NullPtr, capacity |-> 0]]
  /\ holder = [k \in Keys |-> None]
  /\ cache = [t \in Threads |-> <<>>]
  /\ memory = [b \in Buffers |-> 0]
  /\ pending = [s \in Streams |-> <<>>]
  /\ pc = [t \in Threads |-> "idle"]
  /\ call = [t \in Threads |-> None]
  /\ at = [t \in Threads |-> 1]
  /\ held = [t \in Threads |-> <<>>]
  /\ capture = "before" /\ capStream = None /\ warmed = FALSE
  /\ graph = {}
  /\ ran = [s \in Streams |-> {}]
  /\ asserts \in BOOLEAN
  /\ failed = FALSE /\ since = 0 /\ process = "runs"

-----------------------------------------------------------------------------
(* The step thread t is at, its arena and the bytes it asks for.           *)
Step(t) == Program[call[t].op][at[t]]
Key(t) == <<call[t].stream, Step(t).slot>>
needed(t) == Step(t).need

Goto(t, from, to) ==
  /\ process = "runs"
  /\ pc[t] = from
  /\ pc' = [pc EXCEPT ![t] = to]

InCall(s) == {t \in Threads : pc[t] # "idle" /\ call[t].stream = s}

(* An operator is called on stream s.                                      *)
BeginCall(t, s, o) ==
  /\ InCall(s) = {}
  /\ Goto(t, "idle", "ensure")
  /\ call' = [call EXCEPT ![t] = [stream |-> s, op |-> o]]
  /\ IF failed THEN since < MaxSince /\ since' = since + 1 ELSE UNCHANGED since
  /\ UNCHANGED <<arenas, holder, cache, memory, pending, at, held, captureVars,
                 graph, ran, asserts, failed, process>>

(* An entry of the thread's own cache has the arena, and its capacity,     *)
(* read without the arena's mutex, suffices.                               *)
Hit(t) ==
  /\ \E i \in 1 .. Len(cache[t]) : cache[t][i] = Key(t)
  /\ needed(t) <= arenas[Key(t)].capacity

\* mutant of FastPath: the entry is found and nothing is returned
FastPathNoReturn(t) ==
  /\ Goto(t, "ensure", "launch")
  /\ Hit(t)
  /\ UNCHANGED <<arenas, holder, cache, memory, pending, call, at, held,
                 captureVars, graph, ran, asserts, failed, since, process>>

(* Ensure's fast path returns it.                                          *)
FastPath(t) ==
  /\ Goto(t, "ensure", "launch")
  /\ Hit(t)
  /\ held' = [held EXCEPT ![t] = Append(@, arenas[Key(t)].buf)]
  /\ UNCHANGED <<arenas, holder, cache, memory, pending, call, at, captureVars,
                 graph, ran, asserts, failed, since, process>>

\* mutant of SlowPath: no assertion on capturing_
SlowPathUnchecked(t) ==
  /\ Goto(t, "ensure", "lock")
  /\ ~Hit(t)
  /\ UNCHANGED <<arenas, holder, cache, memory, pending, call, at, held,
                 captureVars, graph, ran, asserts, failed, since, process>>

(* The slow path begins with an assertion that no capture is going on.     *)
SlowPath(t) ==
  /\ Goto(t, "ensure", "lock")
  /\ ~Hit(t)
  /\ process' = IF asserts /\ capturing THEN "aborted" ELSE process
  /\ UNCHANGED <<arenas, holder, cache, memory, pending, call, at, held,
                 captureVars, graph, ran, asserts, failed, since>>

\* mutant of LockArena: the arena is replaced whenever the size differs
LockArenaResizes(t) ==
  /\ Goto(t, "lock", IF needed(t) = arenas[Key(t)].capacity THEN "store"
                     ELSE IF arenas[Key(t)].capacity > 0 THEN "sync" ELSE "malloc")
  /\ holder[Key(t)] = None
  /\ holder' = [holder EXCEPT ![Key(t)] = t]
  /\ UNCHANGED <<arenas, cache, memory, pending, call, at, held, captureVars,
                 graph, ran, asserts, failed, since, process>>

\* mutant of LockArena: the old buffer is freed without waiting for the stream
LockArenaNoSync(t) ==
  /\ Goto(t, "lock", IF needed(t) <= arenas[Key(t)].capacity THEN "store"
                     ELSE IF arenas[Key(t)].capacity > 0 THEN "free" ELSE "malloc")
  /\ holder[Key(t)] = None
  /\ holder' = [holder EXCEPT ![Key(t)] = t]
  /\ UNCHANGED <<arenas, cache, memory, pending, call, at, held, captureVars,
                 graph, ran, asserts, failed, since, process>>

\* mutant of LockArena: the old buffer is not freed
LockArenaNoFree(t) ==
  /\ Goto(t, "lock", IF needed(t) <= arenas[Key(t)].capacity THEN "store" ELSE "malloc")
  /\ holder[Key(t)] = None
  /\ holder' = [holder EXCEPT ![Key(t)] = t]
  /\ UNCHANGED <<arenas, cache, memory, pending, call, at, held, captureVars,
                 graph, ran, asserts, failed, since, process>>

(* The arena is looked up (an empty one is made the first time) and locked.*)
LockArena(t) ==
  /\ Goto(t, "lock", IF needed(t) <= arenas[Key(t)].capacity THEN "store"
                     ELSE IF arenas[Key(t)].capacity > 0 THEN "sync" ELSE "malloc")
  /\ holder[Key(t)] = None
  /\ holder' = [holder EXCEPT ![Key(t)] = t]
  /\ UNCHANGED <<arenas, cache, memory, pending, call, at, held, captureVars,
                 graph, ran, asserts, failed, since, process>>

(* aclrtSynchronizeStream: everything launched on the stream has run.  On  *)
(* a captured stream it fails, and nothing looks at its result.            *)
SyncStream(t) ==
  /\ Goto(t, "sync", "free")
  /\ \/ pending[call[t].stream] = <<>>
     \/ capturing /\ capStream = call[t].stream
  /\ UNCHANGED <<arenas, holder, cache, memory, pending, call, at, held,
                 captureVars, graph, ran, asserts, failed, since, process>>

(* aclrtFree(arena->buf): buf and capacity keep their values.  The free    *)
(* takes whatever is at that address, and nothing looks at its result.     *)
FreeBuffer(t) ==
  /\ Goto(t, "free", "malloc")
  /\ memory' = [b \in Buffers |-> IF b = arenas[Key(t)].buf THEN 0 ELSE memory[b]]
  /\ UNCHANGED <<arenas, holder, cache, pending, call, at, held, captureVars,
                 graph, ran, asserts, failed, since, process>>

(* aclrtMalloc writes arena->buf ...                                       *)
Malloc(t) ==
  \E b \in Buffers :
    /\ Goto(t, "malloc", "store")
    /\ memory[b] = 0
    /\ memory' = [memory EXCEPT ![b] = needed(t)]
    /\ arenas' = [arenas EXCEPT ![Key(t)].buf = b]
    /\ UNCHANGED <<holder, cache, pending, call, at, held, captureVars, graph,
                   ran, asserts, failed, since, process>>

(* ... or fails, which an assertion on its status turns into an abort.     *)
(* Without assertions Ensure goes on with what is in arena->buf, the       *)
(* address it freed or a null pointer, stores the new capacity for it and  *)
(* returns the arena.                                                      *)
MallocFails(t) ==
  /\ Goto(t, "malloc", "store")
  /\ IF asserts
       THEN process' = "aborted" /\ UNCHANGED <<arenas, failed>>
       ELSE /\ failed' = TRUE
            /\ \E b \in {arenas[Key(t)].buf, NullPtr} :
                 arenas' = [arenas EXCEPT ![Key(t)].buf = b]
            /\ UNCHANGED process
  /\ UNCHANGED <<holder, cache, memory, pending, call, at, held, captureVars,
                 graph, ran, asserts, since>>

(* The new capacity is stored, the arena enters the thread's cache, whose  *)
(* last entry drops out, and Ensure returns.                               *)
StoreAndReturn(t) ==
  /\ Goto(t, "store", "launch")
  /\ arenas' = [arenas EXCEPT ![Key(t)].capacity =
                  IF needed(t) > @ THEN needed(t) ELSE @]
  /\ cache' = [cache EXCEPT
       ![t] = SubSeq(<<Key(t)>> \o @, 1,
                     IF Len(@) < CacheSize THEN Len(@) + 1 ELSE CacheSize)]
  /\ holder' = [holder EXCEPT ![Key(t)] = None]
  /\ held' = [held EXCEPT ![t] = Append(@, arenas[Key(t)].buf)]
  /\ UNCHANGED <<memory, pending, call, at, captureVars, graph, ran, asserts,
                 failed, since, process>>

(* The kernel of the step, as the set of buffers it uses and their sizes.  *)
Kernel(t) ==
  {[buf |-> held[t][u], need |-> Program[call[t].op][u].need] :
     u \in {v \in Step(t).uses : Program[call[t].op][v].need > 0}}

OnCaptured(t) == capturing /\ capStream = call[t].stream

(* The operator launches the step's kernel, if it has one, and goes on to  *)
(* its next step or returns.                                               *)
LaunchKernel(t) ==
  LET last == at[t] = Len(Program[call[t].op])
      s == call[t].stream IN
  /\ Goto(t, "launch", IF last THEN "idle" ELSE "ensure")
  /\ at' = [at EXCEPT ![t] = IF last THEN 1 ELSE @ + 1]
  /\ call' = [call EXCEPT ![t] = IF last THEN None ELSE @]
  /\ held' = [held EXCEPT ![t] = IF last THEN <<>> ELSE @]
  /\ IF OnCaptured(t)
       THEN graph' = graph \cup Kernel(t) /\ UNCHANGED pending
       ELSE /\ Step(t).uses # {} => Len(pending[s]) < MaxPending
            /\ pending' = IF Step(t).uses = {} THEN pending
                          ELSE [pending EXCEPT ![s] = Append(@, Kernel(t))]
            /\ UNCHANGED graph
  /\ ran' = IF last /\ ~OnCaptured(t) THEN [ran EXCEPT ![s] = @ \cup {call[t].op}]
            ELSE ran
  /\ UNCHANGED <<arenas, holder, cache, memory, captureVars, asserts, failed, since, process>>

(* The device runs the oldest kernel of a stream.                          *)
RunKernel(s) ==
  /\ process = "runs"
  /\ pending[s] # <<>>
  /\ pending' = [pending EXCEPT ![s] = Tail(@)]
  /\ UNCHANGED <<arenas, holder, cache, memory, callVars, captureVars, graph,
                 ran, asserts, failed, since, process>>

-----------------------------------------------------------------------------
(* set_capture_mode(true), around the capture of a graph on stream s.      *)
BeginCapture(s) ==
  /\ process = "runs"
  /\ capture = "before" /\ InCall(s) = {}
  /\ capture' = "during" /\ capStream' = s
  /\ warmed' = (ran[s] = Ops)
  /\ UNCHANGED <<arenas, holder, cache, memory, pending, callVars, graph, ran,
                 asserts, failed, since, process>>

EndCapture ==
  /\ process = "runs"
  /\ capturing /\ InCall(capStream) = {}
  /\ capture' = "after"
  /\ UNCHANGED <<arenas, holder, cache, memory, pending, callVars, capStream,
                 warmed, graph, ran, asserts, failed, since, process>>

Owned == {arenas[k].buf : k \in {l \in Keys : arenas[l].capacity > 0}}

(* ~WorkspacePool at exit: the arenas are freed, unless the runtime is     *)
(* gone already and the device memory with it.                             *)
Destroy ==
  /\ process = "runs"
  /\ \A t \in Threads : pc[t] = "idle"
  /\ \A s \in Streams : pending[s] = <<>>
  /\ \E alive \in BOOLEAN :
       memory' = IF alive THEN [b \in Buffers |-> IF b \in Owned THEN 0 ELSE memory[b]]
                 ELSE [b \in Buffers |-> 0]
  /\ process' = "exited"
  /\ UNCHANGED <<arenas, holder, cache, pending, callVars, captureVars, graph,
                 ran, asserts, failed, since>>

Ensure(t) ==
  \/ FastPath(t) \/ SlowPath(t) \/ LockArena(t) \/ SyncStream(t)
  \/ FreeBuffer(t) \/ Malloc(t) \/ MallocFails(t) \/ StoreAndReturn(t)

Next ==
  \/ \E t \in Threads, s \in Streams, o \in Ops : BeginCall(t, s, o)
  \/ \E t \in Threads : Ensure(t) \/ LaunchKernel(t)
  \/ \E s \in Streams : RunKernel(s) \/ BeginCapture(s)
  \/ EndCapture
  \/ Destroy

Spec == Init /\ [][Next]_vars
-----------------------------------------------------------------------------
Uses == [buf: Buffers \cup {NullPtr}, need: Nat]

TypeOK ==
  /\ arenas \in [Keys -> [buf: Buffers \cup {NullPtr}, capacity: Nat]]
  /\ holder \in [Keys -> Threads \cup {None}]
  /\ cache \in [Threads -> Seq(Keys)]
  /\ memory \in [Buffers -> Nat]
  /\ pending \in [Streams -> Seq(SUBSET Uses)]
  /\ pc \in [Threads -> {"idle", "ensure", "lock", "sync", "free", "malloc",
                         "store", "launch"}]
  /\ call \in [Threads -> [stream: Streams, op: Ops] \cup {None}]
  /\ \A t \in Threads : pc[t] # "idle" =>
       /\ call[t] # None
       /\ at[t] \in 1 .. Len(Program[call[t].op])
       /\ Len(held[t]) = at[t] - (IF pc[t] = "launch" THEN 0 ELSE 1)
  /\ at \in [Threads -> Nat]
  /\ held \in [Threads -> Seq(Buffers \cup {NullPtr})]
  /\ capture \in {"before", "during", "after"}
  /\ capStream \in Streams \cup {None}
  /\ warmed \in BOOLEAN /\ asserts \in BOOLEAN
  /\ graph \subseteq Uses
  /\ ran \in [Streams -> SUBSET Ops]
  /\ process \in {"runs", "aborted", "exited"}
  /\ failed \in BOOLEAN /\ since \in Nat

(* The arenas of stream s.                                                 *)
OfStream(s) == {arenas[<<s, slot>>].buf : slot \in Slots}

(* A use is good while its buffer belongs to the stream and is big enough. *)
Good(u, s) ==
  /\ u.buf \in Buffers
  /\ u.buf \in OfStream(s)
  /\ memory[u.buf] >= u.need

(* The process runs, and no allocation failed without its being noticed.   *)
(* Once one has, an arena with a capacity and no memory is handed out, and *)
(* its next growth frees an address that may be another arena's by then:   *)
(* only that nothing leaks and that all is given back is claimed then.     *)
Sound == process = "runs" /\ ~failed

(* Captures follow a warmup, or the build has the assertion that catches   *)
(* the first allocation.  (A captured stream cannot be waited for.)        *)
Supported == capture = "before" \/ warmed \/ asserts

(* No kernel that waits in a stream uses memory that was freed, is too     *)
(* small, or has become the scratch of another stream, however arenas grow *)
(* between its launch and its run (Ensure's synchronise-then-free, and the *)
(* operators that fetch several arenas in one call).                       *)
KernelsSafe ==
  Sound /\ Supported =>
    \A s \in Streams : \A i \in 1 .. Len(pending[s]) :
      \A u \in pending[s][i] : Good(u, s)

(* The pool's books: an arena nobody is growing has the memory its         *)
(* capacity says, and no two arenas share a buffer, until an allocation    *)
(* fails unnoticed, for which the build must be one without assertions.    *)
(* No buffer leaks and an orderly exit leaves none, after such a failure   *)
(* too, although the arena that failed has a capacity and an address that  *)
(* is no longer its own (Ensure, ~WorkspacePool).                          *)
BooksExact ==
  /\ Sound =>
       \A k \in Keys : holder[k] = None /\ arenas[k].capacity > 0 =>
         /\ memory[arenas[k].buf] = arenas[k].capacity
         /\ \A l \in Keys : l # k /\ arenas[l].capacity > 0 /\ holder[l] = None
              => arenas[l].buf # arenas[k].buf
  /\ \A b \in Buffers : memory[b] > 0 => \E k \in Keys : arenas[k].buf = b
  /\ process = "exited" => \A b \in Buffers : memory[b] = 0
  /\ failed => ~asserts

(* A graph captured after every operator ran once on its stream can be     *)
(* replayed for ever: no later eager call frees a buffer that it recorded. *)
GraphReplayable ==
  Sound /\ warmed => \A u \in graph : Good(u, capStream)

(* The assertion of the slow path does its job: while a stream is being    *)
(* captured none of its arenas is reallocated.                             *)
NoAllocationInCapture ==
  [][asserts /\ capturing =>
       \A slot \in Slots :
         arenas'[<<capStream, slot>>].buf = arenas[<<capStream, slot>>].buf]_vars
=============================================================================
