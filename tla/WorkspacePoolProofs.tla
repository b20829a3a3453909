------------------------ MODULE WorkspacePoolProofs ------------------------
(***************************************************************************)
(* WorkspacePool for any threads, streams, slots, buffers, operators and   *)
(* bounds: the types, the pool's books, the safety of the kernels that     *)
(* wait in a stream or were recorded in a graph, and that no arena of a    *)
(* captured stream is reallocated.                                         *)
(*                                                                         *)
(* The argument is about bytes.  Bytes(k) is what the buffer of arena k    *)
(* has at any moment, half-way through its replacement too; only the free  *)
(* and the malloc change it (BytesSame), the books are exact in terms of   *)
(* it until an allocation fails unnoticed (Books), and no bytes are ever   *)
(* without an arena (Unleaked).  Capacities only grow, so what once        *)
(* sufficed does so for ever (Served): a stream warmed up for a capture is *)
(* never freed again.                                                      *)
(* Calls on one stream exclude each other (Locks), so a call's copies of   *)
(* its buffers stay current (CopiesCurrent), its kernels are launched on   *)
(* buffers the stream has, and the stream is empty when one is freed       *)
(* (Waited), unless it is captured, which the assertion or the warmup      *)
(* excludes (Captures).                                                    *)
(***************************************************************************)
EXTENDS WorkspacePool, SequenceTheorems, TLAPS

\* A thread is in WorkspaceArena::mutex.
InMutex == {"sync", "free", "malloc", "store"}

\* A thread outside of a call has not begun one.
IdleIsFresh == \A t \in Threads : pc[t] = "idle" => at[t] = 1 /\ held[t] = <<>>

Types == TypeOK /\ IdleIsFresh

(* Two calls are on two streams, an arena's mutex is held by the thread    *)
(* that says so, and an arena is replaced only by a larger one.            *)
Locks ==
  /\ \A t, u \in Threads :
       pc[t] # "idle" /\ pc[u] # "idle" /\ t # u => call[t].stream # call[u].stream
  /\ \A t \in Threads : pc[t] \in InMutex => holder[Key(t)] = t
  /\ \A k \in Keys : holder[k] # None => pc[holder[k]] \in InMutex /\ Key(holder[k]) = k
  /\ \A t \in Threads :
       pc[t] \in {"sync", "free", "malloc"} => arenas[Key(t)].capacity < needed(t)
  /\ \A t \in Threads :
       pc[t] \in {"sync", "free"} => arenas[Key(t)].capacity > 0

(* The bytes that the buffer of arena k really has: none between the free  *)
(* and the malloc, the new size before it is stored.                       *)
Bytes(k) ==
  IF holder[k] = None THEN arenas[k].capacity
  ELSE IF pc[holder[k]] = "malloc" THEN 0
  ELSE IF pc[holder[k]] = "store" /\ needed(holder[k]) > arenas[k].capacity
    THEN needed(holder[k])
  ELSE arenas[k].capacity

(* The pool's books, with arenas that are being replaced.                  *)
Books ==
  Sound =>
    /\ \A k \in Keys : Bytes(k) > 0 =>
         arenas[k].buf \in Buffers /\ memory[arenas[k].buf] = Bytes(k)
    /\ \A k, l \in Keys :
         Bytes(k) > 0 /\ Bytes(l) > 0 /\ arenas[k].buf = arenas[l].buf => k = l

(* Memory belongs to the arena that asked for it last, which forgets its   *)
(* address only after giving it back.  An arena whose allocation failed    *)
(* may have the address of another one's memory, but takes nobody else's.  *)
Unleaked ==
  \A b \in Buffers : memory[b] > 0 =>
    \E k \in Keys : Bytes(k) > 0 /\ arenas[k].buf = b

NothingLeft == process = "exited" => \A b \in Buffers : memory[b] = 0

\* Only a build without assertions gets past a failed allocation.
FailsUnasserted == failed => ~asserts

\* The arena of step j of a call of o on stream s, and whether it suffices.
ArenaOf(s, o, j) == <<s, Program[o][j].slot>>
Suffices(s, o, j) == Program[o][j].need <= arenas[ArenaOf(s, o, j)].capacity

(* The steps that a call made, and those of the calls that ended on a      *)
(* stream, find their arenas large enough ever after.                      *)
Served ==
  /\ \A t \in Threads : pc[t] # "idle" => \A j \in 1 .. Len(held[t]) :
       Suffices(call[t].stream, call[t].op, j)
  /\ \A s \in Streams : \A o \in ran[s] : \A j \in 1 .. Len(Program[o]) :
       Suffices(s, o, j)

(* A call's copy of a buffer is the arena's until a step asks for the same *)
(* slot again.                                                             *)
CopiesCurrent ==
  Sound =>
    \A t \in Threads : pc[t] # "idle" => \A j \in 1 .. Len(held[t]) :
      (\A k \in j + 1 .. at[t] :
         Program[call[t].op][k].slot # Program[call[t].op][j].slot)
      => held[t][j] = arenas[ArenaOf(call[t].stream, call[t].op, j)].buf

(* The capture follows its warmup, and with assertions no thread is past   *)
(* the one of the slow path on the captured stream.                        *)
Captures ==
  /\ capture = "before" => ~warmed /\ graph = {}
  /\ capture # "before" => capStream \in Streams
  /\ warmed => \A o \in Ops : \A j \in 1 .. Len(Program[o]) : Suffices(capStream, o, j)
  /\ process = "runs" /\ asserts /\ capturing =>
       \A t \in Threads : pc[t] \in InMutex \cup {"lock"} => call[t].stream # capStream

\* A recorded use of a buffer of stream s, which an arena of s still has.
Kept(u, s) ==
  /\ u.need > 0
  /\ \E slot \in Slots :
       /\ arenas[<<s, slot>>].buf = u.buf
       /\ u.need <= Bytes(<<s, slot>>)

(* A stream that was waited for is empty when the buffer is freed, and the *)
(* uses of its kernels are kept.                                           *)
Waited ==
  Sound /\ Supported =>
    \A t \in Threads : pc[t] = "free" => pending[call[t].stream] = <<>>

PendingKept ==
  Sound /\ Supported =>
    \A s \in Streams : \A i \in 1 .. Len(pending[s]) :
      \A u \in pending[s][i] : Kept(u, s)

GraphKept == Sound /\ warmed => \A u \in graph : Kept(u, capStream)

Inv ==
  /\ Types /\ Locks /\ Books /\ Unleaked /\ NothingLeft /\ Served /\ CopiesCurrent
  /\ Captures /\ Waited /\ PendingKept /\ GraphKept /\ FailsUnasserted

-----------------------------------------------------------------------------
\* What the current step of a call is.
LEMMA StepTypes ==
  ASSUME TypeOK, NEW t \in Threads, pc[t] # "idle"
  PROVE  /\ call[t].stream \in Streams /\ call[t].op \in Ops
         /\ Program[call[t].op] \in Seq([slot: Slots, need: Nat, uses: SUBSET Nat])
         /\ Len(Program[call[t].op]) \in Nat
         /\ Step(t) \in [slot: Slots, need: Nat, uses: SUBSET Nat]
         /\ Key(t) = <<call[t].stream, Step(t).slot>>
         /\ Key(t) \in Keys
         /\ needed(t) \in Nat
<1>1. /\ call[t] \in [stream: Streams, op: Ops]
      /\ at[t] \in 1 .. Len(Program[call[t].op])
  BY DEF TypeOK
<1>2. Program[call[t].op] \in Seq([slot: Slots, need: Nat, uses: SUBSET Nat])
  BY <1>1, ProgramsRederive
<1>3. Step(t) \in [slot: Slots, need: Nat, uses: SUBSET Nat]
  BY <1>1, <1>2, ElementOfSeq DEF Step
<1>4. Len(Program[call[t].op]) \in Nat
  BY <1>2, LenProperties
<1>. QED
  BY <1>1, <1>2, <1>3, <1>4 DEF Key, Keys, needed

\* What a launch records is made of buffers of the call and their sizes.
LEMMA KernelTypes ==
  ASSUME TypeOK, NEW t \in Threads, pc[t] = "launch"
  PROVE  Kernel(t) \in SUBSET Uses
<1>1. SUFFICES ASSUME NEW u \in Step(t).uses
               PROVE  [buf |-> held[t][u], need |-> Program[call[t].op][u].need] \in Uses
  BY DEF Kernel
<1>2. /\ at[t] \in 1 .. Len(Program[call[t].op])
      /\ Len(held[t]) = at[t]
      /\ held[t] \in Seq(Buffers \cup {NullPtr})
  BY DEF TypeOK
<1>3. u \in 1 .. at[t]
  BY <1>2, StepTypes, ProgramsRederive DEF Step
<1>4. held[t][u] \in Buffers \cup {NullPtr}
  BY <1>2, <1>3, ElementOfSeq
<1>5. /\ Program[call[t].op] \in Seq([slot: Slots, need: Nat, uses: SUBSET Nat])
      /\ Len(Program[call[t].op]) \in Nat
  BY StepTypes
<1>6. Program[call[t].op][u] \in [slot: Slots, need: Nat, uses: SUBSET Nat]
  <2>1. u \in 1 .. Len(Program[call[t].op])
    BY <1>2, <1>3, <1>5
  <2>. QED
    BY <1>5, <2>1, ElementOfSeq
<1>7. Program[call[t].op][u].need \in Nat
  BY <1>6
<1>. QED
  BY <1>4, <1>7 DEF Uses

\* The part of TypeOK that relates a thread's program counter to its call.
CallOf(t) ==
  /\ call[t] # None
  /\ at[t] \in 1 .. Len(Program[call[t].op])
  /\ Len(held[t]) = at[t] - (IF pc[t] = "launch" THEN 0 ELSE 1)

LEMMA TypesHoldAtFirst == Init => Types
<1>. SUFFICES ASSUME Init PROVE Types
  OBVIOUS
<1>. USE DEF Init
<1>1. arenas \in [Keys -> [buf: Buffers \cup {NullPtr}, capacity: Nat]]
  OBVIOUS
<1>2. /\ cache \in [Threads -> Seq(Keys)]
      /\ held \in [Threads -> Seq(Buffers \cup {NullPtr})]
      /\ pending \in [Streams -> Seq(SUBSET Uses)]
  BY EmptySeq
<1>3. /\ holder \in [Keys -> Threads \cup {None}]
      /\ memory \in [Buffers -> Nat]
      /\ at \in [Threads -> Nat]
      /\ ran \in [Streams -> SUBSET Ops]
      /\ call \in [Threads -> [stream: Streams, op: Ops] \cup {None}]
  OBVIOUS
<1>. QED
  BY <1>1, <1>2, <1>3 DEF TypeOK, Types, IdleIsFresh

LEMMA TypesAreKept == Types /\ [Next]_vars => Types'
<1>. SUFFICES ASSUME Types, [Next]_vars PROVE Types'
  OBVIOUS
<1>. USE DEF Types, TypeOK, IdleIsFresh, callVars, captureVars
<1>1. ASSUME NEW t \in Threads, NEW s \in Streams, NEW o \in Ops, BeginCall(t, s, o)
      PROVE  Types'
  <2>1. Len(Program[o]) \in Nat \ {0}
    BY ProgramsRederive, EmptySeq
  <2>2. /\ pc' = [pc EXCEPT ![t] = "ensure"]
        /\ call' = [call EXCEPT ![t] = [stream |-> s, op |-> o]]
    BY <1>1 DEF BeginCall, Goto
  <2>3. ASSUME NEW u \in Threads, pc'[u] # "idle"
        PROVE  CallOf(u)'
    <3>1. CASE u = t
      <4>1. call'[t] = [stream |-> s, op |-> o] /\ call'[t] # None
        BY <2>2, NullPtrIsNone
      <4>2. pc[t] = "idle" /\ at' = at /\ held' = held /\ pc'[t] = "ensure"
        BY <1>1 DEF BeginCall, Goto
      <4>. QED
        BY <2>1, <3>1, <4>1, <4>2 DEF CallOf
    <3>2. CASE u # t
      BY <1>1, <2>2, <2>3, <3>2 DEF BeginCall, CallOf
    <3>. QED
      BY <3>1, <3>2
  <2>. QED
    BY <1>1, <2>2, <2>3 DEF BeginCall, CallOf
<1>2. ASSUME NEW t \in Threads, FastPath(t)
      PROVE  Types'
  <2>1. arenas[Key(t)].buf \in Buffers \cup {NullPtr}
    BY <1>2, StepTypes DEF FastPath, Goto
  <2>2. /\ held' \in [Threads -> Seq(Buffers \cup {NullPtr})]
        /\ Len(held'[t]) = Len(held[t]) + 1
    BY <1>2, <2>1 DEF FastPath
  <2>3. ASSUME NEW u \in Threads, pc'[u] # "idle"
        PROVE  CallOf(u)'
    BY <1>2, <2>2, <2>3 DEF FastPath, Goto, CallOf
  <2>. QED
    BY <1>2, <2>2, <2>3 DEF FastPath, Goto, CallOf
<1>3. ASSUME NEW t \in Threads, SlowPath(t)
      PROVE  Types'
  BY <1>3 DEF SlowPath, Goto
<1>4. ASSUME NEW t \in Threads, LockArena(t)
      PROVE  Types'
  BY <1>4, StepTypes DEF LockArena, Goto
<1>5. ASSUME NEW t \in Threads, SyncStream(t)
      PROVE  Types'
  BY <1>5 DEF SyncStream, Goto
<1>6. ASSUME NEW t \in Threads, FreeBuffer(t)
      PROVE  Types'
  BY <1>6 DEF FreeBuffer, Goto
<1>7. ASSUME NEW t \in Threads, Malloc(t)
      PROVE  Types'
  <2>. PICK b \in Buffers : /\ Goto(t, "malloc", "store")
                            /\ memory' = [memory EXCEPT ![b] = needed(t)]
                            /\ arenas' = [arenas EXCEPT ![Key(t)].buf = b]
    BY <1>7 DEF Malloc
  <2>1. Key(t) \in Keys /\ needed(t) \in Nat
    BY StepTypes DEF Goto
  <2>2. /\ memory' \in [Buffers -> Nat]
        /\ arenas' \in [Keys -> [buf: Buffers \cup {NullPtr}, capacity: Nat]]
    BY <2>1
  <2>. QED
    BY <1>7, <2>2 DEF Malloc, Goto
<1>8. ASSUME NEW t \in Threads, MallocFails(t)
      PROVE  Types'
  <2>1. Key(t) \in Keys /\ arenas[Key(t)].buf \in Buffers \cup {NullPtr}
    BY <1>8, StepTypes DEF MallocFails, Goto
  <2>2. arenas' \in [Keys -> [buf: Buffers \cup {NullPtr}, capacity: Nat]]
    <3>1. CASE arenas' = arenas
      BY <3>1
    <3>2. ASSUME NEW b \in Buffers \cup {NullPtr}, arenas' = [arenas EXCEPT ![Key(t)].buf = b]
          PROVE  arenas' \in [Keys -> [buf: Buffers \cup {NullPtr}, capacity: Nat]]
      <4>1. arenas \in [Keys -> [buf: Buffers \cup {NullPtr}, capacity: Nat]]
        OBVIOUS
      <4>. QED
        BY ONLY <2>1, <3>2, <4>1
    <3>3. arenas[Key(t)].buf \in Buffers \cup {NullPtr} /\ NullPtr \in Buffers \cup {NullPtr}
      BY <2>1
    <3>4. \/ arenas' = arenas
          \/ \E b \in {arenas[Key(t)].buf, NullPtr} : arenas' = [arenas EXCEPT ![Key(t)].buf = b]
      BY <1>8 DEF MallocFails
    <3>. QED
      BY <3>1, <3>2, <3>3, <3>4
  <2>3. failed' \in BOOLEAN /\ process' \in {"runs", "aborted", "exited"}
    BY <1>8 DEF MallocFails
  <2>. QED
    BY <1>8, <2>2, <2>3 DEF MallocFails, Goto
<1>9. ASSUME NEW t \in Threads, StoreAndReturn(t)
      PROVE  Types'
  <2>1. /\ Key(t) \in Keys /\ needed(t) \in Nat
        /\ arenas[Key(t)] \in [buf: Buffers \cup {NullPtr}, capacity: Nat]
    BY <1>9, StepTypes DEF StoreAndReturn, Goto
  <2>2. arenas' \in [Keys -> [buf: Buffers \cup {NullPtr}, capacity: Nat]]
    BY <1>9, <2>1 DEF StoreAndReturn
  <2>3. cache' \in [Threads -> Seq(Keys)]
    <3>. DEFINE all == <<Key(t)>> \o cache[t]
                n == IF Len(cache[t]) < CacheSize THEN Len(cache[t]) + 1 ELSE CacheSize
    <3>1. all \in Seq(Keys) /\ Len(all) = Len(cache[t]) + 1
      BY <2>1
    <3>2. n \in Nat /\ n <= Len(all)
      BY <3>1, BoundsArePositive
    <3>3. \A i \in 1 .. n : all[i] \in Keys
      BY <3>1, <3>2, ElementOfSeq
    <3>. HIDE DEF all, n
    <3>4. SubSeq(all, 1, n) \in Seq(Keys)
      BY <3>2, <3>3, SubSeqProperties
    <3>5. cache' = [cache EXCEPT ![t] = SubSeq(all, 1, n)]
      BY <1>9 DEF StoreAndReturn, all, n
    <3>. QED
      BY <3>4, <3>5
  <2>4. /\ held' \in [Threads -> Seq(Buffers \cup {NullPtr})]
        /\ Len(held'[t]) = Len(held[t]) + 1
    BY <1>9, <2>1 DEF StoreAndReturn
  <2>5. ASSUME NEW u \in Threads, pc'[u] # "idle"
        PROVE  CallOf(u)'
    <3>1. /\ pc[t] = "store" /\ pc' = [pc EXCEPT ![t] = "launch"]
          /\ call' = call /\ at' = at
          /\ u # t => held'[u] = held[u]
      BY <1>9 DEF StoreAndReturn, Goto
    <3>. QED
      BY <2>4, <2>5, <3>1 DEF CallOf
  <2>6. holder' \in [Keys -> Threads \cup {None}]
    BY <1>9 DEF StoreAndReturn
  <2>. QED
    BY <1>9, <2>2, <2>3, <2>4, <2>5, <2>6 DEF StoreAndReturn, Goto, CallOf
<1>10. ASSUME NEW t \in Threads, LaunchKernel(t)
       PROVE  Types'
  <2>. DEFINE last == at[t] = Len(Program[call[t].op])
              s == call[t].stream
  <2>1. /\ s \in Streams /\ call[t].op \in Ops
        /\ Kernel(t) \in SUBSET Uses
        /\ at[t] \in 1 .. Len(Program[call[t].op])
        /\ Len(Program[call[t].op]) \in Nat
        /\ Len(held[t]) = at[t]
    <3>1. pc[t] = "launch"
      BY <1>10 DEF LaunchKernel, Goto
    <3>2. Kernel(t) \in SUBSET Uses
      BY <3>1, KernelTypes
    <3>3. /\ s \in Streams /\ call[t].op \in Ops
          /\ Len(Program[call[t].op]) \in Nat
      BY <3>1, StepTypes
    <3>4. at[t] \in 1 .. Len(Program[call[t].op]) /\ Len(held[t]) = at[t]
      BY <3>1
    <3>. QED
      BY <3>2, <3>3, <3>4
  <2>2. /\ at' \in [Threads -> Nat]
        /\ call' \in [Threads -> [stream: Streams, op: Ops] \cup {None}]
        /\ held' \in [Threads -> Seq(Buffers \cup {NullPtr})]
    <3>1. at' = [at EXCEPT ![t] = IF last THEN 1 ELSE @ + 1]
      BY <1>10 DEF LaunchKernel
    <3>2. call' = [call EXCEPT ![t] = IF last THEN None ELSE @]
      BY <1>10 DEF LaunchKernel
    <3>3. held' = [held EXCEPT ![t] = IF last THEN <<>> ELSE @]
      BY <1>10 DEF LaunchKernel
    <3>. HIDE DEF last
    <3>4. at' \in [Threads -> Nat]
      BY <3>1
    <3>5. call' \in [Threads -> [stream: Streams, op: Ops] \cup {None}]
      BY <3>2
    <3>6. held' \in [Threads -> Seq(Buffers \cup {NullPtr})]
      BY <3>3, EmptySeq
    <3>. QED
      BY <3>4, <3>5, <3>6
  <2>3. /\ pending' \in [Streams -> Seq(SUBSET Uses)]
        /\ graph' \subseteq Uses
    <3>1. Append(pending[s], Kernel(t)) \in Seq(SUBSET Uses)
      BY <2>1
    <3>2. \/ UNCHANGED pending
          \/ pending' = [pending EXCEPT ![s] = Append(pending[s], Kernel(t))]
      BY <1>10 DEF LaunchKernel
    <3>3. UNCHANGED graph \/ graph' = graph \cup Kernel(t)
      BY <1>10 DEF LaunchKernel
    <3>4. graph' \subseteq Uses
      BY <2>1, <3>3
    <3>5. pending' \in [Streams -> Seq(SUBSET Uses)]
      <4>. HIDE DEF s
      <4>1. pending \in [Streams -> Seq(SUBSET Uses)]
        OBVIOUS
      <4>. QED
        BY ONLY <2>1, <3>1, <3>2, <4>1
    <3>. QED
      BY <3>4, <3>5
  <2>4. ran' \in [Streams -> SUBSET Ops]
    BY <1>10, <2>1 DEF LaunchKernel
  <2>5. ASSUME NEW u \in Threads, pc'[u] # "idle"
        PROVE  CallOf(u)'
    BY <1>10, <2>1, <2>5 DEF LaunchKernel, Goto, CallOf
  <2>. QED
    BY <1>10, <2>2, <2>3, <2>4, <2>5 DEF LaunchKernel, Goto, CallOf
<1>11. ASSUME NEW s \in Streams, RunKernel(s)
       PROVE  Types'
  BY <1>11, HeadTailProperties DEF RunKernel, callVars, captureVars
<1>12. ASSUME NEW s \in Streams, BeginCapture(s)
       PROVE  Types'
  BY <1>12 DEF BeginCapture, callVars
<1>13. CASE EndCapture
  BY <1>13 DEF EndCapture, callVars
<1>14. CASE Destroy
  BY <1>14 DEF Destroy, callVars, captureVars
<1>15. CASE UNCHANGED vars
  BY <1>15 DEF vars, callVars, captureVars
<1>. QED
  BY <1>1, <1>2, <1>3, <1>4, <1>5, <1>6, <1>7, <1>8, <1>9, <1>10, <1>11, <1>12,
     <1>13, <1>14, <1>15 DEF Next, Ensure

-----------------------------------------------------------------------------
(* The frame of a step.                                                    *)

\* A step of Ensure leaves every call where it is.
LEMMA EnsureKeepsCalls ==
  ASSUME NEW t \in Threads, Ensure(t)
  PROVE  /\ call' = call /\ at' = at
         /\ \A u \in Threads : Key(u)' = Key(u) /\ needed(u)' = needed(u)
<1>1. call' = call /\ at' = at
  BY DEF Ensure, FastPath, SlowPath, LockArena, SyncStream, FreeBuffer, Malloc,
         MallocFails, StoreAndReturn, callVars
<1>. QED
  BY <1>1 DEF Key, needed, Step

\* A step of a thread leaves the others where they are.
LEMMA OthersStay ==
  ASSUME Types, NEW t \in Threads, NEW u \in Threads, u # t,
         Ensure(t) \/ LaunchKernel(t) \/ \E s \in Streams, o \in Ops : BeginCall(t, s, o)
  PROVE  /\ pc'[u] = pc[u] /\ call'[u] = call[u] /\ at'[u] = at[u] /\ held'[u] = held[u]
         /\ Key(u)' = Key(u) /\ needed(u)' = needed(u)
<1>1. pc'[u] = pc[u] /\ call'[u] = call[u] /\ at'[u] = at[u] /\ held'[u] = held[u]
  <2>. USE DEF Types, TypeOK, Goto
  <2>1. CASE Ensure(t)
    BY <2>1 DEF Ensure, FastPath, SlowPath, LockArena, SyncStream, FreeBuffer,
                Malloc, MallocFails, StoreAndReturn, callVars
  <2>2. CASE LaunchKernel(t)
    BY <2>2 DEF LaunchKernel
  <2>3. CASE \E s \in Streams, o \in Ops : BeginCall(t, s, o)
    BY <2>3 DEF BeginCall
  <2>. QED
    BY <2>1, <2>2, <2>3
<1>. QED
  BY <1>1 DEF Key, needed, Step

\* Only Malloc, StoreAndReturn and a failed allocation write to an arena.
LEMMA ArenaWrites ==
  ASSUME Types, [Next]_vars, NEW k \in Keys
  PROVE  /\ arenas[k].capacity <= arenas'[k].capacity
         /\ \/ arenas'[k].buf = arenas[k].buf
            \/ \E t \in Threads : Malloc(t) /\ Key(t) = k
            \/ \E t \in Threads : MallocFails(t) /\ Key(t) = k
<1>0. arenas[k] \in [buf: Buffers \cup {NullPtr}, capacity: Nat]
  BY DEF Types, TypeOK
<1>1. ASSUME NEW t \in Threads, Malloc(t)
      PROVE  /\ arenas[k].capacity <= arenas'[k].capacity
             /\ arenas'[k].buf = arenas[k].buf \/ Key(t) = k
  <2>1. /\ Key(t) \in Keys
        /\ \E b \in Buffers : arenas' = [arenas EXCEPT ![Key(t)].buf = b]
    BY <1>1, StepTypes DEF Malloc, Goto, Types
  <2>. QED
    BY <1>0, <2>1 DEF Types, TypeOK
<1>2. ASSUME NEW t \in Threads, StoreAndReturn(t)
      PROVE  /\ arenas[k].capacity <= arenas'[k].capacity
             /\ arenas'[k].buf = arenas[k].buf
  <2>1. /\ Key(t) \in Keys /\ needed(t) \in Nat
        /\ arenas' = [arenas EXCEPT ![Key(t)].capacity =
                        IF needed(t) > @ THEN needed(t) ELSE @]
    BY <1>2, StepTypes DEF StoreAndReturn, Goto, Types
  <2>. QED
    BY <1>0, <2>1 DEF Types, TypeOK
<1>3. ASSUME NEW t \in Threads, MallocFails(t)
      PROVE  /\ arenas[k].capacity <= arenas'[k].capacity
             /\ arenas'[k].buf = arenas[k].buf \/ Key(t) = k
  <2>1. Key(t) \in Keys
    BY <1>3, StepTypes DEF MallocFails, Goto, Types
  <2>2. CASE asserts
    BY <1>0, <1>3, <2>2 DEF MallocFails
  <2>3. CASE ~asserts
    <3>1. PICK b \in {arenas[Key(t)].buf, NullPtr} :
            arenas' = [arenas EXCEPT ![Key(t)].buf = b]
      BY <1>3, <2>3 DEF MallocFails
    <3>. QED
      BY <1>0, <2>1, <2>3, <3>1 DEF Types, TypeOK
  <2>. QED
    BY <2>2, <2>3
<1>4. \/ arenas' = arenas
      \/ \E t \in Threads : Malloc(t) \/ StoreAndReturn(t) \/ MallocFails(t)
  BY DEF Next, Ensure, BeginCall, FastPath, SlowPath, LockArena, SyncStream, FreeBuffer,
         LaunchKernel, RunKernel, BeginCapture, EndCapture, Destroy, vars
<1>. QED
  BY <1>0, <1>1, <1>2, <1>3, <1>4

\* A failed allocation ends what is claimed of the pool.
LEMMA FailureIsTheEnd ==
  ASSUME NEW t \in Threads, MallocFails(t)
  PROVE  ~Sound'
BY DEF MallocFails, Sound

-----------------------------------------------------------------------------
LEMMA LocksAreKept == Inv /\ [Next]_vars => Locks'
<1>. SUFFICES ASSUME Inv, [Next]_vars PROVE Locks'
  OBVIOUS
<1>. USE DEF Inv, Locks, InMutex
<1>1. ASSUME NEW t \in Threads, NEW s \in Streams, NEW o \in Ops, BeginCall(t, s, o)
      PROVE  Locks'
  <2>1. /\ pc[t] = "idle" /\ pc'[t] = "ensure" /\ call'[t].stream = s
        /\ holder' = holder /\ arenas' = arenas
        /\ \A u \in Threads : pc[u] # "idle" => call[u].stream # s
    BY <1>1 DEF BeginCall, Goto, InCall, Types, TypeOK
  <2>2. \A u \in Threads \ {t} :
          /\ pc'[u] = pc[u] /\ call'[u] = call[u]
          /\ Key(u)' = Key(u) /\ needed(u)' = needed(u)
    BY <1>1, OthersStay
  <2>3. \A k \in Keys : holder[k] \in Threads \cup {None}
    BY DEF Types, TypeOK
  <2>. QED
    BY <2>1, <2>2, <2>3
<1>2. ASSUME NEW t \in Threads, FastPath(t) \/ SlowPath(t)
      PROVE  Locks'
  <2>1. /\ pc[t] = "ensure" /\ pc'[t] \in {"launch", "lock"}
        /\ holder' = holder /\ arenas' = arenas
    BY <1>2 DEF FastPath, SlowPath, Goto, Types, TypeOK
  <2>2. /\ call' = call
        /\ \A u \in Threads : Key(u)' = Key(u) /\ needed(u)' = needed(u)
        /\ \A u \in Threads \ {t} : pc'[u] = pc[u]
    BY <1>2, EnsureKeepsCalls, OthersStay DEF Ensure
  <2>3. holder \in [Keys -> Threads \cup {None}]
    BY DEF Types, TypeOK
  <2>. QED
    BY <2>1, <2>2, <2>3
<1>3. ASSUME NEW t \in Threads, LockArena(t)
      PROVE  Locks'
  <2>1. /\ pc[t] = "lock" /\ Key(t) \in Keys /\ needed(t) \in Nat
        /\ arenas[Key(t)].capacity \in Nat
        /\ holder[Key(t)] = None /\ holder' = [holder EXCEPT ![Key(t)] = t]
        /\ arenas' = arenas
    BY <1>3, StepTypes DEF LockArena, Goto, Types, TypeOK
  <2>2. \/ pc'[t] = "store"
        \/ pc'[t] = "sync" /\ arenas[Key(t)].capacity > 0 /\ arenas[Key(t)].capacity < needed(t)
        \/ pc'[t] = "malloc" /\ arenas[Key(t)].capacity < needed(t)
    BY <1>3, <2>1 DEF LockArena, Goto, Types, TypeOK
  <2>3. /\ call' = call
        /\ \A u \in Threads : Key(u)' = Key(u) /\ needed(u)' = needed(u)
        /\ \A u \in Threads \ {t} : pc'[u] = pc[u]
    BY <1>3, EnsureKeepsCalls, OthersStay DEF Ensure
  <2>4. holder \in [Keys -> Threads \cup {None}] /\ None \notin Threads
    BY NullPtrIsNone DEF Types, TypeOK
  <2>. QED
    BY <2>1, <2>2, <2>3, <2>4
<1>4. ASSUME NEW t \in Threads, SyncStream(t) \/ FreeBuffer(t)
      PROVE  Locks'
  <2>1. /\ \/ pc[t] = "sync" /\ pc'[t] = "free"
           \/ pc[t] = "free" /\ pc'[t] = "malloc"
        /\ holder' = holder /\ arenas' = arenas
    BY <1>4 DEF SyncStream, FreeBuffer, Goto, Types, TypeOK
  <2>2. /\ call' = call
        /\ \A u \in Threads : Key(u)' = Key(u) /\ needed(u)' = needed(u)
        /\ \A u \in Threads \ {t} : pc'[u] = pc[u]
    BY <1>4, EnsureKeepsCalls, OthersStay DEF Ensure
  <2>3. holder \in [Keys -> Threads \cup {None}]
    BY DEF Types, TypeOK
  <2>. QED
    BY <2>1, <2>2, <2>3
<1>5. ASSUME NEW t \in Threads, Malloc(t) \/ MallocFails(t)
      PROVE  Locks'
  <2>1. /\ pc[t] = "malloc" /\ pc'[t] = "store" /\ holder' = holder
        /\ \A k \in Keys : arenas'[k].capacity = arenas[k].capacity
    <3>1. \/ arenas' = arenas
          \/ \E b : arenas' = [arenas EXCEPT ![Key(t)].buf = b]
      <4>1. CASE Malloc(t)
        BY <4>1 DEF Malloc
      <4>2. CASE MallocFails(t)
        BY <4>2 DEF MallocFails
      <4>. QED
        BY <1>5, <4>1, <4>2
    <3>2. \A k \in Keys : arenas'[k].capacity = arenas[k].capacity
      <4>1. CASE arenas' = arenas
        BY <4>1
      <4>2. ASSUME NEW b, arenas' = [arenas EXCEPT ![Key(t)].buf = b]
            PROVE  \A k \in Keys : arenas'[k].capacity = arenas[k].capacity
        BY <4>2 DEF Types, TypeOK
      <4>. QED
        BY <3>1, <4>1, <4>2
    <3>. QED
      BY <1>5, <3>2 DEF Malloc, MallocFails, Goto, Types, TypeOK
  <2>2. /\ call' = call
        /\ \A u \in Threads : Key(u)' = Key(u) /\ needed(u)' = needed(u)
        /\ \A u \in Threads \ {t} : pc'[u] = pc[u]
    BY <1>5, EnsureKeepsCalls, OthersStay DEF Ensure
  <2>3. \A u \in Threads : pc[u] # "idle" => Key(u) \in Keys
    BY StepTypes DEF Types
  <2>4. holder \in [Keys -> Threads \cup {None}]
    BY DEF Types, TypeOK
  <2>. QED
    BY <2>1, <2>2, <2>3, <2>4
<1>6. ASSUME NEW t \in Threads, StoreAndReturn(t)
      PROVE  Locks'
  <2>1. /\ pc[t] = "store" /\ pc'[t] = "launch" /\ Key(t) \in Keys
        /\ holder' = [holder EXCEPT ![Key(t)] = None]
        /\ \A k \in Keys \ {Key(t)} : arenas'[k] = arenas[k]
    BY <1>6, StepTypes DEF StoreAndReturn, Goto, Types, TypeOK
  <2>2. /\ call' = call
        /\ \A u \in Threads : Key(u)' = Key(u) /\ needed(u)' = needed(u)
        /\ \A u \in Threads \ {t} : pc'[u] = pc[u]
    BY <1>6, EnsureKeepsCalls, OthersStay DEF Ensure
  <2>3. holder \in [Keys -> Threads \cup {None}]
    BY DEF Types, TypeOK
  <2>4. \A u \in Threads : pc[u] \in InMutex => Key(u) \in Keys
    BY StepTypes DEF Types
  <2>5. \A u \in Threads \ {t} : pc[u] \in InMutex => Key(u) # Key(t)
    BY <2>1
  <2>. QED
    BY <2>1, <2>2, <2>3, <2>4, <2>5
<1>7. ASSUME NEW t \in Threads, LaunchKernel(t)
      PROVE  Locks'
  <2>1. /\ pc[t] = "launch" /\ pc'[t] \in {"idle", "ensure"}
        /\ pc'[t] # "idle" => call'[t] = call[t]
        /\ holder' = holder /\ arenas' = arenas
    BY <1>7 DEF LaunchKernel, Goto, Types, TypeOK
  <2>2. \A u \in Threads \ {t} :
          /\ pc'[u] = pc[u] /\ call'[u] = call[u]
          /\ Key(u)' = Key(u) /\ needed(u)' = needed(u)
    BY <1>7, OthersStay
  <2>3. holder \in [Keys -> Threads \cup {None}]
    BY DEF Types, TypeOK
  <2>. QED
    BY <2>1, <2>2, <2>3
<1>8. CASE UNCHANGED <<arenas, holder, callVars>>
  BY <1>8 DEF callVars, Key, needed, Step
<1>. QED
  BY <1>1, <1>2, <1>3, <1>4, <1>5, <1>6, <1>7, <1>8
     DEF Next, Ensure, RunKernel, BeginCapture, EndCapture, Destroy, vars

-----------------------------------------------------------------------------
(* Memory.  Only FreeBuffer and Malloc change what an arena has.           *)

LEMMA BytesTypes ==
  ASSUME Inv, NEW k \in Keys
  PROVE  /\ Bytes(k) \in Nat
         /\ arenas[k] \in [buf: Buffers \cup {NullPtr}, capacity: Nat]
<1>1. /\ arenas[k] \in [buf: Buffers \cup {NullPtr}, capacity: Nat]
      /\ holder[k] \in Threads \cup {None}
  BY DEF Inv, Types, TypeOK
<1>2. ASSUME holder[k] # None PROVE needed(holder[k]) \in Nat
  <2>1. pc[holder[k]] # "idle"
    BY <1>2 DEF Inv, Locks, InMutex
  <2>. QED
    BY <1>1, <1>2, <2>1, StepTypes DEF Inv, Types
<1>. QED
  BY <1>1, <1>2 DEF Bytes

LEMMA BytesSame ==
  ASSUME Inv, [Next]_vars, NEW k \in Keys,
         \A t \in Threads : Key(t) = k => ~FreeBuffer(t) /\ ~Malloc(t) /\ ~MallocFails(t)
  PROVE  Bytes(k)' = Bytes(k) /\ arenas'[k].buf = arenas[k].buf
<1>1. arenas'[k].buf = arenas[k].buf
  BY ArenaWrites DEF Inv
<1>2. holder[k] \in Threads \cup {None} /\ None \notin Threads
  BY NullPtrIsNone DEF Inv, Types, TypeOK
<1>3. holder[k] # None => pc[holder[k]] \in InMutex /\ Key(holder[k]) = k
  BY DEF Inv, Locks
<1>4. ASSUME NEW t \in Threads,
             LaunchKernel(t) \/ \E s \in Streams, o \in Ops : BeginCall(t, s, o)
      PROVE  Bytes(k)' = Bytes(k)
  <2>1. holder' = holder /\ arenas' = arenas /\ pc[t] \notin InMutex
    BY <1>4 DEF LaunchKernel, BeginCall, Goto, InMutex
  <2>2. holder[k] # None => /\ pc'[holder[k]] = pc[holder[k]]
                            /\ needed(holder[k])' = needed(holder[k])
    BY <1>2, <1>3, <1>4, <2>1, OthersStay DEF Inv
  <2>. QED
    BY <2>1, <2>2 DEF Bytes
<1>5. ASSUME NEW t \in Threads, Ensure(t)
      PROVE  Bytes(k)' = Bytes(k)
  <2>1. \A u \in Threads : Key(u)' = Key(u) /\ needed(u)' = needed(u)
    BY <1>5, EnsureKeepsCalls
  <2>2. \A u \in Threads \ {t} : pc'[u] = pc[u]
    BY <1>5, OthersStay DEF Inv
  <2>3. CASE FastPath(t) \/ SlowPath(t)
    <3>1. holder' = holder /\ arenas' = arenas /\ pc[t] \notin InMutex
      BY <2>3 DEF FastPath, SlowPath, Goto, InMutex
    <3>. QED
      BY <1>2, <1>3, <2>1, <2>2, <3>1 DEF Bytes
  <2>4. CASE LockArena(t)
    <3>1. /\ pc[t] = "lock" /\ holder[Key(t)] = None
          /\ holder' = [holder EXCEPT ![Key(t)] = t] /\ arenas' = arenas
          /\ Key(t) \in Keys /\ needed(t) \in Nat /\ arenas[Key(t)].capacity \in Nat
          /\ pc'[t] = IF needed(t) <= arenas[Key(t)].capacity THEN "store"
                      ELSE IF arenas[Key(t)].capacity > 0 THEN "sync" ELSE "malloc"
      BY <2>4, StepTypes DEF LockArena, Goto, Inv, Types, TypeOK
    <3>2. CASE Key(t) = k
      <4>1. holder'[k] = t /\ arenas'[k] = arenas[k] /\ Bytes(k) = arenas[k].capacity
        BY <3>1, <3>2 DEF Bytes, Inv, Types, TypeOK
      <4>2. t # None
        BY <1>2
      <4>. QED
        BY <2>1, <3>1, <3>2, <4>1, <4>2 DEF Bytes
    <3>3. CASE Key(t) # k
      <4>1. holder'[k] = holder[k] /\ holder[k] # t
        BY <1>2, <1>3, <3>1, <3>3 DEF Inv, Types, TypeOK, InMutex
      <4>. QED
        BY <1>2, <2>1, <2>2, <3>1, <4>1 DEF Bytes
    <3>. QED
      BY <3>2, <3>3
  <2>5. CASE SyncStream(t)
    <3>1. /\ holder' = holder /\ arenas' = arenas
          /\ pc[t] = "sync" /\ pc'[t] = "free"
      BY <2>5 DEF SyncStream, Goto, Inv, Types, TypeOK
    <3>. QED
      BY <1>2, <2>1, <2>2, <3>1 DEF Bytes
  <2>6. CASE FreeBuffer(t) \/ Malloc(t) \/ MallocFails(t)
    <3>1. /\ holder' = holder /\ pc[t] \in InMutex /\ Key(t) \in Keys /\ Key(t) # k
      BY <2>6, StepTypes DEF FreeBuffer, Malloc, MallocFails, Goto, InMutex, Inv, Types
    <3>2. arenas'[k] = arenas[k]
      <4>1. CASE FreeBuffer(t) \/ Malloc(t)
        BY <3>1, <4>1 DEF FreeBuffer, Malloc, Inv, Types, TypeOK
      <4>2. CASE MallocFails(t)
        BY <3>1, <4>2 DEF MallocFails, Inv, Types, TypeOK
      <4>. QED
        BY <2>6, <4>1, <4>2
    <3>3. holder[k] # t
      BY <1>2, <1>3, <3>1
    <3>. QED
      BY <1>2, <2>1, <2>2, <3>1, <3>2, <3>3 DEF Bytes
  <2>7. CASE StoreAndReturn(t)
    <3>1. /\ pc[t] = "store" /\ Key(t) \in Keys /\ needed(t) \in Nat
          /\ arenas[Key(t)].capacity \in Nat
          /\ holder' = [holder EXCEPT ![Key(t)] = None]
          /\ arenas'[Key(t)].capacity = IF needed(t) > arenas[Key(t)].capacity
                                        THEN needed(t) ELSE arenas[Key(t)].capacity
          /\ \A l \in Keys \ {Key(t)} : arenas'[l] = arenas[l]
      BY <2>7, StepTypes DEF StoreAndReturn, Goto, Inv, Types, TypeOK
    <3>2. CASE Key(t) = k
      <4>1. holder[k] = t /\ holder'[k] = None
        BY <3>1, <3>2 DEF Inv, Locks, InMutex, Types, TypeOK
      <4>. QED
        BY <1>2, <3>1, <3>2, <4>1 DEF Bytes
    <3>3. CASE Key(t) # k
      <4>1. holder'[k] = holder[k] /\ holder[k] # t /\ arenas'[k] = arenas[k]
        BY <1>2, <1>3, <3>1, <3>3 DEF Inv, Types, TypeOK
      <4>. QED
        BY <1>2, <2>1, <2>2, <4>1 DEF Bytes
    <3>. QED
      BY <3>2, <3>3
  <2>. QED
    BY <1>5, <2>3, <2>4, <2>5, <2>6, <2>7 DEF Ensure
<1>6. CASE UNCHANGED <<arenas, holder, callVars>>
  BY <1>6 DEF callVars, Bytes, needed, Step
<1>. QED
  BY <1>1, <1>4, <1>5, <1>6 DEF Next, RunKernel, BeginCapture, EndCapture, Destroy, vars

LEMMA BytesFreed ==
  ASSUME Inv, NEW t \in Threads, FreeBuffer(t), NEW k, k = Key(t)
  PROVE  /\ k \in Keys /\ Bytes(k) > 0 /\ Bytes(k)' = 0
         /\ memory' = [memory EXCEPT ![arenas[k].buf] = 0]
<1>1. /\ pc[t] = "free" /\ pc'[t] = "malloc" /\ holder' = holder /\ arenas' = arenas
      /\ memory' = [memory EXCEPT ![arenas[k].buf] = 0]
  BY DEF FreeBuffer, Goto, Inv, Types, TypeOK
<1>2. k \in Keys
  BY <1>1, StepTypes DEF Inv, Types
<1>3. holder[k] = t /\ t # None /\ arenas[k].capacity > 0
  BY <1>1, NullPtrIsNone DEF Inv, Locks, InMutex
<1>. QED
  BY <1>1, <1>2, <1>3 DEF Bytes

LEMMA BytesAllocated ==
  ASSUME Inv, NEW t \in Threads, Malloc(t), NEW k, k = Key(t)
  PROVE  /\ k \in Keys /\ Bytes(k) = 0
         /\ needed(t) \in Nat /\ needed(t) > 0 /\ Bytes(k)' = needed(t)
         /\ \E b \in Buffers :
              /\ memory[b] = 0 /\ memory' = [memory EXCEPT ![b] = needed(t)]
              /\ arenas' = [arenas EXCEPT ![k].buf = b]
<1>1. /\ pc[t] = "malloc" /\ pc'[t] = "store" /\ holder' = holder
      /\ \E b \in Buffers :
           /\ memory[b] = 0 /\ memory' = [memory EXCEPT ![b] = needed(t)]
           /\ arenas' = [arenas EXCEPT ![k].buf = b]
  BY DEF Malloc, Goto, Inv, Types, TypeOK
<1>2. /\ k \in Keys
      /\ needed(t) \in Nat /\ needed(t)' = needed(t)
  BY <1>1, StepTypes, EnsureKeepsCalls DEF Ensure, Inv, Types
<1>3. /\ holder[k] = t /\ t # None /\ arenas[k].capacity < needed(t)
  BY <1>1, NullPtrIsNone DEF Inv, Locks, InMutex
<1>4. arenas[k].capacity \in Nat /\ arenas'[k].capacity = arenas[k].capacity
  BY <1>1, <1>2 DEF Inv, Types, TypeOK
<1>5. Bytes(k) = 0
  BY <1>1, <1>3 DEF Bytes
<1>6. Bytes(k)' = needed(t)
  BY <1>1, <1>2, <1>3, <1>4 DEF Bytes, needed, Step
<1>7. needed(t) > 0
  BY <1>2, <1>3, <1>4
<1>. QED
  BY <1>1, <1>2, <1>5, <1>6, <1>7

LEMMA OnlyRunningSteps ==
  ASSUME [Next]_vars, Sound'
  PROVE  Sound
<1>1. process' = "runs" => process = "runs"
  BY DEF Next, Ensure, BeginCall, FastPath, SlowPath, LockArena, SyncStream, FreeBuffer,
         Malloc, MallocFails, StoreAndReturn, LaunchKernel, Goto, RunKernel, BeginCapture,
         EndCapture, Destroy, vars
<1>2. failed' = failed \/ \E t \in Threads : MallocFails(t)
  BY DEF Next, Ensure, BeginCall, FastPath, SlowPath, LockArena, SyncStream, FreeBuffer,
         Malloc, StoreAndReturn, LaunchKernel, RunKernel, BeginCapture, EndCapture,
         Destroy, vars
<1>3. ~\E t \in Threads : MallocFails(t)
  BY FailureIsTheEnd
<1>. QED
  BY <1>1, <1>2, <1>3 DEF Sound

LEMMA BytesOfOthersSame ==
  ASSUME Inv, [Next]_vars, NEW t \in Threads,
         FreeBuffer(t) \/ Malloc(t) \/ MallocFails(t), NEW k \in Keys, k # Key(t)
  PROVE  Bytes(k)' = Bytes(k) /\ arenas'[k].buf = arenas[k].buf
<1>1. ASSUME NEW u \in Threads, FreeBuffer(u) \/ Malloc(u) \/ MallocFails(u)
      PROVE  u = t
  <2>. SUFFICES ASSUME u # t PROVE FALSE
    OBVIOUS
  <2>1. pc'[u] = pc[u]
    BY OthersStay DEF Ensure, Inv
  <2>2. pc'[u] # pc[u]
    BY <1>1 DEF FreeBuffer, Malloc, MallocFails, Goto, Inv, Types, TypeOK
  <2>. QED
    BY <2>1, <2>2
<1>2. \A u \in Threads : Key(u) = k => ~FreeBuffer(u) /\ ~Malloc(u) /\ ~MallocFails(u)
  BY <1>1
<1>. QED
  BY <1>2, BytesSame

LEMMA BooksAreKept == Inv /\ [Next]_vars => Books'
<1>. SUFFICES ASSUME Inv, [Next]_vars, Sound'
              PROVE  /\ \A k \in Keys : Bytes(k)' > 0 =>
                          /\ arenas'[k].buf \in Buffers
                          /\ memory'[arenas'[k].buf] = Bytes(k)'
                     /\ \A k, l \in Keys :
                          Bytes(k)' > 0 /\ Bytes(l)' > 0 /\ arenas'[k].buf = arenas'[l].buf
                          => k = l
  BY DEF Books
<1>1. /\ \A k \in Keys : Bytes(k) > 0 =>
           arenas[k].buf \in Buffers /\ memory[arenas[k].buf] = Bytes(k)
      /\ \A k, l \in Keys :
           Bytes(k) > 0 /\ Bytes(l) > 0 /\ arenas[k].buf = arenas[l].buf => k = l
  BY OnlyRunningSteps DEF Inv, Books
<1>a. \A t \in Threads : ~MallocFails(t)
  BY FailureIsTheEnd DEF Sound
<1>2. memory \in [Buffers -> Nat]
  BY DEF Inv, Types, TypeOK
<1>4. ASSUME NEW t \in Threads, FreeBuffer(t) \/ Malloc(t), NEW k \in Keys, k # Key(t)
      PROVE  Bytes(k)' = Bytes(k) /\ arenas'[k].buf = arenas[k].buf
  BY <1>4, BytesOfOthersSame
<1>5. ASSUME NEW t \in Threads, FreeBuffer(t)
      PROVE  /\ \A k \in Keys : Bytes(k)' > 0 =>
                  /\ arenas'[k].buf \in Buffers
                  /\ memory'[arenas'[k].buf] = Bytes(k)'
             /\ \A k, l \in Keys :
                  Bytes(k)' > 0 /\ Bytes(l)' > 0 /\ arenas'[k].buf = arenas'[l].buf => k = l
  <2>. PICK m : m = Key(t)
    OBVIOUS
  <2>1. \A k \in Keys \ {m} : Bytes(k)' = Bytes(k) /\ arenas'[k].buf = arenas[k].buf
    BY <1>4, <1>5
  <2>2. /\ m \in Keys /\ Bytes(m) > 0 /\ Bytes(m)' = 0
        /\ memory' = [memory EXCEPT ![arenas[m].buf] = 0]
    BY <1>5, BytesFreed
  <2>3. \A k \in Keys : Bytes(k)' > 0 => k # m /\ arenas[k].buf # arenas[m].buf
    <3>. SUFFICES ASSUME NEW k \in Keys, Bytes(k)' > 0
                  PROVE  k # m /\ arenas[k].buf # arenas[m].buf
      OBVIOUS
    <3>1. k # m
      BY <2>2
    <3>2. Bytes(k) > 0
      BY <2>1, <3>1
    <3>. QED
      BY <1>1, <2>2, <3>1, <3>2
  <2>. QED
    BY <1>1, <1>2, <2>1, <2>2, <2>3
<1>6. ASSUME NEW t \in Threads, Malloc(t)
      PROVE  /\ \A k \in Keys : Bytes(k)' > 0 =>
                  /\ arenas'[k].buf \in Buffers
                  /\ memory'[arenas'[k].buf] = Bytes(k)'
             /\ \A k, l \in Keys :
                  Bytes(k)' > 0 /\ Bytes(l)' > 0 /\ arenas'[k].buf = arenas'[l].buf => k = l
  <2>. PICK m : m = Key(t)
    OBVIOUS
  <2>1. \A k \in Keys \ {m} : Bytes(k)' = Bytes(k) /\ arenas'[k].buf = arenas[k].buf
    BY <1>4, <1>6
  <2>2. PICK b \in Buffers :
          /\ memory[b] = 0 /\ memory' = [memory EXCEPT ![b] = needed(t)]
          /\ arenas' = [arenas EXCEPT ![m].buf = b]
    BY <1>6, BytesAllocated
  <2>3. /\ m \in Keys /\ Bytes(m) = 0
        /\ needed(t) \in Nat /\ needed(t) > 0 /\ Bytes(m)' = needed(t)
        /\ arenas'[m].buf = b
    BY <1>6, <2>2, BytesAllocated DEF Inv, Types, TypeOK
  <2>4. \A k \in Keys : Bytes(k) > 0 => k # m /\ arenas[k].buf # b
    BY <1>1, <2>2, <2>3
  <2>5. memory'[b] = needed(t) /\ \A c \in Buffers \ {b} : memory'[c] = memory[c]
    BY <1>2, <2>2
  <2>6. \A k \in Keys \ {m} : Bytes(k)' > 0 =>
          /\ Bytes(k) > 0 /\ arenas'[k].buf = arenas[k].buf
          /\ arenas'[k].buf \in Buffers \ {b}
    BY <1>1, <2>1, <2>4
  <2>7. ASSUME NEW k \in Keys, Bytes(k)' > 0
        PROVE  /\ arenas'[k].buf \in Buffers
               /\ memory'[arenas'[k].buf] = Bytes(k)'
    <3>1. CASE k = m
      BY <2>3, <2>5, <3>1
    <3>2. CASE k # m
      <4>1. Bytes(k)' = Bytes(k) /\ arenas'[k].buf = arenas[k].buf
        BY <2>1, <3>2
      <4>2. Bytes(k) > 0 /\ arenas[k].buf \in Buffers \ {b}
        BY <1>1, <2>4, <2>7, <4>1
      <4>. QED
        BY <1>1, <2>5, <4>1, <4>2
    <3>. QED
      BY <3>1, <3>2
  <2>8. ASSUME NEW k \in Keys, NEW l \in Keys, Bytes(k)' > 0, Bytes(l)' > 0,
               arenas'[k].buf = arenas'[l].buf
        PROVE  k = l
    BY <1>1, <2>3, <2>6, <2>8
  <2>. QED
    BY <2>7, <2>8
<1>7. CASE \A t \in Threads : ~FreeBuffer(t) /\ ~Malloc(t)
  <2>1. \A k \in Keys : Bytes(k)' = Bytes(k) /\ arenas'[k].buf = arenas[k].buf
    BY <1>7, <1>a, BytesSame
  <2>2. memory' = memory
    BY <1>7, <1>a DEF Next, Ensure, BeginCall, FastPath, SlowPath, LockArena, SyncStream,
                StoreAndReturn, LaunchKernel, RunKernel, BeginCapture,
                EndCapture, Destroy, vars, Sound
  <2>. QED
    BY <1>1, <2>1, <2>2
<1>. QED
  BY <1>5, <1>6, <1>7

LEMMA NothingEverLeaks == Inv /\ [Next]_vars => Unleaked'
<1>. SUFFICES ASSUME Inv, [Next]_vars, NEW b \in Buffers, memory'[b] > 0
              PROVE  \E k \in Keys : Bytes(k)' > 0 /\ arenas'[k].buf = b
  BY DEF Unleaked
<1>1. \A c \in Buffers : memory[c] > 0 => \E k \in Keys : Bytes(k) > 0 /\ arenas[k].buf = c
  BY DEF Inv, Unleaked
<1>2. memory \in [Buffers -> Nat]
  BY DEF Inv, Types, TypeOK
<1>3. ASSUME NEW t \in Threads, FreeBuffer(t)
      PROVE  \E k \in Keys : Bytes(k)' > 0 /\ arenas'[k].buf = b
  <2>. PICK m : m = Key(t)
    OBVIOUS
  <2>1. memory' = [memory EXCEPT ![arenas[m].buf] = 0]
    BY <1>3, BytesFreed
  <2>2. memory[b] > 0 /\ b # arenas[m].buf
    BY <1>2, <2>1
  <2>3. PICK k \in Keys : Bytes(k) > 0 /\ arenas[k].buf = b
    BY <1>1, <2>2
  <2>4. k # Key(t)
    BY <2>2, <2>3
  <2>5. Bytes(k)' = Bytes(k) /\ arenas'[k].buf = arenas[k].buf
    BY <1>3, <2>4, BytesOfOthersSame
  <2>. QED
    BY <2>3, <2>5
<1>4. ASSUME NEW t \in Threads, Malloc(t)
      PROVE  \E k \in Keys : Bytes(k)' > 0 /\ arenas'[k].buf = b
  <2>. PICK m : m = Key(t)
    OBVIOUS
  <2>1. PICK c \in Buffers :
          /\ memory[c] = 0 /\ memory' = [memory EXCEPT ![c] = needed(t)]
          /\ arenas' = [arenas EXCEPT ![m].buf = c]
    BY <1>4, BytesAllocated
  <2>2. /\ m \in Keys /\ Bytes(m) = 0
        /\ needed(t) \in Nat /\ needed(t) > 0 /\ Bytes(m)' = needed(t)
    BY <1>4, BytesAllocated
  <2>3. CASE b = c
    <3>1. arenas'[m].buf = c
      BY <2>1, <2>2 DEF Inv, Types, TypeOK
    <3>. QED
      BY <2>2, <2>3, <3>1
  <2>4. CASE b # c
    <3>1. memory[b] > 0
      BY <1>2, <2>1, <2>4
    <3>2. PICK k \in Keys : Bytes(k) > 0 /\ arenas[k].buf = b
      BY <1>1, <3>1
    <3>3. k # Key(t)
      BY <2>2, <3>2
    <3>4. Bytes(k)' = Bytes(k) /\ arenas'[k].buf = arenas[k].buf
      BY <1>4, <3>3, BytesOfOthersSame
    <3>. QED
      BY <3>2, <3>4
  <2>. QED
    BY <2>3, <2>4
<1>5. ASSUME NEW t \in Threads, MallocFails(t)
      PROVE  \E k \in Keys : Bytes(k)' > 0 /\ arenas'[k].buf = b
  <2>1. memory' = memory /\ pc[t] = "malloc"
    BY <1>5 DEF MallocFails, Goto
  <2>2. PICK k \in Keys : Bytes(k) > 0 /\ arenas[k].buf = b
    BY <1>1, <2>1
  <2>3. k # Key(t)
    <3>1. holder[Key(t)] = t /\ t # None
      BY <2>1, NullPtrIsNone DEF Inv, Locks, InMutex
    <3>2. Bytes(Key(t)) = 0
      BY <2>1, <3>1 DEF Bytes
    <3>. QED
      BY <2>2, <3>2
  <2>4. Bytes(k)' = Bytes(k) /\ arenas'[k].buf = arenas[k].buf
    BY <1>5, <2>3, BytesOfOthersSame
  <2>. QED
    BY <2>2, <2>4
<1>6. CASE \A t \in Threads : ~FreeBuffer(t) /\ ~Malloc(t) /\ ~MallocFails(t)
  <2>1. memory' = memory \/ memory'[b] \in {0, memory[b]}
    BY <1>6 DEF Next, Ensure, BeginCall, FastPath, SlowPath, LockArena, SyncStream,
                StoreAndReturn, LaunchKernel, RunKernel, BeginCapture,
                EndCapture, Destroy, vars
  <2>2. memory[b] > 0
    BY <2>1
  <2>3. PICK k \in Keys : Bytes(k) > 0 /\ arenas[k].buf = b
    BY <1>1, <2>2
  <2>4. Bytes(k)' = Bytes(k) /\ arenas'[k].buf = arenas[k].buf
    BY <1>6, BytesSame
  <2>. QED
    BY <2>3, <2>4
<1>. QED
  BY <1>3, <1>4, <1>5, <1>6

LEMMA FailuresStayUnasserted == Inv /\ [Next]_vars => FailsUnasserted'
<1>. SUFFICES ASSUME Inv, [Next]_vars PROVE FailsUnasserted'
  OBVIOUS
<1>. USE DEF Inv, FailsUnasserted
<1>1. ASSUME NEW t \in Threads, MallocFails(t) PROVE FailsUnasserted'
  BY <1>1 DEF MallocFails
<1>2. UNCHANGED <<failed, asserts>> \/ \E t \in Threads : MallocFails(t)
  BY DEF Next, Ensure, BeginCall, FastPath, SlowPath, LockArena, SyncStream, FreeBuffer,
         Malloc, StoreAndReturn, LaunchKernel, RunKernel, BeginCapture, EndCapture,
         Destroy, vars
<1>. QED
  BY <1>1, <1>2

LEMMA NothingIsLeft == Inv /\ [Next]_vars => NothingLeft'
<1>. SUFFICES ASSUME Inv, [Next]_vars, process' = "exited", NEW b \in Buffers
              PROVE  memory'[b] = 0
  BY DEF NothingLeft
<1>1. CASE Destroy
  <2>1. \A k \in Keys : Bytes(k) = arenas[k].capacity
    BY <1>1, NullPtrIsNone DEF Destroy, Inv, Locks, InMutex, Types, TypeOK, Bytes
  <2>2. memory[b] > 0 => b \in Owned
    BY <2>1 DEF Inv, Unleaked, Owned
  <2>3. memory[b] \in Nat
    BY DEF Inv, Types, TypeOK
  <2>4. memory'[b] \in {0, IF b \in Owned THEN 0 ELSE memory[b]}
    BY <1>1 DEF Destroy
  <2>. QED
    BY <2>2, <2>3, <2>4
<1>2. CASE UNCHANGED vars
  BY <1>2 DEF vars, Inv, NothingLeft
<1>3. CASE Next /\ ~Destroy
  <2>1. process = "runs" /\ process' # "exited"
    BY <1>3 DEF Next, Ensure, BeginCall, FastPath, SlowPath, LockArena, SyncStream,
           FreeBuffer, Malloc, MallocFails, StoreAndReturn, LaunchKernel, Goto, RunKernel,
           BeginCapture, EndCapture
  <2>. QED
    BY <2>1
<1>. QED
  BY <1>1, <1>2, <1>3

-----------------------------------------------------------------------------
(* Calls.                                                                  *)

\* What a step does to the buffers that a call has obtained.
LEMMA CallSteps ==
  ASSUME Inv, [Next]_vars, NEW u \in Threads, pc'[u] # "idle"
  PROVE  \/ held'[u] = <<>>
         \/ /\ pc[u] # "idle" /\ call'[u] = call[u] /\ held'[u] = held[u]
            /\ at'[u] >= at[u]
         \/ /\ pc[u] \in {"ensure", "store"} /\ call'[u] = call[u] /\ at'[u] = at[u]
            /\ held'[u] = Append(held[u], arenas[Key(u)].buf)
            /\ needed(u) <= arenas'[Key(u)].capacity
<1>. USE DEF Inv, Types, TypeOK, IdleIsFresh, Goto
<1>1. CASE \E s \in Streams, o \in Ops : BeginCall(u, s, o)
  BY <1>1 DEF BeginCall
<1>2. CASE LaunchKernel(u)
  BY <1>2 DEF LaunchKernel
<1>3. CASE FastPath(u)
  <2>1. needed(u) <= arenas'[Key(u)].capacity
    BY <1>3 DEF FastPath, Hit
  <2>. QED
    BY <1>3, <2>1 DEF FastPath
<1>4. CASE StoreAndReturn(u)
  <2>1. Key(u) \in Keys /\ needed(u) \in Nat
    BY <1>4, StepTypes DEF StoreAndReturn
  <2>2. needed(u) <= arenas'[Key(u)].capacity
    BY <1>4, <2>1 DEF StoreAndReturn
  <2>. QED
    BY <1>4, <2>2 DEF StoreAndReturn
<1>5. CASE \/ SlowPath(u) \/ LockArena(u) \/ SyncStream(u) \/ FreeBuffer(u) \/ Malloc(u)
           \/ MallocFails(u)
  BY <1>5 DEF SlowPath, LockArena, SyncStream, FreeBuffer, Malloc, MallocFails
<1>6. ASSUME NEW t \in Threads, t # u,
             Ensure(t) \/ LaunchKernel(t) \/ \E s \in Streams, o \in Ops : BeginCall(t, s, o)
      PROVE  pc'[u] = pc[u] /\ call'[u] = call[u] /\ at'[u] = at[u] /\ held'[u] = held[u]
  BY <1>6, OthersStay
<1>7. CASE UNCHANGED callVars
  BY <1>7 DEF callVars
<1>8. \/ UNCHANGED callVars
      \/ \E t \in Threads :
           Ensure(t) \/ LaunchKernel(t) \/ \E s \in Streams, o \in Ops : BeginCall(t, s, o)
  BY DEF Next, RunKernel, BeginCapture, EndCapture, Destroy, vars
<1>9. at[u] \in Nat
  OBVIOUS
<1>10. ASSUME NEW t \in Threads, t # u,
              Ensure(t) \/ LaunchKernel(t) \/ \E s \in Streams, o \in Ops : BeginCall(t, s, o)
       PROVE  /\ pc[u] # "idle" /\ call'[u] = call[u] /\ held'[u] = held[u]
              /\ at'[u] >= at[u]
  BY <1>6, <1>9, <1>10
<1>11. CASE \/ Ensure(u) \/ LaunchKernel(u)
            \/ \E s \in Streams, o \in Ops : BeginCall(u, s, o)
  BY <1>1, <1>2, <1>3, <1>4, <1>5, <1>11 DEF Ensure
<1>. QED
  BY <1>7, <1>8, <1>10, <1>11

\* The steps of an operator's program.
LEMMA ProgramTypes ==
  ASSUME NEW o \in Ops
  PROVE  /\ Len(Program[o]) \in Nat \ {0}
         /\ \A j \in 1 .. Len(Program[o]) :
              Program[o][j] \in [slot: Slots, need: Nat, uses: SUBSET Nat]
<1>1. Program[o] \in Seq([slot: Slots, need: Nat, uses: SUBSET Nat]) \ {<<>>}
  BY ProgramsRederive
<1>. QED
  BY <1>1, EmptySeq, ElementOfSeq

\* An arena that suffices does so after a step.
LEMMA SufficesStays ==
  ASSUME Inv, [Next]_vars, NEW s \in Streams, NEW o \in Ops, NEW j \in 1 .. Len(Program[o]),
         Suffices(s, o, j)
  PROVE  Suffices(s, o, j)'
<1>. DEFINE k == ArenaOf(s, o, j)
<1>1. Program[o][j] \in [slot: Slots, need: Nat, uses: SUBSET Nat]
  BY ProgramTypes
<1>2. k \in Keys
  BY <1>1 DEF ArenaOf, Keys
<1>3. /\ arenas[k].capacity \in Nat /\ arenas'[k].capacity \in Nat
      /\ arenas[k].capacity <= arenas'[k].capacity
  BY <1>2, ArenaWrites, TypesAreKept DEF Inv, Types, TypeOK
<1>. QED
  BY <1>1, <1>2, <1>3 DEF Suffices, ArenaOf

LEMMA ServedIsKept == Inv /\ [Next]_vars => Served'
<1>. SUFFICES ASSUME Inv, [Next]_vars PROVE Served'
  OBVIOUS
<1>1. ASSUME NEW u \in Threads, pc'[u] # "idle", NEW j \in 1 .. Len(held'[u]),
             NEW s, s = call'[u].stream, NEW o, o = call'[u].op
      PROVE  Suffices(s, o, j)'
  <2>1. CASE held'[u] = <<>>
    BY <1>1, <2>1, EmptySeq
  <2>2. CASE pc[u] # "idle" /\ call'[u] = call[u] /\ held'[u] = held[u]
    <3>0. /\ s \in Streams /\ o \in Ops /\ Len(Program[o]) \in Nat
          /\ at[u] \in 1 .. Len(Program[o])
          /\ Len(held[u]) = at[u] \/ Len(held[u]) = at[u] - 1
      BY <1>1, <2>2, StepTypes DEF Inv, Types, TypeOK
    <3>1. j \in 1 .. Len(Program[o])
      BY <1>1, <2>2, <3>0
    <3>2. Suffices(s, o, j)
      BY <1>1, <2>2 DEF Inv, Served
    <3>. QED
      BY <3>0, <3>1, <3>2, SufficesStays
  <2>3. CASE /\ pc[u] \in {"ensure", "store"} /\ call'[u] = call[u]
             /\ held'[u] = Append(held[u], arenas[Key(u)].buf)
             /\ needed(u) <= arenas'[Key(u)].capacity
    <3>1. /\ s \in Streams /\ o \in Ops /\ at[u] \in 1 .. Len(Program[o])
          /\ Key(u) \in Keys
          /\ held[u] \in Seq(Buffers \cup {NullPtr}) /\ Len(held[u]) = at[u] - 1
          /\ Len(Program[o]) \in Nat
      BY <1>1, <2>3, StepTypes DEF Inv, Types, TypeOK
    <3>2. Len(held'[u]) = at[u]
      BY <2>3, <3>1
    <3>3. CASE j < at[u]
      <4>1. Suffices(s, o, j)
        BY <1>1, <2>3, <3>1, <3>3 DEF Inv, Served
      <4>. QED
        BY <3>1, <3>3, <4>1, SufficesStays
    <3>4. CASE j = at[u]
      BY <1>1, <2>3, <3>4 DEF Suffices, ArenaOf, needed, Key, Step
    <3>. QED
      BY <3>1, <3>2, <3>3, <3>4
  <2>. QED
    BY <1>1, <2>1, <2>2, <2>3, CallSteps
<1>2. ASSUME NEW s \in Streams, NEW o \in ran'[s], NEW j \in 1 .. Len(Program[o])
      PROVE  Suffices(s, o, j)'
  <2>0. ran \in [Streams -> SUBSET Ops] /\ o \in Ops
    BY <1>2, TypesAreKept DEF Inv, Types, TypeOK
  <2>1. CASE o \in ran[s]
    BY <1>2, <2>0, <2>1, SufficesStays DEF Inv, Served
  <2>2. CASE o \notin ran[s]
    <3>1. PICK t \in Threads : LaunchKernel(t)
      BY <1>2, <2>2 DEF Next, Ensure, BeginCall, FastPath, SlowPath, LockArena, SyncStream,
           FreeBuffer, Malloc, MallocFails, StoreAndReturn, RunKernel, BeginCapture,
           EndCapture, Destroy, vars
    <3>2. /\ pc[t] = "launch" /\ at[t] = Len(Program[call[t].op])
          /\ s = call[t].stream /\ o = call[t].op
      <4>1. /\ pc[t] = "launch"
            /\ \/ ran' = ran
               \/ /\ at[t] = Len(Program[call[t].op])
                  /\ ran' = [ran EXCEPT ![call[t].stream] = @ \cup {call[t].op}]
        BY <3>1 DEF LaunchKernel, Goto
      <4>. QED
        BY <1>2, <2>0, <2>2, <4>1
    <3>3. Len(held[t]) = Len(Program[o])
      <4>1. at[t] \in Nat /\ Len(held[t]) = at[t] - (IF pc[t] = "launch" THEN 0 ELSE 1)
        BY <3>2 DEF Inv, Types, TypeOK
      <4>. QED
        BY <3>2, <4>1
    <3>4. Suffices(s, o, j)
      BY <1>2, <3>2, <3>3 DEF Inv, Served
    <3>. QED
      BY <1>2, <2>0, <3>4, SufficesStays
  <2>. QED
    BY <2>1, <2>2
<1>. QED
  BY <1>1, <1>2 DEF Served, Suffices, ArenaOf

\* Only a step's own Malloc replaces the buffer of its arena.
LEMMA OthersBuffersStay ==
  ASSUME Inv, [Next]_vars, NEW u \in Threads, NEW t \in Threads, u # t, Malloc(t),
         NEW k \in Keys, pc[u] # "idle", k[1] = call[u].stream
  PROVE  arenas'[k].buf = arenas[k].buf
<1>1. /\ pc[t] = "malloc" /\ \E b \in Buffers : arenas' = [arenas EXCEPT ![Key(t)].buf = b]
  BY DEF Malloc, Goto
<1>2. Key(t) \in Keys /\ Key(t)[1] = call[t].stream
  BY <1>1, StepTypes DEF Inv, Types
<1>3. Key(t) # k
  BY <1>1, <1>2 DEF Inv, Locks
<1>. QED
  BY <1>1, <1>2, <1>3 DEF Inv, Types, TypeOK

LEMMA CopiesStayCurrent == Inv /\ [Next]_vars => CopiesCurrent'
<1>. SUFFICES ASSUME Inv, [Next]_vars, Sound',
                     NEW u \in Threads, pc'[u] # "idle", NEW j \in 1 .. Len(held'[u]),
                     NEW s, s = call'[u].stream, NEW o, o = call'[u].op,
                     \A k \in j + 1 .. at'[u] : Program[o][k].slot # Program[o][j].slot
              PROVE  held'[u][j] = arenas'[ArenaOf(s, o, j)].buf
  BY DEF CopiesCurrent, ArenaOf
<1>1. CASE held'[u] = <<>>
  BY <1>1, EmptySeq
<1>2. ASSUME pc[u] # "idle", call'[u] = call[u], at'[u] >= at[u], j \in 1 .. Len(held[u])
      PROVE  held[u][j] = arenas'[ArenaOf(s, o, j)].buf
  <2>1. /\ s \in Streams /\ o \in Ops /\ Len(Program[o]) \in Nat
        /\ at[u] \in 1 .. Len(Program[o]) /\ at'[u] \in Nat
        /\ pc[u] # "launch" => Len(held[u]) = at[u] - 1
        /\ pc[u] = "launch" => Len(held[u]) = at[u]
    <3>1. s = call[u].stream /\ o = call[u].op
      BY <1>2
    <3>2. /\ s \in Streams /\ o \in Ops /\ Len(Program[o]) \in Nat
      BY <1>2, <3>1, StepTypes DEF Inv, Types
    <3>3. /\ at[u] \in 1 .. Len(Program[o])
          /\ Len(held[u]) = at[u] - (IF pc[u] = "launch" THEN 0 ELSE 1)
      BY <1>2, <3>1 DEF Inv, Types, TypeOK
    <3>4. at'[u] \in Nat
      BY TypesAreKept DEF Inv, Types, TypeOK
    <3>. QED
      BY <3>2, <3>3, <3>4
  <2>2. Program[o][j] \in [slot: Slots, need: Nat, uses: SUBSET Nat]
    BY <1>2, <2>1, ProgramTypes
  <2>3. ArenaOf(s, o, j) \in Keys /\ ArenaOf(s, o, j)[1] = s
    BY <2>1, <2>2 DEF ArenaOf, Keys
  <2>4. held[u][j] = arenas[ArenaOf(s, o, j)].buf
    BY <1>2, <2>1, OnlyRunningSteps DEF Inv, CopiesCurrent
  <2>5. CASE Malloc(u)
    <3>1. /\ pc[u] = "malloc" /\ at'[u] = at[u]
          /\ \E b \in Buffers : arenas' = [arenas EXCEPT ![Key(u)].buf = b]
      BY <2>5 DEF Malloc, Goto
    <3>2. j < at[u]
      BY <1>2, <2>1, <3>1
    <3>3. Key(u) \in Keys /\ Key(u)[2] = Program[o][at[u]].slot
      BY <1>2, StepTypes DEF Inv, Types, Step
    <3>4. Key(u) # ArenaOf(s, o, j)
      <4>1. at[u] \in j + 1 .. at'[u]
        BY <1>2, <2>1, <3>1, <3>2
      <4>2. Program[o][at[u]].slot # Program[o][j].slot
        BY <4>1
      <4>. QED
        BY <3>3, <4>2 DEF ArenaOf
    <3>. QED
      BY <2>3, <2>4, <3>1, <3>3, <3>4 DEF Inv, Types, TypeOK
  <2>6. CASE ~Malloc(u)
    <3>1. arenas'[ArenaOf(s, o, j)].buf = arenas[ArenaOf(s, o, j)].buf
      BY <1>2, <2>3, <2>6, ArenaWrites, OthersBuffersStay, FailureIsTheEnd DEF Inv
    <3>. QED
      BY <2>4, <3>1
  <2>. QED
    BY <2>5, <2>6
<1>3. CASE /\ pc[u] # "idle" /\ call'[u] = call[u] /\ held'[u] = held[u]
           /\ at'[u] >= at[u]
  BY <1>2, <1>3
<1>4. CASE /\ pc[u] \in {"ensure", "store"} /\ call'[u] = call[u] /\ at'[u] = at[u]
           /\ held'[u] = Append(held[u], arenas[Key(u)].buf)
  <2>1. /\ held[u] \in Seq(Buffers \cup {NullPtr}) /\ Len(held[u]) = at[u] - 1
        /\ at[u] \in Nat
    BY <1>4 DEF Inv, Types, TypeOK
  <2>2. CASE j \in 1 .. Len(held[u])
    <3>1. held'[u][j] = held[u][j]
      BY <1>4, <2>1, <2>2
    <3>. QED
      BY <1>2, <1>4, <2>1, <2>2, <3>1
  <2>3. CASE j = at[u]
    <3>1. held'[u][j] = arenas[Key(u)].buf
      BY <1>4, <2>1, <2>3
    <3>2. /\ Key(u) = ArenaOf(s, o, j) /\ Key(u) \in Keys /\ Key(u)[1] = call[u].stream
      BY <1>4, <2>3, StepTypes DEF Key, Step, ArenaOf, Inv, Types
    <3>3. ~Malloc(u)
      BY <1>4 DEF Malloc, Goto
    <3>4. arenas'[Key(u)].buf = arenas[Key(u)].buf
      BY <1>4, <3>2, <3>3, ArenaWrites, OthersBuffersStay, FailureIsTheEnd DEF Inv
    <3>. QED
      BY <3>1, <3>2, <3>4
  <2>. QED
    BY <1>4, <2>1, <2>2, <2>3
<1>. QED
  BY <1>1, <1>3, <1>4, CallSteps

-----------------------------------------------------------------------------
(* Captures.                                                               *)

\* Which steps change what is said of the capture.
LEMMA CaptureSteps ==
  ASSUME [Next]_vars
  PROVE  /\ asserts' = asserts
         /\ \/ capture' = capture /\ capStream' = capStream /\ warmed' = warmed
            \/ \E s \in Streams : BeginCapture(s)
            \/ capture = "during" /\ capture' = "after" /\ capStream' = capStream
               /\ warmed' = warmed
         /\ graph' = graph \/ \E t \in Threads : LaunchKernel(t) /\ OnCaptured(t)
BY DEF Next, Ensure, BeginCall, FastPath, SlowPath, LockArena, SyncStream, FreeBuffer,
       Malloc, MallocFails, StoreAndReturn, LaunchKernel, RunKernel, BeginCapture,
       EndCapture, Destroy, vars, captureVars, capturing

LEMMA CapturesAreKept == Inv /\ [Next]_vars => Captures'
<1>. SUFFICES ASSUME Inv, [Next]_vars PROVE Captures'
  OBVIOUS
<1>0. capture \in {"before", "during", "after"}
  BY DEF Inv, Types, TypeOK
<1>1. capture' = "before" => ~warmed' /\ graph' = {}
  BY <1>0, CaptureSteps DEF Inv, Captures, BeginCapture, OnCaptured, capturing
<1>2. capture' # "before" => capStream' \in Streams
  BY <1>0, CaptureSteps DEF Inv, Captures, BeginCapture
<1>3. ASSUME warmed', NEW o \in Ops, NEW j \in 1 .. Len(Program[o]), NEW c, c = capStream'
      PROVE  Suffices(c, o, j)'
  <2>1. CASE warmed /\ capStream' = capStream
    BY <1>3, <2>1, SufficesStays DEF Inv, Captures
  <2>2. ASSUME NEW s \in Streams, BeginCapture(s)
        PROVE  Suffices(c, o, j)'
    BY <1>3, <2>2, SufficesStays DEF BeginCapture, Inv, Served
  <2>. QED
    BY <1>3, <2>1, <2>2, CaptureSteps
<1>4. ASSUME process' = "runs", asserts', capture' = "during",
             NEW t \in Threads, pc'[t] \in InMutex \cup {"lock"}
      PROVE  call'[t].stream # capStream'
  <2>1. process = "runs" /\ asserts
    <3>1. FailsUnasserted'
      BY FailuresStayUnasserted
    <3>2. Sound'
      BY <1>4, <3>1 DEF Sound, FailsUnasserted
    <3>. QED
      BY <1>4, <3>2, CaptureSteps, OnlyRunningSteps DEF Sound
  <2>2. ASSUME NEW s \in Streams, BeginCapture(s)
        PROVE  call'[t].stream # capStream'
    BY <1>4, <2>2 DEF BeginCapture, InCall, callVars, InMutex
  <2>3. CASE capture = "during" /\ capStream' = capStream
    <3>1. CASE pc[t] \in InMutex \cup {"lock"} /\ call'[t] = call[t]
      BY <2>1, <2>3, <3>1 DEF Inv, Captures, capturing
    <3>2. CASE SlowPath(t)
      BY <1>4, <2>1, <2>3, <3>2 DEF SlowPath, capturing
    <3>3. CASE Ensure(t) /\ ~SlowPath(t)
      <4>1. call' = call
        BY <3>3, EnsureKeepsCalls
      <4>2. pc[t] \in InMutex \cup {"lock"}
        BY <1>4, <3>3 DEF Ensure, FastPath, LockArena, SyncStream, FreeBuffer, Malloc,
             MallocFails, StoreAndReturn, Goto, InMutex, Inv, Types, TypeOK
      <4>. QED
        BY <3>1, <4>1, <4>2
    <3>4. ~LaunchKernel(t) /\ ~\E s \in Streams, o \in Ops : BeginCall(t, s, o)
      BY <1>4 DEF LaunchKernel, BeginCall, Goto, InMutex, Inv, Types, TypeOK
    <3>5. ASSUME NEW u \in Threads, u # t,
                 \/ Ensure(u) \/ LaunchKernel(u)
                 \/ \E s \in Streams, o \in Ops : BeginCall(u, s, o)
          PROVE  pc'[t] = pc[t] /\ call'[t] = call[t]
      BY <3>5, OthersStay DEF Inv
    <3>6. CASE UNCHANGED callVars
      BY <1>4, <3>1, <3>6 DEF callVars
    <3>7. \/ UNCHANGED callVars
          \/ \E u \in Threads :
               \/ Ensure(u) \/ LaunchKernel(u)
               \/ \E s \in Streams, o \in Ops : BeginCall(u, s, o)
      BY DEF Next, RunKernel, BeginCapture, EndCapture, Destroy, vars
    <3>. QED
      BY <1>4, <3>1, <3>2, <3>3, <3>4, <3>5, <3>6, <3>7
  <2>. QED
    BY <1>4, <2>2, <2>3, CaptureSteps
<1>. QED
  BY <1>1, <1>2, <1>3, <1>4 DEF Captures, Suffices, ArenaOf, capturing

\* No arena of a captured stream is being replaced, and none at all of a
\* stream that was warmed up.
LEMMA CapturedIsNotReplaced ==
  ASSUME Inv, Sound, NEW t \in Threads, pc[t] \in {"sync", "free", "malloc"},
         warmed \/ (asserts /\ capturing)
  PROVE  call[t].stream # capStream
<1>1. CASE asserts /\ capturing
  BY <1>1 DEF Inv, Captures, InMutex, Sound
<1>2. CASE warmed
  <2>1. /\ Key(t) \in Keys /\ needed(t) \in Nat /\ arenas[Key(t)].capacity \in Nat
        /\ arenas[Key(t)].capacity < needed(t)
    BY StepTypes DEF Inv, Types, TypeOK, Locks
  <2>2. call[t].op \in Ops /\ at[t] \in 1 .. Len(Program[call[t].op])
    BY StepTypes DEF Inv, Types, TypeOK
  <2>3. Suffices(capStream, call[t].op, at[t])
    BY <1>2, <2>2 DEF Inv, Captures
  <2>. QED
    BY <2>1, <2>3 DEF Suffices, ArenaOf, needed, Key, Step
<1>. QED
  BY <1>1, <1>2

LEMMA SupportedBefore ==
  ASSUME [Next]_vars, Supported'
  PROVE  Supported
BY CaptureSteps DEF Supported, BeginCapture

LEMMA WaitedIsKept == Inv /\ [Next]_vars => Waited'
<1>. SUFFICES ASSUME Inv, [Next]_vars, Sound', Supported',
                     NEW t \in Threads, pc'[t] = "free"
              PROVE  pending'[call'[t].stream] = <<>>
  BY DEF Waited
<1>1. Sound /\ Supported
  BY OnlyRunningSteps, SupportedBefore
<1>2. CASE SyncStream(t)
  <2>1. /\ pc[t] = "sync" /\ pending' = pending /\ call' = call
        /\ pending[call[t].stream] = <<>> \/ (capturing /\ capStream = call[t].stream)
    BY <1>2 DEF SyncStream, Goto
  <2>2. ~(capturing /\ capStream = call[t].stream)
    BY <1>1, <2>1, CapturedIsNotReplaced DEF Supported, capturing
  <2>. QED
    BY <2>1, <2>2
<1>3. CASE pc[t] = "free" /\ call'[t] = call[t]
  <2>1. /\ pending[call[t].stream] = <<>>
        /\ call[t].stream \in Streams
    BY <1>1, <1>3, StepTypes DEF Inv, Waited, Types
  <2>2. ASSUME NEW u \in Threads, LaunchKernel(u)
        PROVE  pending'[call[t].stream] = pending[call[t].stream]
    <3>1. pc[u] = "launch"
      BY <2>2 DEF LaunchKernel, Goto
    <3>2. call[u].stream # call[t].stream
      BY <1>3, <3>1 DEF Inv, Locks
    <3>. QED
      BY <2>1, <2>2, <3>2 DEF LaunchKernel, Inv, Types, TypeOK
  <2>3. ASSUME NEW s \in Streams, RunKernel(s)
        PROVE  pending'[call[t].stream] = pending[call[t].stream]
    <3>1. pending[s] # <<>> /\ pending' = [pending EXCEPT ![s] = Tail(@)]
      BY <2>3 DEF RunKernel
    <3>2. DOMAIN pending = Streams
      BY DEF Inv, Types, TypeOK
    <3>. QED
      BY <2>1, <3>1, <3>2
  <2>4. CASE UNCHANGED pending
    BY <1>3, <2>1, <2>4
  <2>. QED
    BY <1>3, <2>1, <2>2, <2>3, <2>4
       DEF Next, Ensure, BeginCall, FastPath, SlowPath, LockArena, SyncStream, FreeBuffer,
           Malloc, MallocFails, StoreAndReturn, BeginCapture, EndCapture, Destroy, vars
<1>4. CASE Ensure(t) /\ ~SyncStream(t)
  BY <1>4 DEF Ensure, FastPath, SlowPath, LockArena, FreeBuffer, Malloc, MallocFails,
       StoreAndReturn, Goto, Inv, Types, TypeOK
<1>5. ~LaunchKernel(t) /\ ~\E s \in Streams, o \in Ops : BeginCall(t, s, o)
  BY DEF LaunchKernel, BeginCall, Goto, Inv, Types, TypeOK
<1>6. ASSUME NEW u \in Threads, u # t,
             \/ Ensure(u) \/ LaunchKernel(u)
             \/ \E s \in Streams, o \in Ops : BeginCall(u, s, o)
      PROVE  pc[t] = "free" /\ call'[t] = call[t]
  BY <1>6, OthersStay DEF Inv
<1>7. CASE UNCHANGED callVars
  BY <1>3, <1>7 DEF callVars
<1>8. \/ UNCHANGED callVars
      \/ \E u \in Threads :
           \/ Ensure(u) \/ LaunchKernel(u)
           \/ \E s \in Streams, o \in Ops : BeginCall(u, s, o)
  BY DEF Next, RunKernel, BeginCapture, EndCapture, Destroy, vars
<1>. QED
  BY <1>2, <1>3, <1>4, <1>5, <1>6, <1>7, <1>8

-----------------------------------------------------------------------------
(* Kernels.                                                                *)

\* Whatever is launched uses buffers its stream has.
LEMMA KernelKept ==
  ASSUME Inv, Sound, NEW t \in Threads, pc[t] = "launch", NEW v \in Kernel(t),
         NEW s, s = call[t].stream
  PROVE  Kept(v, s)
<1>. DEFINE o == call[t].op
<1>1. /\ s \in Streams /\ o \in Ops /\ at[t] \in 1 .. Len(Program[o])
      /\ Len(Program[o]) \in Nat
  BY StepTypes DEF Inv, Types, TypeOK
<1>2. Len(held[t]) = at[t]
  <2>1. at[t] \in Nat /\ Len(held[t]) = at[t] - (IF pc[t] = "launch" THEN 0 ELSE 1)
    BY DEF Inv, Types, TypeOK
  <2>. QED
    BY <2>1
<1>3. PICK u \in Step(t).uses :
        /\ Program[o][u].need > 0
        /\ v = [buf |-> held[t][u], need |-> Program[o][u].need]
  BY DEF Kernel
<1>4. /\ u \in 1 .. at[t]
      /\ \A k \in u + 1 .. at[t] : Program[o][k].slot # Program[o][u].slot
  BY <1>1, <1>3, ProgramsRederive DEF Step
<1>5. Program[o][u] \in [slot: Slots, need: Nat, uses: SUBSET Nat]
  BY <1>1, <1>4, ProgramTypes
<1>. DEFINE k == ArenaOf(s, o, u)
<1>6. k \in Keys /\ k = <<s, Program[o][u].slot>>
  BY <1>1, <1>5 DEF ArenaOf, Keys
<1>7. held[t][u] = arenas[k].buf /\ Program[o][u].need <= arenas[k].capacity
  BY <1>2, <1>4 DEF Inv, CopiesCurrent, Served, Suffices
<1>8. holder[k] = None
  <2>. SUFFICES ASSUME holder[k] # None PROVE FALSE
    OBVIOUS
  <2>1. holder[k] \in Threads /\ pc[holder[k]] \in InMutex /\ Key(holder[k]) = k
    BY <1>6 DEF Inv, Locks, Types, TypeOK
  <2>2. call[holder[k]].stream = s
    BY <1>6, <2>1 DEF Key
  <2>. QED
    BY <2>1, <2>2 DEF Inv, Locks, InMutex
<1>9. Bytes(k) = arenas[k].capacity
  BY <1>8 DEF Bytes
<1>. QED
  BY <1>3, <1>5, <1>6, <1>7, <1>9 DEF Kept

\* A use is kept while no buffer of its stream is freed.
LEMMA KeptStays ==
  ASSUME Inv, [Next]_vars, Sound', NEW s \in Streams, NEW v \in Uses, Kept(v, s),
         \A t \in Threads : FreeBuffer(t) => call[t].stream # s
  PROVE  Kept(v, s)'
<1>1. PICK slot \in Slots : arenas[<<s, slot>>].buf = v.buf /\ v.need <= Bytes(<<s, slot>>)
  BY DEF Kept
<1>. PICK k : k = <<s, slot>>
  OBVIOUS
<1>2. k \in Keys /\ Bytes(k) \in Nat /\ Bytes(k) > 0 /\ v.need \in Nat /\ v.need > 0
  BY <1>1, BytesTypes DEF Keys, Kept, Uses
<1>3. ASSUME NEW t \in Threads, Key(t) = k
      PROVE  ~FreeBuffer(t) /\ ~Malloc(t) /\ ~MallocFails(t)
  <2>1. call[t].stream = s
    BY <1>3 DEF Key
  <2>2. Malloc(t) => Bytes(k) = 0
    BY <1>3, BytesAllocated
  <2>3. ~MallocFails(t)
    BY FailureIsTheEnd
  <2>. QED
    BY <1>2, <2>1, <2>2, <2>3
<1>4. Bytes(k)' = Bytes(k) /\ arenas'[k].buf = arenas[k].buf
  BY <1>2, <1>3, BytesSame
<1>5. arenas'[k].buf = v.buf /\ v.need <= Bytes(k)'
  BY <1>1, <1>4
<1>. QED
  BY <1>2, <1>5 DEF Kept, Bytes

LEMMA PendingIsKept == Inv /\ [Next]_vars => PendingKept'
<1>. SUFFICES ASSUME Inv, [Next]_vars, Sound', Supported',
                     NEW s \in Streams, NEW i \in 1 .. Len(pending'[s]),
                     NEW v \in pending'[s][i]
              PROVE  Kept(v, s)'
  BY DEF PendingKept, Kept, Bytes
<1>1. Sound /\ Supported
  BY OnlyRunningSteps, SupportedBefore
<1>2. v \in Uses
  <2>1. pending'[s] \in Seq(SUBSET Uses)
    BY TypesAreKept DEF Inv, Types, TypeOK
  <2>. QED
    BY <2>1, ElementOfSeq
<1>3. pending \in [Streams -> Seq(SUBSET Uses)]
  BY DEF Inv, Types, TypeOK
<1>4. ASSUME NEW t \in Threads, LaunchKernel(t), pending' # pending
      PROVE  Kept(v, s)'
  <2>1. /\ pc[t] = "launch"
        /\ pending' = [pending EXCEPT ![call[t].stream] = Append(@, Kernel(t))]
    BY <1>4 DEF LaunchKernel, Goto
  <2>2. call[t].stream \in Streams /\ Kernel(t) \in SUBSET Uses
    BY <2>1, StepTypes, KernelTypes DEF Inv, Types
  <2>3. \/ i \in 1 .. Len(pending[s]) /\ v \in pending[s][i]
        \/ s = call[t].stream /\ v \in Kernel(t)
    BY <1>3, <2>1, <2>2
  <2>4. Kept(v, s)
    BY <1>1, <2>1, <2>3, KernelKept DEF Inv, PendingKept
  <2>5. ~\E u \in Threads : FreeBuffer(u)
    <3>0. DOMAIN pc = Threads
      BY DEF Inv, Types, TypeOK
    <3>1. pc'[t] \in {"idle", "ensure"}
      BY <1>4, <3>0 DEF LaunchKernel, Goto
    <3>2. \A u \in Threads : FreeBuffer(u) => u # t /\ pc'[u] = "malloc" /\ pc[u] = "free"
      BY <2>1, <3>0, <3>1 DEF FreeBuffer, Goto
    <3>3. \A u \in Threads : u # t => pc'[u] = pc[u]
      BY <1>4, OthersStay DEF Inv
    <3>. QED
      BY <3>2, <3>3
  <2>. QED
    BY <1>2, <2>4, <2>5, KeptStays
<1>5. ASSUME NEW r \in Streams, RunKernel(r)
      PROVE  Kept(v, s)'
  <2>1. pending[r] # <<>> /\ pending' = [pending EXCEPT ![r] = Tail(@)]
    BY <1>5 DEF RunKernel
  <2>2. \E n \in 1 .. Len(pending[s]) : v \in pending[s][n]
    <3>1. CASE s = r
      <4>1. /\ pending'[s] = Tail(pending[s]) /\ Len(pending[s]) \in Nat
            /\ Len(Tail(pending[s])) = Len(pending[s]) - 1
            /\ \A n \in 1 .. Len(Tail(pending[s])) : Tail(pending[s])[n] = pending[s][n + 1]
        BY <1>3, <2>1, <3>1, HeadTailProperties
      <4>2. v \in pending[s][i + 1] /\ i + 1 \in 1 .. Len(pending[s])
        BY <4>1
      <4>. QED
        BY <4>2
    <3>2. CASE s # r
      BY <1>3, <2>1, <3>2
    <3>. QED
      BY <3>1, <3>2
  <2>3. Kept(v, s)
    BY <1>1, <2>2 DEF Inv, PendingKept
  <2>4. ~\E u \in Threads : FreeBuffer(u)
    BY <1>5, <2>1 DEF RunKernel, FreeBuffer, callVars, Goto, Inv, Types, TypeOK
  <2>. QED
    BY <1>2, <2>3, <2>4, KeptStays
<1>6. CASE UNCHANGED pending
  <2>1. Kept(v, s)
    BY <1>1, <1>6 DEF Inv, PendingKept
  <2>2. ASSUME NEW t \in Threads, FreeBuffer(t)
        PROVE  call[t].stream # s
    <3>1. pending[call[t].stream] = <<>>
      BY <1>1, <2>2 DEF FreeBuffer, Goto, Inv, Waited
    <3>. QED
      BY <1>6, <3>1, EmptySeq
  <2>. QED
    BY <1>2, <2>1, <2>2, KeptStays
<1>. QED
  BY <1>4, <1>5, <1>6
     DEF Next, Ensure, BeginCall, FastPath, SlowPath, LockArena, SyncStream, FreeBuffer,
         Malloc, MallocFails, StoreAndReturn, BeginCapture, EndCapture, Destroy, vars

LEMMA GraphIsKept == Inv /\ [Next]_vars => GraphKept'
<1>. SUFFICES ASSUME Inv, [Next]_vars, Sound', warmed', NEW v \in graph',
                     NEW c, c = capStream'
              PROVE  Kept(v, c)'
  BY DEF GraphKept, Kept, Bytes
<1>1. Sound
  BY OnlyRunningSteps
<1>2. v \in Uses
  BY TypesAreKept DEF Inv, Types, TypeOK
<1>3. CASE \E s \in Streams : BeginCapture(s)
  BY <1>3 DEF BeginCapture, Inv, Captures
<1>4. CASE warmed /\ c = capStream
  <2>1. c \in Streams
    BY <1>4 DEF Inv, Captures
  <2>2. ASSUME NEW t \in Threads, FreeBuffer(t)
        PROVE  call[t].stream # c
    BY <1>1, <1>4, <2>2, CapturedIsNotReplaced DEF FreeBuffer, Goto
  <2>3. Kept(v, c)
    <3>1. CASE v \in graph
      BY <1>1, <1>4, <3>1 DEF Inv, GraphKept
    <3>2. ASSUME NEW t \in Threads, LaunchKernel(t), OnCaptured(t), v \notin graph
          PROVE  Kept(v, c)
      BY <1>1, <1>4, <3>2, KernelKept DEF LaunchKernel, OnCaptured, Goto
    <3>. QED
      BY <3>1, <3>2, CaptureSteps
  <2>. QED
    BY <1>2, <2>1, <2>2, <2>3, KeptStays
<1>. QED
  BY <1>3, <1>4, CaptureSteps

-----------------------------------------------------------------------------
(* The invariant, and what follows from it.                                *)

LEMMA InvHoldsAtFirst == Init => Inv
<1>. SUFFICES ASSUME Init PROVE Inv
  OBVIOUS
<1>1. Types
  BY TypesHoldAtFirst
<1>2. /\ \A t \in Threads : pc[t] = "idle"
      /\ \A k \in Keys : holder[k] = None /\ arenas[k].capacity = 0
      /\ \A b \in Buffers : memory[b] = 0
      /\ \A s \in Streams : pending[s] = <<>> /\ ran[s] = {}
      /\ capture = "before" /\ warmed = FALSE /\ graph = {} /\ process = "runs" /\ ~failed
  BY DEF Init
<1>3. Locks /\ Served /\ CopiesCurrent /\ Captures /\ Waited /\ GraphKept /\ NothingLeft /\ FailsUnasserted
  BY <1>2 DEF FailsUnasserted, Locks, InMutex, Served, CopiesCurrent, Captures, capturing, Waited,
              GraphKept, NothingLeft
<1>4. Books /\ Unleaked
  BY <1>2 DEF Books, Unleaked, Bytes
<1>5. PendingKept
  BY <1>2, EmptySeq DEF PendingKept
<1>. QED
  BY <1>1, <1>3, <1>4, <1>5 DEF Inv

LEMMA InvIsInvariant == Spec => []Inv
<1>1. Init => Inv
  BY InvHoldsAtFirst
<1>2. Inv /\ [Next]_vars => Inv'
  BY TypesAreKept, LocksAreKept, BooksAreKept, NothingEverLeaks, NothingIsLeft, ServedIsKept,
     FailuresStayUnasserted, CopiesStayCurrent, CapturesAreKept, WaitedIsKept, PendingIsKept, GraphIsKept DEF Inv
<1>. QED
  BY <1>1, <1>2, PTL DEF Spec

LEMMA KeptIsGood ==
  ASSUME Inv, Sound, NEW s \in Streams, NEW v \in Uses, Kept(v, s)
  PROVE  Good(v, s)
<1>1. PICK slot \in Slots :
        v.need > 0 /\ arenas[<<s, slot>>].buf = v.buf /\ v.need <= Bytes(<<s, slot>>)
  BY DEF Kept
<1>. PICK k : k = <<s, slot>>
  OBVIOUS
<1>2. k \in Keys /\ Bytes(k) \in Nat /\ v.need \in Nat
  BY BytesTypes DEF Keys, Uses
<1>3. v.buf \in Buffers /\ memory[v.buf] = Bytes(k)
  BY <1>1, <1>2 DEF Inv, Books
<1>. QED
  BY <1>1, <1>2, <1>3 DEF Good, OfStream

(* Every variable keeps its type; an operator call in progress has as many *)
(* buffers as it made steps.                                               *)
THEOREM TypeCorrect == Spec => []TypeOK
<1>1. Inv => TypeOK
  BY DEF Inv, Types
<1>. QED
  BY <1>1, InvIsInvariant, PTL

(* Whatever the operators ask for, and however often arenas are replaced,  *)
(* a kernel waiting in a stream finds its buffers allocated, large enough  *)
(* and its stream's own, until an allocation fails unnoticed in a build    *)
(* without assertions (Ensure with the operators that re-derive).          *)
THEOREM KernelsFindTheirBuffers == Spec => []KernelsSafe
<1>1. Inv => KernelsSafe
  <2>. SUFFICES ASSUME Inv, Sound, Supported,
                       NEW s \in Streams, NEW i \in 1 .. Len(pending[s]),
                       NEW v \in pending[s][i]
                PROVE  Good(v, s)
    BY DEF KernelsSafe
  <2>1. pending[s] \in Seq(SUBSET Uses)
    BY DEF Inv, Types, TypeOK
  <2>2. v \in Uses
    BY <2>1, ElementOfSeq
  <2>3. Kept(v, s)
    BY DEF Inv, PendingKept
  <2>. QED
    BY <2>2, <2>3, KeptIsGood
<1>. QED
  BY <1>1, InvIsInvariant, PTL

(* The pool's books are exact: until an allocation fails unnoticed, an     *)
(* arena that no thread replaces has the memory that its capacity says,    *)
(* its own; nothing leaks, after such a failure neither, and an orderly    *)
(* exit leaves nothing (Ensure, ~WorkspacePool).                           *)
THEOREM NothingLeaks == Spec => []BooksExact
<1>1. Inv => BooksExact
  <2>1. \A k \in Keys : holder[k] = None => Bytes(k) = arenas[k].capacity
    BY DEF Bytes
  <2>. QED
    BY <2>1 DEF Inv, Books, Unleaked, NothingLeft, FailsUnasserted, BooksExact
<1>. QED
  BY <1>1, InvIsInvariant, PTL

(* A graph captured after its operators were warmed up on the stream uses  *)
(* buffers that the stream keeps, unless a later allocation fails          *)
(* unnoticed (Ensure's fast path, no growth).                              *)
THEOREM GraphsStayReplayable == Spec => []GraphReplayable
<1>1. Inv => GraphReplayable
  <2>. SUFFICES ASSUME Inv, Sound, warmed, NEW v \in graph
                PROVE  Good(v, capStream)
    BY DEF GraphReplayable
  <2>1. capStream \in Streams /\ v \in Uses /\ Kept(v, capStream)
    BY DEF Inv, Captures, GraphKept, Types, TypeOK
  <2>. QED
    BY <2>1, KeptIsGood
<1>. QED
  BY <1>1, InvIsInvariant, PTL

(* With assertions, no arena of a stream is reallocated while it is being  *)
(* captured (the assertion on capturing_ in Ensure's slow path).           *)
THEOREM CapturesDoNotAllocate == Spec => NoAllocationInCapture
<1>1. Inv /\ [Next]_vars =>
        [asserts /\ capturing =>
           \A slot \in Slots :
             arenas'[<<capStream, slot>>].buf = arenas[<<capStream, slot>>].buf]_vars
  <2>. SUFFICES ASSUME Inv, [Next]_vars, asserts, capturing, NEW slot \in Slots
                PROVE  arenas'[<<capStream, slot>>].buf = arenas[<<capStream, slot>>].buf
    OBVIOUS
  <2>1. <<capStream, slot>> \in Keys
    BY DEF Inv, Captures, capturing, Keys
  <2>2. ASSUME NEW t \in Threads, Malloc(t)
        PROVE  Key(t) # <<capStream, slot>>
    <3>1. Sound /\ pc[t] = "malloc"
      BY <2>2 DEF Malloc, Goto, Sound, Inv, FailsUnasserted
    <3>. QED
      BY <3>1, CapturedIsNotReplaced DEF Key
  <2>3. ASSUME NEW t \in Threads, MallocFails(t)
        PROVE  arenas' = arenas
    BY <2>3 DEF MallocFails
  <2>. QED
    BY <2>1, <2>2, <2>3, ArenaWrites DEF Inv
<1>. QED
  BY <1>1, InvIsInvariant, PTL DEF Spec, NoAllocationInCapture
=============================================================================
